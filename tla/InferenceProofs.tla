--------------------------- MODULE InferenceProofs ---------------------------
(* Theorems about Inference, for every pool, every set of jobs and requests, *)
(* every MAX_DELIVERIES and any number of faults and crashes.                *)
EXTENDS Inference, TLAPS

(* A worker that has a request works on one of the known jobs. *)
LEMMA RequestTyped ==
    ASSUME TypeOK, NEW w \in Workers, WorkerInv(w), pc[w] # "idle"
    PROVE  request[w] \in Requests /\ Job(w) \in Jobs
  BY InferenceConstants DEF WorkerInv, Job

(* The fault counter stays a number. *)
LEMMA FaultTyped == TypeOK /\ (Fault \/ NoFault) => faults' \in Nat
  BY DEF TypeOK, Fault, NoFault

(* A start time that a worker takes is the name of an output. *)
LEMMA StartTime ==
    ASSUME NEW m \in Requests, NEW n \in Nat
    PROVE  <<m, n>> \in Output /\ <<m, n>> # NoOutput
  BY InferenceConstants DEF Output

(* A worker that leaves or moves changes its own variables only. *)
LEMMA LeaveTyped ==
    ASSUME TypeOK, NEW w \in Workers, Leave(w)
    PROVE  /\ pc' \in [Workers -> Places] /\ pc'[w] = "idle"
           /\ request' \in [Workers -> Requests \cup {NoRequest}]
           /\ attempt' \in [Workers -> Nat]
           /\ started' \in [Workers -> Output]
           /\ \A x \in Workers \ {w} :
                pc'[x] = pc[x] /\ request'[x] = request[x] /\ started'[x] = started[x]
  BY DEF Leave, Goto, TypeOK, Places, Output

(* A worker that moves on keeps its request and changes its place only. *)
LEMMA GotoTyped ==
    ASSUME TypeOK, NEW w \in Workers, NEW place \in Places, Goto(w, place)
    PROVE  /\ pc' \in [Workers -> Places] /\ pc'[w] = place
           /\ \A x \in Workers \ {w} : pc'[x] = pc[x]
  BY DEF Goto, TypeOK

(* The initial state has the declared types and satisfies the invariant. *)
LEMMA InitType == Init => TypeOK
  BY DEF Init, TypeOK, Output, StatusRecord, NoStatus, BrokerStates, Places,
         NotReading, Callers

(* Before the first request nothing is stored, announced or served. *)
LEMMA InitInv == Init => InferenceInv
  BY DEF Init, InferenceInv, CompletionIsDurable, AckedIsPublished,
         TermedIsRecorded, WorkerInv, RecordInv, ProjectorInv, NoStatus

-----------------------------------------------------------------------------
(* Nothing that was stored, recorded or announced is ever taken back. *)
Grows ==
    /\ \A j \in Jobs :
        /\ prediction[j] # NoOutput => prediction'[j] # NoOutput
        /\ status[j] # NoStatus => status'[j] # NoStatus
        /\ completion[j] # NoOutput => completion'[j] # NoOutput
    /\ deadLetters \subseteq deadLetters'

(* A step of worker w leaves the tasks of all other workers alone. *)
Others(w) ==
    \A x \in Workers \ {w} :
        pc'[x] = pc[x] /\ request'[x] = request[x] /\ started'[x] = started[x]

(* A request becomes acked or terminated by a worker at that place only. *)
Answers(w) ==
    \A m \in Requests :
        /\ broker'[m] = "acked" =>
              broker[m] = "acked" \/ (pc[w] = "ack" /\ m = request[w])
        /\ broker'[m] = "termed" =>
              broker[m] = "termed" \/ (pc[w] = "term" /\ m = request[w])

(* A worker that is left alone keeps its invariant in a store that grows. *)
LEMMA WorkerKept ==
    ASSUME TypeOK, Grows, NEW x \in Workers, WorkerInv(x),
           pc'[x] = pc[x], request'[x] = request[x], started'[x] = started[x]
    PROVE  WorkerInv(x)'
  <1>1. CASE pc[x] = "idle"
    BY <1>1 DEF WorkerInv
  <1>2. CASE pc[x] # "idle"
    <2>1. request[x] \in Requests /\ Job(x) \in Jobs /\ Job(x)' = Job(x)
      BY <1>2, RequestTyped DEF Job
    <2>. QED
      BY <1>2, <2>1 DEF WorkerInv, Grows
  <1>. QED
    BY <1>1, <1>2

(* What is left to show of a step of worker w: its own place, the status     *)
(* records, and that a new completion event is covered.                      *)
LEMMA WorkerMoves ==
    ASSUME TypeOK, InferenceInv, NEW w \in Workers,
           Grows, Others(w), Answers(w), WorkerInv(w)', RecordInv',
           \A j \in Jobs : completion'[j] # NoOutput =>
              completion[j] # NoOutput \/ (prediction'[j] # NoOutput
                                           /\ status'[j] # NoStatus),
           UNCHANGED projector
    PROVE  InferenceInv'
  <1>1. CompletionIsDurable'
    BY DEF InferenceInv, CompletionIsDurable, Grows
  <1>2. AckedIsPublished'
    <2>. SUFFICES ASSUME NEW m \in Requests, broker'[m] = "acked"
                  PROVE  completion'[JobOf[m]] # NoOutput
      BY DEF AckedIsPublished
    <2>1. JobOf[m] \in Jobs
      BY InferenceConstants
    <2>2. CASE broker[m] = "acked"
      BY <2>1, <2>2 DEF InferenceInv, AckedIsPublished, Grows
    <2>3. CASE pc[w] = "ack" /\ m = request[w]
      <3>1. completion[JobOf[m]] # NoOutput
        BY <2>3 DEF InferenceInv, WorkerInv, Job
      <3>. QED
        BY <2>1, <3>1 DEF Grows
    <2>. QED
      BY <2>2, <2>3 DEF Answers
  <1>3. TermedIsRecorded'
    <2>. SUFFICES ASSUME NEW m \in Requests \ Malformed, broker'[m] = "termed"
                  PROVE  JobOf[m] \in deadLetters' /\ status'[JobOf[m]] # NoStatus
      BY DEF TermedIsRecorded
    <2>1. JobOf[m] \in Jobs
      BY InferenceConstants
    <2>2. CASE broker[m] = "termed"
      BY <2>1, <2>2 DEF InferenceInv, TermedIsRecorded, Grows
    <2>3. CASE pc[w] = "term" /\ m = request[w]
      <3>1. JobOf[m] \in deadLetters /\ status[JobOf[m]] # NoStatus
        BY <2>3 DEF InferenceInv, WorkerInv, Job
      <3>. QED
        BY <2>1, <3>1 DEF Grows
    <2>. QED
      BY <2>2, <2>3 DEF Answers
  <1>4. \A x \in Workers : WorkerInv(x)'
    <2>. SUFFICES ASSUME NEW x \in Workers, x # w PROVE WorkerInv(x)'
      OBVIOUS
    <2>. QED
      BY WorkerKept DEF InferenceInv, Others
  <1>5. ProjectorInv'
    BY DEF InferenceInv, ProjectorInv, projector, Grows, TypeOK
  <1>. QED
    BY <1>1, <1>2, <1>3, <1>4, <1>5 DEF InferenceInv

(* Steps that leave the store alone let it grow, and keep its records. *)
LEMMA StoreSame ==
    ASSUME UNCHANGED <<prediction, status, deadLetters>>,
           \A j \in Jobs : completion[j] # NoOutput => completion'[j] # NoOutput,
           InferenceInv
    PROVE  Grows /\ RecordInv'
  BY DEF Grows, RecordInv, InferenceInv

-----------------------------------------------------------------------------
(* The steps of a worker *)

(* Pulling a request: only the broker and the free slot change. *)
LEMMA FetchSound ==
    ASSUME TypeOK, InferenceInv, NEW w \in Workers, Fetch(w)
    PROVE  TypeOK' /\ InferenceInv'
  <1>1. PICK m \in Requests :
          /\ broker[m] = "pending"
          /\ broker' = [broker EXCEPT ![m] = "inflight"]
          /\ delivered' = [delivered EXCEPT ![m] = @ + 1]
          /\ request' = [request EXCEPT ![w] = m]
          /\ attempt' = [attempt EXCEPT ![w] = delivered[m] + 1]
          /\ Goto(w, IF m \in Malformed THEN "term" ELSE "manifest")
    BY DEF Fetch
  <1>2. UNCHANGED <<objects, completion, started, projector, bounds>>
    BY DEF Fetch
  <1>3. /\ pc' \in [Workers -> Places]
        /\ pc'[w] = IF m \in Malformed THEN "term" ELSE "manifest"
        /\ \A x \in Workers \ {w} : pc'[x] = pc[x]
    BY <1>1, GotoTyped DEF Places
  <1>4. TypeOK'
    <2>1. /\ broker' \in [Requests -> BrokerStates]
          /\ delivered' \in [Requests -> Nat]
          /\ attempt' \in [Workers -> Nat]
      BY <1>1 DEF TypeOK, BrokerStates
    <2>2. request' \in [Workers -> Requests \cup {NoRequest}]
      BY <1>1 DEF TypeOK
    <2>. QED
      BY <1>2, <1>3, <2>1, <2>2 DEF TypeOK, objects, projector, bounds
  <1>5. Grows /\ RecordInv' /\ Others(w) /\ Answers(w)
    BY <1>1, <1>2, <1>3, StoreSame DEF objects, Others, Answers, TypeOK
  <1>6. WorkerInv(w)'
    BY <1>1, <1>3 DEF WorkerInv, TypeOK
  <1>. QED
    BY <1>2, <1>4, <1>5, <1>6, WorkerMoves

(* Reading the job manifest, and leaving without an answer when it fails. *)
LEMMA ReadManifestSound ==
    ASSUME TypeOK, InferenceInv, NEW w \in Workers, ReadManifest(w)
    PROVE  TypeOK' /\ InferenceInv'
  <1>1. pc[w] = "manifest" /\ UNCHANGED <<objects, nats, projector, crashes>>
    BY DEF ReadManifest
  <1>2. Fault \/ NoFault
    BY DEF ReadManifest
  <1>3. Grows /\ RecordInv' /\ Answers(w)
    BY <1>1, StoreSame DEF objects, nats, Answers
  <1>4. CASE Goto(w, "status") /\ UNCHANGED <<request, attempt, started>>
    <2>1. /\ pc' \in [Workers -> Places] /\ pc'[w] = "status"
          /\ \A x \in Workers \ {w} : pc'[x] = pc[x]
      BY <1>4, GotoTyped DEF Places
    <2>2. TypeOK'
      BY <1>1, <1>2, <1>4, <2>1, FaultTyped DEF TypeOK, objects, nats, projector
    <2>3. WorkerInv(w)'
      BY <1>1, <1>4, <2>1 DEF InferenceInv, WorkerInv
    <2>. QED
      BY <1>1, <1>3, <1>4, <2>1, <2>2, <2>3, WorkerMoves DEF Others, nats
  <1>5. CASE Leave(w)
    <2>1. TypeOK'
      BY <1>1, <1>2, <1>5, LeaveTyped, FaultTyped
      DEF TypeOK, objects, nats, projector
    <2>2. WorkerInv(w)' /\ Others(w)
      BY <1>5, LeaveTyped DEF WorkerInv, Others
    <2>. QED
      BY <1>1, <1>3, <2>1, <2>2, WorkerMoves DEF nats
  <1>. QED
    BY <1>4, <1>5 DEF ReadManifest

(* Reading the status record, which backs the shortcut of a completed job. *)
LEMMA ReadStatusSound ==
    ASSUME TypeOK, InferenceInv, NEW w \in Workers, ReadStatus(w)
    PROVE  TypeOK' /\ InferenceInv'
  <1>. DEFINE j == Job(w)
  <1>1. /\ pc[w] = "status"
        /\ UNCHANGED <<objects, nats, request, attempt, projector, crashes>>
        /\ (Fault \/ NoFault)
    BY DEF ReadStatus
  <1>2. request[w] \in Requests /\ j \in Jobs /\ j' = j
    BY <1>1, RequestTyped DEF InferenceInv, Job
  <1>3. Grows /\ RecordInv' /\ Answers(w)
    BY <1>1, StoreSame DEF objects, nats, Answers
  <1>4. PICK s \in Output, place \in {"publish", "execute"} :
          /\ s # NoOutput
          /\ started' = [started EXCEPT ![w] = s]
          /\ Goto(w, place)
          /\ place = "publish" => status[j].state = "completed"
    <2>1. CASE /\ status[j].state # "none"
               /\ started' = [started EXCEPT ![w] = status[j].started]
               /\ Goto(w, IF status[j].state = "completed" THEN "publish" ELSE "execute")
      <3>1. status[j].started \in Output /\ status[j].started # NoOutput
        BY <1>2, <2>1 DEF TypeOK, StatusRecord, InferenceInv, RecordInv
      <3>. QED
        BY <2>1, <3>1
    <2>2. CASE /\ started' = [started EXCEPT ![w] = <<request[w], attempt[w]>>]
               /\ Goto(w, "execute")
      <3>1. /\ <<request[w], attempt[w]>> \in Output
            /\ <<request[w], attempt[w]>> # NoOutput
        BY <1>2, StartTime DEF TypeOK
      <3>. QED
        BY <2>2, <3>1
    <2>. QED
      BY <2>1, <2>2 DEF ReadStatus
  <1>5. /\ pc' \in [Workers -> Places] /\ pc'[w] = place
        /\ \A x \in Workers \ {w} : pc'[x] = pc[x]
    BY <1>4, GotoTyped DEF Places
  <1>6. started' \in [Workers -> Output] /\ started'[w] = s
        /\ \A x \in Workers \ {w} : started'[x] = started[x]
    BY <1>4 DEF TypeOK
  <1>7. TypeOK'
    BY <1>1, <1>5, <1>6, FaultTyped DEF TypeOK, objects, nats, projector
  <1>8. WorkerInv(w)'
    <2>1. place = "publish" => prediction[j] # NoOutput /\ status[j] # NoStatus
      BY <1>2, <1>4 DEF InferenceInv, RecordInv, NoStatus
    <2>. QED
      BY <1>1, <1>2, <1>4, <1>5, <1>6, <2>1 DEF WorkerInv, objects
  <1>. QED
    BY <1>1, <1>3, <1>5, <1>6, <1>7, <1>8, WorkerMoves DEF Others, nats

(* Executing the job: predictions are put, and never removed. *)
LEMMA ExecuteSound ==
    ASSUME TypeOK, InferenceInv, NEW w \in Workers, Execute(w)
    PROVE  TypeOK' /\ InferenceInv'
  <1>. DEFINE j == Job(w)
              put == [prediction EXCEPT ![j] = started[w]]
  <1>1. /\ pc[w] = "execute" /\ (Fault \/ NoFault)
        /\ UNCHANGED <<status, deadLetters, nats, request, attempt, started,
                       projector, crashes>>
    BY DEF Execute
  <1>2. /\ request[w] \in Requests /\ j \in Jobs /\ j' = j
        /\ started[w] \in Output /\ started[w] # NoOutput
    BY <1>1, RequestTyped DEF InferenceInv, WorkerInv, Job, TypeOK, Places
  <1>3. prediction' = prediction \/ prediction' = put
    BY DEF Execute, MaybeWritten
  <1>4. /\ prediction' \in [Jobs -> Output]
        /\ \A k \in Jobs : prediction[k] # NoOutput => prediction'[k] # NoOutput
    BY <1>2, <1>3 DEF TypeOK
  <1>5. PICK place \in {"complete", "nak", "fail"} :
          /\ Goto(w, place)
          /\ place = "complete" => prediction' = put
    BY DEF Execute, ExecutionFails
  <1>6. /\ pc' \in [Workers -> Places] /\ pc'[w] = place
        /\ \A x \in Workers \ {w} : pc'[x] = pc[x]
    BY <1>5, GotoTyped DEF Places
  <1>7. TypeOK'
    BY <1>1, <1>4, <1>6, FaultTyped DEF TypeOK, nats, projector
  <1>8. Grows /\ RecordInv' /\ Others(w) /\ Answers(w)
    BY <1>1, <1>4, <1>6
    DEF Grows, RecordInv, Others, Answers, nats, InferenceInv
  <1>9. WorkerInv(w)'
    <2>1. place = "complete" => prediction'[j] # NoOutput
      BY <1>2, <1>5 DEF TypeOK
    <2>. QED
      BY <1>1, <1>2, <1>6, <2>1 DEF WorkerInv
  <1>. QED
    BY <1>1, <1>7, <1>8, <1>9, WorkerMoves DEF nats

(* What persist_status leaves behind, for both kinds of terminal record. *)
LEMMA PersistSound ==
    ASSUME TypeOK, InferenceInv, NEW w \in Workers,
           NEW state \in {"completed", "failed"},
           NEW next \in {"publish", "deadLetter"},
           pc[w] \in {"complete", "fail"},
           state = "completed" => pc[w] = "complete",
           PersistStatus(w, state, next),
           UNCHANGED <<prediction, deadLetters, nats, projector, crashes>>
    PROVE  /\ TypeOK' /\ Grows /\ RecordInv' /\ Others(w) /\ Answers(w)
           /\ \/ pc'[w] = "idle"
              \/ /\ pc'[w] = next /\ request'[w] = request[w]
                 /\ started'[w] = started[w] /\ status'[Job(w)] # NoStatus
  <1>. DEFINE j == Job(w)
              record == [state |-> state, started |-> started[w]]
              saved == [status EXCEPT ![j] = record]
  <1>1. /\ request[w] \in Requests /\ j \in Jobs
        /\ started[w] \in Output /\ started[w] # NoOutput
        /\ state = "completed" => prediction[j] # NoOutput
    BY RequestTyped DEF InferenceInv, WorkerInv, TypeOK, Places
  <1>2. record \in StatusRecord /\ record # NoStatus
    BY <1>1 DEF StatusRecord, NoStatus
  <1>3. status' = status \/ status' = saved
    BY DEF PersistStatus, MaybeWritten
  <1>4. /\ status' \in [Jobs -> StatusRecord]
        /\ \A k \in Jobs : status[k] # NoStatus => status'[k] # NoStatus
    BY <1>1, <1>2, <1>3 DEF TypeOK
  <1>5. RecordInv'
    <2>. SUFFICES ASSUME NEW k \in Jobs
                  PROVE  /\ status'[k].state # "none" => status'[k].started # NoOutput
                         /\ status'[k].state = "completed" => prediction[k] # NoOutput
      BY DEF RecordInv
    <2>1. CASE status'[k] = status[k]
      BY <2>1 DEF InferenceInv, RecordInv
    <2>2. CASE k = j /\ status'[k] = record
      BY <1>1, <2>2
    <2>. QED
      BY <1>1, <1>3, <2>1, <2>2 DEF TypeOK
  <1>6. Grows /\ Answers(w) /\ (Fault \/ NoFault)
    BY <1>4 DEF Grows, Answers, nats, PersistStatus
  <1>7. CASE /\ status' = saved /\ Goto(w, next)
             /\ UNCHANGED <<request, attempt, started>>
    <2>1. /\ pc' \in [Workers -> Places] /\ pc'[w] = next
          /\ \A x \in Workers \ {w} : pc'[x] = pc[x]
      BY <1>7, GotoTyped DEF Places
    <2>2. TypeOK'
      BY <1>4, <1>6, <1>7, <2>1, FaultTyped DEF TypeOK, nats, projector
    <2>3. status'[j] # NoStatus
      BY <1>1, <1>2, <1>7 DEF TypeOK
    <2>. QED
      BY <1>5, <1>6, <1>7, <2>1, <2>2, <2>3 DEF Others
  <1>8. CASE Leave(w)
    <2>1. TypeOK'
      BY <1>4, <1>6, <1>8, LeaveTyped, FaultTyped DEF TypeOK, nats, projector
    <2>. QED
      BY <1>5, <1>6, <1>8, <2>1, LeaveTyped DEF Others
  <1>. QED
    BY <1>7, <1>8 DEF PersistStatus

(* Persisting the completed status after the predictions. *)
LEMMA CompleteSound ==
    ASSUME TypeOK, InferenceInv, NEW w \in Workers, Complete(w)
    PROVE  TypeOK' /\ InferenceInv'
  <1>1. /\ pc[w] = "complete" /\ PersistStatus(w, "completed", "publish")
        /\ UNCHANGED <<prediction, deadLetters, nats, projector, crashes>>
    BY DEF Complete
  <1>2. /\ TypeOK' /\ Grows /\ RecordInv' /\ Others(w) /\ Answers(w)
        /\ \/ pc'[w] = "idle"
           \/ /\ pc'[w] = "publish" /\ request'[w] = request[w]
              /\ started'[w] = started[w] /\ status'[Job(w)] # NoStatus
    BY <1>1, PersistSound
  <1>3. /\ request[w] \in Requests /\ prediction[Job(w)] # NoOutput
        /\ started[w] # NoOutput
    BY <1>1 DEF InferenceInv, WorkerInv, Places
  <1>4. WorkerInv(w)'
    BY <1>1, <1>2, <1>3 DEF WorkerInv, Job
  <1>. QED
    BY <1>1, <1>2, <1>4, WorkerMoves DEF nats

(* Persisting the failed status before the dead letter. *)
LEMMA FailSound ==
    ASSUME TypeOK, InferenceInv, NEW w \in Workers, Fail(w)
    PROVE  TypeOK' /\ InferenceInv'
  <1>1. /\ pc[w] = "fail" /\ PersistStatus(w, "failed", "deadLetter")
        /\ UNCHANGED <<prediction, deadLetters, nats, projector, crashes>>
    BY DEF Fail
  <1>2. /\ TypeOK' /\ Grows /\ RecordInv' /\ Others(w) /\ Answers(w)
        /\ \/ pc'[w] = "idle"
           \/ /\ pc'[w] = "deadLetter" /\ request'[w] = request[w]
              /\ started'[w] = started[w] /\ status'[Job(w)] # NoStatus
    BY <1>1, PersistSound
  <1>3. request[w] \in Requests /\ started[w] # NoOutput
    BY <1>1 DEF InferenceInv, WorkerInv, Places
  <1>4. WorkerInv(w)'
    BY <1>1, <1>2, <1>3 DEF WorkerInv, Job
  <1>. QED
    BY <1>1, <1>2, <1>4, WorkerMoves DEF nats

(* Publishing the completion event of a job whose status is stored. *)
LEMMA PublishSound ==
    ASSUME TypeOK, InferenceInv, NEW w \in Workers, PublishCompletion(w)
    PROVE  TypeOK' /\ InferenceInv'
  <1>. DEFINE j == Job(w)
              published == IF completion[j] = NoOutput
                           THEN [completion EXCEPT ![j] = started[w]]
                           ELSE completion
  <1>1. /\ pc[w] = "publish" /\ (Fault \/ NoFault)
        /\ UNCHANGED <<objects, broker, delivered, projector, crashes>>
        /\ completion' = completion \/ completion' = published
    BY DEF PublishCompletion, MaybeWritten
  <1>2. /\ request[w] \in Requests /\ j \in Jobs
        /\ started[w] \in Output /\ started[w] # NoOutput
        /\ prediction[j] # NoOutput /\ status[j] # NoStatus
    BY <1>1, RequestTyped DEF InferenceInv, WorkerInv, TypeOK, Places
  <1>3. /\ completion' \in [Jobs -> Output]
        /\ \A k \in Jobs : completion[k] # NoOutput => completion'[k] # NoOutput
        /\ \A k \in Jobs : completion'[k] # NoOutput =>
              completion[k] # NoOutput \/ k = j
    BY <1>1, <1>2 DEF TypeOK
  <1>4. Grows /\ RecordInv' /\ Answers(w)
    BY <1>1, <1>3, StoreSame DEF objects, Answers
  <1>5. \A k \in Jobs : completion'[k] # NoOutput =>
          completion[k] # NoOutput \/ (prediction'[k] # NoOutput
                                       /\ status'[k] # NoStatus)
    BY <1>1, <1>2, <1>3 DEF objects
  <1>6. CASE /\ completion' = published /\ Goto(w, "ack")
             /\ UNCHANGED <<request, attempt, started>>
    <2>1. /\ pc' \in [Workers -> Places] /\ pc'[w] = "ack"
          /\ \A x \in Workers \ {w} : pc'[x] = pc[x]
      BY <1>6, GotoTyped DEF Places
    <2>2. TypeOK'
      BY <1>1, <1>3, <1>6, <2>1, FaultTyped DEF TypeOK, objects, projector
    <2>3. completion'[j] # NoOutput
      BY <1>2, <1>6 DEF TypeOK
    <2>4. WorkerInv(w)' /\ Others(w)
      BY <1>1, <1>2, <1>6, <2>1, <2>3 DEF WorkerInv, Others, Job, objects
    <2>. QED
      BY <1>1, <1>4, <1>5, <2>2, <2>4, WorkerMoves
  <1>7. CASE Leave(w)
    <2>1. TypeOK'
      BY <1>1, <1>3, <1>7, LeaveTyped, FaultTyped DEF TypeOK, objects, projector
    <2>2. WorkerInv(w)' /\ Others(w)
      BY <1>7, LeaveTyped DEF WorkerInv, Others
    <2>. QED
      BY <1>1, <1>4, <1>5, <2>1, <2>2, WorkerMoves
  <1>. QED
    BY <1>6, <1>7 DEF PublishCompletion

(* Writing the dead letter before the request is terminated. *)
LEMMA WriteDeadLetterSound ==
    ASSUME TypeOK, InferenceInv, NEW w \in Workers, WriteDeadLetter(w)
    PROVE  TypeOK' /\ InferenceInv'
  <1>. DEFINE j == Job(w)
  <1>1. /\ pc[w] = "deadLetter" /\ (Fault \/ NoFault)
        /\ UNCHANGED <<prediction, status, nats, projector, crashes>>
        /\ deadLetters' \in {deadLetters, deadLetters \cup {j}}
    BY DEF WriteDeadLetter, MaybeWritten
  <1>2. request[w] \in Requests /\ j \in Jobs /\ status[j] # NoStatus
    BY <1>1, RequestTyped DEF InferenceInv, WorkerInv
  <1>3. Grows /\ RecordInv' /\ Answers(w) /\ deadLetters' \in SUBSET Jobs
    BY <1>1, <1>2 DEF Grows, RecordInv, Answers, nats, InferenceInv, TypeOK
  <1>4. CASE /\ deadLetters' = deadLetters \cup {j} /\ Goto(w, "term")
             /\ UNCHANGED <<request, attempt, started>>
    <2>1. /\ pc' \in [Workers -> Places] /\ pc'[w] = "term"
          /\ \A x \in Workers \ {w} : pc'[x] = pc[x]
      BY <1>4, GotoTyped DEF Places
    <2>2. TypeOK'
      BY <1>1, <1>3, <1>4, <2>1, FaultTyped DEF TypeOK, nats, projector
    <2>3. WorkerInv(w)' /\ Others(w)
      BY <1>1, <1>2, <1>4, <2>1 DEF WorkerInv, Others, Job
    <2>. QED
      BY <1>1, <1>3, <2>2, <2>3, WorkerMoves DEF nats
  <1>5. CASE Leave(w)
    <2>1. TypeOK'
      BY <1>1, <1>3, <1>5, LeaveTyped, FaultTyped DEF TypeOK, nats, projector
    <2>2. WorkerInv(w)' /\ Others(w)
      BY <1>5, LeaveTyped DEF WorkerInv, Others
    <2>. QED
      BY <1>1, <1>3, <2>1, <2>2, WorkerMoves DEF nats
  <1>. QED
    BY <1>4, <1>5 DEF WriteDeadLetter

(* The three answers to the broker. *)
LEMMA AnswerSound ==
    ASSUME TypeOK, InferenceInv, NEW w \in Workers, Ack(w) \/ Term(w) \/ Nak(w)
    PROVE  TypeOK' /\ InferenceInv'
  <1>1. /\ pc[w] \in {"ack", "term", "nak"} /\ Leave(w) /\ (Fault \/ NoFault)
        /\ UNCHANGED <<objects, delivered, completion, projector, crashes>>
    BY DEF Ack, Term, Nak, Answer
  <1>2. request[w] \in Requests
    BY <1>1, RequestTyped DEF InferenceInv
  <1>3. broker' \in [Requests -> BrokerStates] /\ Answers(w)
    <2>1. CASE Ack(w)
      BY <1>2, <2>1 DEF Ack, Answer, Answers, TypeOK, BrokerStates
    <2>2. CASE Term(w)
      BY <1>2, <2>2 DEF Term, Answer, Answers, TypeOK, BrokerStates
    <2>3. CASE Nak(w)
      BY <1>2, <2>3 DEF Nak, Requeued, Answers, TypeOK, BrokerStates
    <2>. QED
      BY <2>1, <2>2, <2>3
  <1>4. TypeOK'
    BY <1>1, <1>3, LeaveTyped, FaultTyped DEF TypeOK, objects, projector
  <1>5. Grows /\ RecordInv'
    BY <1>1, StoreSame DEF objects
  <1>6. WorkerInv(w)' /\ Others(w)
    BY <1>1, LeaveTyped DEF WorkerInv, Others
  <1>. QED
    BY <1>1, <1>3, <1>4, <1>5, <1>6, WorkerMoves

(* Every step of process_message keeps the invariant. *)
LEMMA WorkerSound ==
    ASSUME TypeOK, InferenceInv, NEW w \in Workers, WorkerStep(w)
    PROVE  TypeOK' /\ InferenceInv'
  BY FetchSound, ReadManifestSound, ReadStatusSound, ExecuteSound, CompleteSound,
     PublishSound, FailSound, WriteDeadLetterSound, AnswerSound
  DEF WorkerStep, Perform, Conclude, GiveUp

-----------------------------------------------------------------------------
(* The broker and the disruptions *)

(* A new request and an ended lease neither ack nor terminate anything. *)
LEMMA BrokerSound ==
    ASSUME TypeOK, InferenceInv, NEW m \in Requests,
           RequestJob(m) \/ AckWaitExpires(m)
    PROVE  TypeOK' /\ InferenceInv'
  <1>1. /\ UNCHANGED <<objects, delivered, completion, workers, projector, crashes>>
        /\ faults' \in Nat
        /\ broker' \in [Requests -> BrokerStates]
        /\ \A n \in Requests : broker'[n] \in {"acked", "termed"} =>
                                 broker'[n] = broker[n]
    BY FaultTyped
    DEF RequestJob, AckWaitExpires, bounds, Requeued, TypeOK, BrokerStates
  <1>2. TypeOK'
    BY <1>1 DEF TypeOK, objects, workers, projector
  <1>3. AckedIsPublished' /\ TermedIsRecorded'
    BY <1>1
    DEF InferenceInv, AckedIsPublished, TermedIsRecorded, objects
  <1>4. /\ CompletionIsDurable' /\ RecordInv' /\ ProjectorInv'
        /\ \A w \in Workers : WorkerInv(w)'
    BY <1>1
    DEF InferenceInv, CompletionIsDurable, RecordInv, ProjectorInv, WorkerInv,
        Job, objects, workers, projector
  <1>. QED
    BY <1>2, <1>3, <1>4 DEF InferenceInv

(* A crash of the pool loses the tasks and nothing that was stored. *)
LEMMA CrashSound ==
    ASSUME TypeOK, InferenceInv, Crash
    PROVE  TypeOK' /\ InferenceInv'
  <1>1. TypeOK'
    BY DEF Crash, TypeOK, objects, nats, projector, Places, Output
  <1>2. \A w \in Workers : WorkerInv(w)'
    BY DEF Crash, WorkerInv
  <1>3. /\ CompletionIsDurable' /\ AckedIsPublished' /\ TermedIsRecorded'
        /\ RecordInv' /\ ProjectorInv'
    BY DEF Crash, InferenceInv, CompletionIsDurable, AckedIsPublished,
           TermedIsRecorded, RecordInv, ProjectorInv, objects, nats, projector
  <1>. QED
    BY <1>1, <1>2, <1>3 DEF InferenceInv

-----------------------------------------------------------------------------
(* The projector *)

(* A step of the projector leaves the inference workers and the broker alone. *)
LEMMA ProjectorMoves ==
    ASSUME TypeOK, InferenceInv, UNCHANGED <<objects, nats, workers>>,
           scan' \in SUBSET Jobs, served' \in [Jobs -> Output],
           reading' \in [job : Jobs \cup {NoJob}, output : Output, for : Callers],
           projected' \in SUBSET Jobs, crashes' \in Nat, faults' \in Nat,
           ProjectorInv'
    PROVE  TypeOK' /\ InferenceInv'
  <1>1. TypeOK'
    BY DEF TypeOK, objects, nats, workers
  <1>2. /\ CompletionIsDurable' /\ AckedIsPublished' /\ TermedIsRecorded'
        /\ RecordInv' /\ \A w \in Workers : WorkerInv(w)'
    BY DEF InferenceInv, CompletionIsDurable, AckedIsPublished,
           TermedIsRecorded, RecordInv, WorkerInv, Job, objects, nats, workers
  <1>. QED
    BY <1>1, <1>2 DEF InferenceInv

(* A restart of the API lists stored objects only. *)
LEMMA RestartApiSound ==
    ASSUME TypeOK, InferenceInv, RestartApi
    PROVE  TypeOK' /\ InferenceInv'
  <1>1. /\ UNCHANGED <<objects, nats, workers, served, projected>>
        /\ scan' \in SUBSET Jobs /\ crashes' \in Nat /\ faults' \in Nat
        /\ reading' = NotReading
        /\ \A j \in scan' : prediction[j] # NoOutput
    BY FaultTyped DEF RestartApi, TypeOK
  <1>2. ProjectorInv'
    BY <1>1 DEF InferenceInv, ProjectorInv, objects
  <1>3. reading' \in [job : Jobs \cup {NoJob}, output : Output, for : Callers]
    BY <1>1 DEF NotReading, Output, Callers
  <1>. QED
    BY <1>1, <1>2, <1>3, ProjectorMoves DEF TypeOK

(* Reconciling an object that was listed. *)
LEMMA ReconcileSound ==
    ASSUME TypeOK, InferenceInv, ReconcileObject
    PROVE  TypeOK' /\ InferenceInv'
  <1>1. PICK j \in scan :
          /\ scan' = scan \ {j}
          /\ \/ reading' = [job |-> j, output |-> prediction[j], for |-> "reconcile"]
             \/ UNCHANGED reading
    BY DEF ReconcileObject
  <1>2. /\ UNCHANGED <<objects, nats, workers, served, projected, crashes>>
        /\ faults' \in Nat /\ reading = NotReading
    BY FaultTyped DEF ReconcileObject
  <1>3. j \in Jobs /\ prediction[j] \in Output /\ prediction[j] # NoOutput
    BY DEF InferenceInv, ProjectorInv, TypeOK
  <1>4. reading' \in [job : Jobs \cup {NoJob}, output : Output, for : Callers]
    BY <1>1, <1>3 DEF TypeOK, Callers
  <1>5. ProjectorInv'
    BY <1>1, <1>2, <1>3 DEF InferenceInv, ProjectorInv, objects
  <1>. QED
    BY <1>1, <1>2, <1>4, <1>5, ProjectorMoves DEF TypeOK

(* Reading the object that a completion event names. *)
LEMMA ReadOutputSound ==
    ASSUME TypeOK, InferenceInv, ReadOutput
    PROVE  TypeOK' /\ InferenceInv'
  <1>1. PICK j \in Jobs \ projected :
          /\ completion[j] # NoOutput /\ prediction[j] = completion[j]
          /\ reading' = [job |-> j, output |-> prediction[j], for |-> "event"]
    BY DEF ReadOutput
  <1>2. UNCHANGED <<objects, nats, workers, scan, served, projected, bounds>>
    BY DEF ReadOutput
  <1>3. reading' \in [job : Jobs \cup {NoJob}, output : Output, for : Callers]
    BY <1>1 DEF TypeOK, Callers
  <1>4. ProjectorInv'
    BY <1>1, <1>2 DEF InferenceInv, ProjectorInv, objects
  <1>. QED
    BY <1>2, <1>3, <1>4, ProjectorMoves DEF TypeOK, bounds

(* Inserting the rows before the event is acked. *)
LEMMA InsertRowsSound ==
    ASSUME TypeOK, InferenceInv, InsertRows
    PROVE  TypeOK' /\ InferenceInv'
  <1>. DEFINE j == reading.job
              inserted == Inserted(j, reading.output)
  <1>1. /\ UNCHANGED <<objects, nats, workers, scan, crashes>>
        /\ faults' \in Nat /\ reading # NotReading /\ reading' = NotReading
        /\ \/ served' = inserted /\ projected' \in {projected, projected \cup {j}}
           \/ served' \in {served, inserted} /\ UNCHANGED projected
    BY FaultTyped DEF InsertRows, MaybeWritten
  <1>2. j \in Jobs /\ reading.output \in Output /\ reading.output # NoOutput
    BY <1>1 DEF InferenceInv, ProjectorInv, TypeOK
  <1>3. /\ inserted \in [Jobs -> Output] /\ inserted[j] # NoOutput
        /\ \A k \in Jobs : served[k] # NoOutput => inserted[k] # NoOutput
    BY <1>2 DEF Inserted, TypeOK
  <1>4. served' \in [Jobs -> Output] /\ projected' \in SUBSET Jobs
    BY <1>1, <1>2, <1>3 DEF TypeOK
  <1>5. reading' \in [job : Jobs \cup {NoJob}, output : Output, for : Callers]
    BY <1>1 DEF NotReading, Output, Callers
  <1>6. ProjectorInv'
    <2>1. \A k \in projected' : served'[k] # NoOutput
      BY <1>1, <1>2, <1>3 DEF InferenceInv, ProjectorInv, TypeOK
    <2>. QED
      BY <1>1, <2>1 DEF InferenceInv, ProjectorInv, objects
  <1>. QED
    BY <1>1, <1>4, <1>5, <1>6, ProjectorMoves DEF TypeOK

-----------------------------------------------------------------------------
(* Every step of the stage keeps the types and the invariant. *)
LEMMA NextInv == TypeOK /\ InferenceInv /\ [Next]_vars => TypeOK' /\ InferenceInv'
  <1>. SUFFICES ASSUME TypeOK, InferenceInv, [Next]_vars
                PROVE  TypeOK' /\ InferenceInv'
    OBVIOUS
  <1>1. CASE Next
    BY <1>1, WorkerSound, BrokerSound, CrashSound, RestartApiSound,
       ReconcileSound, ReadOutputSound, InsertRowsSound
    DEF Next, ProjectorStep
  <1>2. CASE UNCHANGED vars
    BY <1>2
    DEF vars, objects, nats, workers, projector, bounds, TypeOK, InferenceInv,
        CompletionIsDurable, AckedIsPublished, TermedIsRecorded, WorkerInv, Job,
        RecordInv, ProjectorInv
  <1>. QED
    BY <1>1, <1>2

(* The invariant of the stage: what each place of process_message, each      *)
(* stored record and the projector rely on holds in every reachable state.   *)
THEOREM InferenceInvariant == Spec => [](TypeOK /\ InferenceInv)
  BY InitType, InitInv, NextInv, PTL DEF Spec

(* Every step of a worker, the broker and the projector keeps the types      *)
(* (process_message and runPredictionProjector).                             *)
THEOREM InferenceTypes == Spec => []TypeOK
  BY InferenceInvariant, PTL

(* No completion event exists without stored predictions and a stored status *)
(* (worker.rs: persist_status comes before publish_completion).              *)
THEOREM CompletionsAreDurable == Spec => []CompletionIsDurable
  <1>1. InferenceInv => CompletionIsDurable
    BY DEF InferenceInv
  <1>. QED
    BY <1>1, InferenceInvariant, PTL

(* An acked request belongs to an announced job (worker.rs: double_ack comes *)
(* after publish_completion on both paths).                                  *)
THEOREM AckedRequestsArePublished == Spec => []AckedIsPublished
  <1>1. InferenceInv => AckedIsPublished
    BY DEF InferenceInv
  <1>. QED
    BY <1>1, InferenceInvariant, PTL

(* A well-formed request that was terminated has its failure record and its  *)
(* dead letter (worker.rs: TERM comes last on the failure path).             *)
THEOREM TermedRequestsAreRecorded == Spec => []TermedIsRecorded
  <1>1. InferenceInv => TermedIsRecorded
    BY DEF InferenceInv
  <1>. QED
    BY <1>1, InferenceInvariant, PTL

==============================================================================
