------------------------------ MODULE Inference ------------------------------
(***************************************************************************)
(* The inference stage: the worker pool of rust-inference                  *)
(* (application/worker.rs, executor.rs, status.rs) that executes immutable *)
(* inference jobs, and go-api's prediction projector, which serves their   *)
(* outputs (service/prediction_projector.go, transport/stream).  An        *)
(* operator may request a job again at any time (RetryInferenceJob), so    *)
(* several requests of one job may be on their way at once.                *)
(*                                                                         *)
(* Every prediction row carries the time at which the execution started    *)
(* (predicted_at), so two executions of a job differ in content and in     *)
(* SHA-256.  An output is therefore named by the delivery <<request,       *)
(* attempt>> that took its start time.                                     *)
(***************************************************************************)
EXTENDS Integers, FiniteSets

CONSTANTS
    Workers, Jobs,
    Requests,       \* request events, of the planner and of operators
    NoRequest, NoJob, NoOutput,
    JobOf,          \* the job that a request names
    Malformed,      \* requests that break the event contract
    Conflicting,    \* requests whose job manifest is missing or disagrees
    Rejected,       \* jobs that fail with a typed, non-retryable error
    Mismatched,     \* jobs that fail each time with an untyped error
    MaxDeliveries,  \* MAX_DELIVERIES
    MaxCrashes,     \* bound: crashes of the worker or of the API
    MaxFaults       \* bound: failing calls and missed ack deadlines

ASSUME InferenceConstants ==
    /\ NoRequest \notin Requests /\ NoJob \notin Jobs
    /\ NoOutput \notin Requests \X Nat
    /\ IsFiniteSet(Workers) /\ IsFiniteSet(Requests)
    /\ JobOf \in [Requests -> Jobs]
    /\ Malformed \in SUBSET Requests /\ Conflicting \in SUBSET Requests
    /\ Rejected \in SUBSET Jobs /\ Mismatched \in SUBSET Jobs
    /\ MaxDeliveries \in Nat \ {0} /\ MaxCrashes \in Nat /\ MaxFaults \in Nat

VARIABLES
    prediction,     \* the prediction object of each job
    status,         \* its status record
    deadLetters,    \* jobs with a dead-letter record
    broker,         \* state of each request at the consumer
    delivered,      \* how often it was delivered
    completion,     \* output named by the job's completion event
    pc, request,    \* each worker: its place, the request it was given,
    attempt,        \* the delivery count of the message it holds,
    started,        \* and the start time it works with
    scan,           \* objects that the startup reconciliation has still to do
    reading,        \* the object that the projector holds, and on whose behalf
    served,         \* output whose rows are in ClickHouse
    projected,      \* jobs whose completion event the projector has acked
    crashes, faults

objects == <<prediction, status, deadLetters>>
nats == <<broker, delivered, completion>>
workers == <<pc, request, attempt, started>>
projector == <<scan, reading, served, projected>>
bounds == <<crashes, faults>>
vars == <<objects, nats, workers, projector, bounds>>

Output == (Requests \X Nat) \cup {NoOutput}
StatusRecord == [state : {"none", "completed", "failed"}, started : Output]
BrokerStates == {"unpublished", "pending", "inflight", "acked", "termed",
                 "exhausted"}
Places == {"idle", "manifest", "status", "execute", "complete", "publish",
           "ack", "fail", "deadLetter", "term", "nak"}

Callers == {"nobody", "reconcile", "event"}

TypeOK ==
    /\ prediction \in [Jobs -> Output]
    /\ status \in [Jobs -> StatusRecord]
    /\ deadLetters \in SUBSET Jobs
    /\ broker \in [Requests -> BrokerStates]
    /\ delivered \in [Requests -> Nat]
    /\ completion \in [Jobs -> Output]
    /\ pc \in [Workers -> Places]
    /\ request \in [Workers -> Requests \cup {NoRequest}]
    /\ attempt \in [Workers -> Nat]
    /\ started \in [Workers -> Output]
    /\ scan \in SUBSET Jobs
    /\ reading \in [job : Jobs \cup {NoJob}, output : Output, for : Callers]
    /\ served \in [Jobs -> Output]
    /\ projected \in SUBSET Jobs
    /\ crashes \in Nat /\ faults \in Nat

NoStatus == [state |-> "none", started |-> NoOutput]
NotReading == [job |-> NoJob, output |-> NoOutput, for |-> "nobody"]

Fault == faults < MaxFaults /\ faults' = faults + 1
NoFault == UNCHANGED faults

(* A write whose call fails may have been applied or not. *)
MaybeWritten(var, updated) == {var, updated}

-----------------------------------------------------------------------------
Init ==
    /\ prediction = [j \in Jobs |-> NoOutput]
    /\ status = [j \in Jobs |-> NoStatus]
    /\ deadLetters = {}
    /\ broker = [m \in Requests |-> "unpublished"]
    /\ delivered = [m \in Requests |-> 0]
    /\ completion = [j \in Jobs |-> NoOutput]
    /\ pc = [w \in Workers |-> "idle"]
    /\ request = [w \in Workers |-> NoRequest]
    /\ attempt = [w \in Workers |-> 0]
    /\ started = [w \in Workers |-> NoOutput]
    /\ scan = {} /\ reading = NotReading
    /\ served = [j \in Jobs |-> NoOutput]
    /\ projected = {}
    /\ crashes = 0 /\ faults = 0

(* RetryInferenceJob publishes a request with an id of its own, whatever the *)
(* state of the job; the first request of a job comes from its planner.      *)
RequestJob(m) ==
    /\ broker[m] = "unpublished"
    /\ broker' = [broker EXCEPT ![m] = "pending"]
    /\ UNCHANGED <<objects, delivered, completion, workers, projector, bounds>>

-----------------------------------------------------------------------------
(* The consumer: explicit acks, max_deliver, max_ack_pending = workers.      *)

Requeued(m) == IF delivered[m] < MaxDeliveries THEN "pending" ELSE "exhausted"

(* The lease of a request ends when no worker has it any more, or when the   *)
(* heartbeat of its worker does not get through.                             *)
AckWaitExpires(m) ==
    /\ broker[m] = "inflight"
    /\ IF \E w \in Workers : request[w] = m THEN Fault ELSE NoFault
    /\ broker' = [broker EXCEPT ![m] = Requeued(m)]
    /\ UNCHANGED <<objects, delivered, completion, workers, projector, crashes>>

-----------------------------------------------------------------------------
(* process_message *)

Job(w) == JobOf[request[w]]
Goto(w, place) == pc' = [pc EXCEPT ![w] = place]

(* Mistake: the heartbeat goes on when the task is over. *)
LeaveBeating(w) == /\ Goto(w, "idle")
                   /\ attempt' = [attempt EXCEPT ![w] = 0]
                   /\ started' = [started EXCEPT ![w] = NoOutput]
                   /\ UNCHANGED request

(* process_message returns and the permit of its slot is dropped.  Without   *)
(* an answer the broker waits until the lease is over.                       *)
Leave(w) == /\ Goto(w, "idle")
            /\ request' = [request EXCEPT ![w] = NoRequest]
            /\ attempt' = [attempt EXCEPT ![w] = 0]
            /\ started' = [started EXCEPT ![w] = NoOutput]

(* A slot is free before a request is pulled. *)
Fetch(w) ==
    /\ pc[w] = "idle"
    /\ Cardinality({m \in Requests : broker[m] = "inflight"}) < Cardinality(Workers)
    /\ \E m \in Requests :
        /\ broker[m] = "pending"
        /\ broker' = [broker EXCEPT ![m] = "inflight"]
        /\ delivered' = [delivered EXCEPT ![m] = @ + 1]
        /\ request' = [request EXCEPT ![w] = m]
        /\ attempt' = [attempt EXCEPT ![w] = delivered[m] + 1]
        /\ Goto(w, IF m \in Malformed THEN "term" ELSE "manifest")
    /\ UNCHANGED <<objects, completion, started, projector, bounds>>

(* get_verified and validate_event_against_job; an error ends the task       *)
(* without an ack, a NAK or a record of any kind.                            *)
ReadManifest(w) ==
    /\ pc[w] = "manifest"
    /\ \/ /\ NoFault /\ request[w] \notin Conflicting
          /\ Goto(w, "status") /\ UNCHANGED <<request, attempt, started>>
       \/ NoFault /\ request[w] \in Conflicting /\ Leave(w)
       \/ Fault /\ Leave(w)
    /\ UNCHANGED <<objects, nats, projector, crashes>>

(* The status record: a completed job is announced and acked again, a failed *)
(* one lends its start time, and a failing read counts as no record at all.  *)
ReadStatus(w) ==
    LET found == status[Job(w)] IN
    /\ pc[w] = "status"
    /\ \/ /\ NoFault
          /\ found.state # "none"
          /\ started' = [started EXCEPT ![w] = found.started]
          /\ Goto(w, IF found.state = "completed" THEN "publish" ELSE "execute")
       \/ /\ IF found.state = "none" THEN NoFault ELSE Fault
          /\ started' = [started EXCEPT ![w] = <<request[w], attempt[w]>>]
          /\ Goto(w, "execute")
    /\ UNCHANGED <<objects, nats, request, attempt, projector, crashes>>

(* A failed execution: the last delivery and a typed error are terminal. *)
ExecutionFails(w, retryable) ==
    Goto(w, IF retryable /\ attempt[w] < MaxDeliveries THEN "nak" ELSE "fail")

(* Mistake: the completion is published before the status is persisted. *)
ExecuteUnrecorded(w) ==
    /\ pc[w] = "execute"
    /\ prediction' = [prediction EXCEPT ![Job(w)] = started[w]]
    /\ Goto(w, "publish")
    /\ UNCHANGED <<status, deadLetters, nats, request, attempt, started,
                   projector, bounds>>

(* execute_job: download and qualify the package, verify and score the Gold  *)
(* rows, put the predictions under the one key of the job.                   *)
Execute(w) ==
    LET j == Job(w)
        put == [prediction EXCEPT ![j] = started[w]]
    IN /\ pc[w] = "execute"
       /\ \/ /\ NoFault /\ j \notin Rejected \cup Mismatched
             /\ prediction' = put /\ Goto(w, "complete")
          \/ /\ NoFault /\ j \in Rejected \cup Mismatched
             /\ ExecutionFails(w, j \notin Rejected) /\ UNCHANGED prediction
          \/ /\ Fault
             /\ prediction' \in IF j \in Rejected \cup Mismatched
                                THEN {prediction}
                                ELSE MaybeWritten(prediction, put)
             /\ ExecutionFails(w, TRUE)
       /\ UNCHANGED <<status, deadLetters, nats, request, attempt, started,
                      projector, crashes>>

(* persist_status writes what it is given over whatever record there is. *)
PersistStatus(w, state, next) ==
    LET saved == [status EXCEPT ![Job(w)] = [state |-> state, started |-> started[w]]]
    IN \/ /\ NoFault /\ status' = saved
          /\ Goto(w, next) /\ UNCHANGED <<request, attempt, started>>
       \/ Fault /\ status' \in MaybeWritten(status, saved) /\ Leave(w)

(* Mistake: a completed job is acked without its completion event. *)
CompleteSilent(w) ==
    /\ pc[w] = "complete"
    /\ PersistStatus(w, "completed", "ack")
    /\ UNCHANGED <<prediction, deadLetters, nats, projector, crashes>>

Complete(w) ==
    /\ pc[w] = "complete"
    /\ PersistStatus(w, "completed", "publish")
    /\ UNCHANGED <<prediction, deadLetters, nats, projector, crashes>>

(* publish_completion: its message id is that of the job, so the stream      *)
(* keeps the first event and drops every later one.                          *)
PublishCompletion(w) ==
    LET published == IF completion[Job(w)] = NoOutput
                     THEN [completion EXCEPT ![Job(w)] = started[w]]
                     ELSE completion
    IN /\ pc[w] = "publish"
       /\ \/ /\ NoFault /\ completion' = published
             /\ Goto(w, "ack") /\ UNCHANGED <<request, attempt, started>>
          \/ Fault /\ completion' \in MaybeWritten(completion, published) /\ Leave(w)
       /\ UNCHANGED <<objects, broker, delivered, projector, crashes>>

(* The answer to the broker, which ignores it once a request is settled. *)
Answer(w, state) ==
    /\ \/ /\ NoFault
          /\ broker' = IF broker[request[w]] \in {"pending", "inflight"}
                       THEN [broker EXCEPT ![request[w]] = state] ELSE broker
       \/ Fault /\ UNCHANGED broker
    /\ Leave(w)
    /\ UNCHANGED <<objects, delivered, completion, projector, crashes>>

Ack(w) == pc[w] = "ack" /\ Answer(w, "acked")

Term(w) == pc[w] = "term" /\ Answer(w, "termed")

Nak(w) ==
    /\ pc[w] = "nak"
    /\ \/ /\ NoFault
          /\ broker' = IF broker[request[w]] = "inflight"
                       THEN [broker EXCEPT ![request[w]] = Requeued(request[w])]
                       ELSE broker
       \/ Fault /\ UNCHANGED broker
    /\ Leave(w)
    /\ UNCHANGED <<objects, delivered, completion, projector, crashes>>

(* Mistake: a failed attempt is recorded under a status nobody knows. *)
FailRetrying(w) ==
    /\ pc[w] = "fail"
    /\ PersistStatus(w, "retrying", "deadLetter")
    /\ UNCHANGED <<prediction, deadLetters, nats, projector, crashes>>

(* Mistake: the dead letter is left out. *)
FailUnlettered(w) ==
    /\ pc[w] = "fail"
    /\ PersistStatus(w, "failed", "term")
    /\ UNCHANGED <<prediction, deadLetters, nats, projector, crashes>>

(* A terminal failure: the status record, then the dead letter, then TERM. *)
Fail(w) ==
    /\ pc[w] = "fail"
    /\ PersistStatus(w, "failed", "deadLetter")
    /\ UNCHANGED <<prediction, deadLetters, nats, projector, crashes>>

WriteDeadLetter(w) ==
    LET written == deadLetters \cup {Job(w)} IN
    /\ pc[w] = "deadLetter"
    /\ \/ /\ NoFault /\ deadLetters' = written
          /\ Goto(w, "term") /\ UNCHANGED <<request, attempt, started>>
       \/ Fault /\ deadLetters' \in MaybeWritten(deadLetters, written) /\ Leave(w)
    /\ UNCHANGED <<prediction, status, nats, projector, crashes>>

(* The worker process dies with all its tasks. *)
Crash ==
    /\ crashes < MaxCrashes
    /\ crashes' = crashes + 1
    /\ pc' = [w \in Workers |-> "idle"]
    /\ request' = [w \in Workers |-> NoRequest]
    /\ attempt' = [w \in Workers |-> 0]
    /\ started' = [w \in Workers |-> NoOutput]
    /\ UNCHANGED <<objects, nats, projector, faults>>

-----------------------------------------------------------------------------
(* go-api: runPredictionProjector *)

(* A restart of the API: every prediction object that is listed then is      *)
(* reconciled before the first event, or none when the listing fails.        *)
RestartApi ==
    /\ crashes < MaxCrashes
    /\ crashes' = crashes + 1
    /\ \/ NoFault /\ scan' = {j \in Jobs : prediction[j] # NoOutput}
       \/ Fault /\ scan' = {}
    /\ reading' = NotReading
    /\ UNCHANGED <<objects, nats, workers, served, projected>>

(* Reconcile takes an object as it is, there is no checksum to compare; one  *)
(* that fails is passed over.                                                *)
ReconcileObject ==
    /\ reading = NotReading
    /\ \E j \in scan :
        /\ scan' = scan \ {j}
        /\ \/ /\ NoFault
              /\ reading' = [job |-> j, output |-> prediction[j], for |-> "reconcile"]
           \/ Fault /\ UNCHANGED reading
    /\ UNCHANGED <<objects, nats, workers, served, projected, crashes>>

(* ProjectCompletion goes on only with the object that the event describes;  *)
(* otherwise the event is NAKed and comes back, without limit.               *)
ReadOutput ==
    /\ reading = NotReading
    /\ scan = {}
    /\ \E j \in Jobs \ projected :
        /\ completion[j] # NoOutput
        /\ prediction[j] = completion[j]
        /\ reading' = [job |-> j, output |-> prediction[j], for |-> "event"]
    /\ UNCHANGED <<objects, nats, workers, scan, served, projected, bounds>>

(* Prediction ids do not depend on the execution, and rows whose ids exist   *)
(* are left out.                                                             *)
Inserted(j, output) ==
    IF served[j] = NoOutput THEN [served EXCEPT ![j] = output] ELSE served

(* Mistake: the event is acked although the insert has failed. *)
InsertRowsUnchecked ==
    LET j == reading.job IN
    /\ reading # NotReading
    /\ \/ NoFault /\ served' = Inserted(j, reading.output)
       \/ Fault /\ UNCHANGED served
    /\ projected' = IF reading.for = "event" THEN projected \cup {j} ELSE projected
    /\ reading' = NotReading
    /\ UNCHANGED <<objects, nats, workers, scan, crashes>>

(* InsertCandidatePredictions and, for an event, the live signal and the ack *)
(* of the event.                                                             *)
InsertRows ==
    LET j == reading.job
        inserted == Inserted(j, reading.output)
    IN /\ reading # NotReading
       /\ \/ /\ NoFault /\ served' = inserted
             /\ projected' = IF reading.for = "event" THEN projected \cup {j}
                                                      ELSE projected
          \/ /\ Fault /\ served' \in MaybeWritten(served, inserted)
             /\ UNCHANGED projected
       /\ reading' = NotReading
       /\ UNCHANGED <<objects, nats, workers, scan, crashes>>

-----------------------------------------------------------------------------
Perform(w) == ReadManifest(w) \/ ReadStatus(w) \/ Execute(w)

Conclude(w) == Complete(w) \/ PublishCompletion(w) \/ Ack(w)

GiveUp(w) == Fail(w) \/ WriteDeadLetter(w) \/ Term(w) \/ Nak(w)

WorkerStep(w) == Fetch(w) \/ Perform(w) \/ Conclude(w) \/ GiveUp(w)

ProjectorStep == ReconcileObject \/ ReadOutput \/ InsertRows

Next ==
    \/ \E w \in Workers : WorkerStep(w)
    \/ \E m \in Requests : RequestJob(m) \/ AckWaitExpires(m)
    \/ ProjectorStep \/ Crash \/ RestartApi

Spec == Init /\ [][Next]_vars

(* The tasks of the pool and the projector loop keep running, a free slot    *)
(* keeps pulling, and a lease that nobody extends comes to its end.          *)
Fairness ==
    /\ \A w \in Workers : WF_vars(WorkerStep(w))
    /\ \A m \in Requests :
        WF_vars(AckWaitExpires(m) /\ \A w \in Workers : request[w] # m)
    /\ WF_vars(ProjectorStep)

FairSpec == Spec /\ Fairness

-----------------------------------------------------------------------------
(* Safety *)

(* A completion event is on the stream only after the predictions and the    *)
(* status record of its job were stored, whatever fails, restarts or runs    *)
(* twice: process_message persists both before publish_completion.           *)
CompletionIsDurable ==
    \A j \in Jobs : completion[j] # NoOutput =>
        prediction[j] # NoOutput /\ status[j] # NoStatus

(* process_message acks a request only when its job is announced: no acked   *)
(* request leaves a consumer of completion events waiting.                   *)
AckedIsPublished ==
    \A m \in Requests : broker[m] = "acked" => completion[JobOf[m]] # NoOutput

(* process_message terminates a well-formed request only after the failure   *)
(* record and the dead letter of its job were written.                       *)
TermedIsRecorded ==
    \A m \in Requests \ Malformed : broker[m] = "termed" =>
        JobOf[m] \in deadLetters /\ status[JobOf[m]] # NoStatus

(* What each place of process_message relies on in the object store. *)
WorkerInv(w) ==
    /\ pc[w] # "idle" => request[w] \in Requests
    /\ pc[w] \in Places \ {"idle", "manifest", "status", "term"} =>
        started[w] # NoOutput
    /\ pc[w] = "complete" => prediction[Job(w)] # NoOutput
    /\ pc[w] \in {"publish", "ack"} =>
        prediction[Job(w)] # NoOutput /\ status[Job(w)] # NoStatus
    /\ pc[w] = "ack" => completion[Job(w)] # NoOutput
    /\ pc[w] = "deadLetter" => status[Job(w)] # NoStatus
    /\ pc[w] = "term" /\ request[w] \notin Malformed =>
        Job(w) \in deadLetters /\ status[Job(w)] # NoStatus

(* A status record names its start time, and a completed one stands for      *)
(* stored predictions.                                                       *)
RecordInv ==
    \A j \in Jobs :
        /\ status[j].state # "none" => status[j].started # NoOutput
        /\ status[j].state = "completed" => prediction[j] # NoOutput

(* The projector only ever holds and serves predictions that were stored,    *)
(* and an event it has acked is one whose rows can be queried.               *)
ProjectorInv ==
    /\ \A j \in scan : prediction[j] # NoOutput
    /\ reading # NotReading => reading.job \in Jobs /\ reading.output # NoOutput
    /\ \A j \in projected : served[j] # NoOutput

(* The inductive strengthening of the three safety properties above. *)
InferenceInv ==
    /\ CompletionIsDurable /\ AckedIsPublished /\ TermedIsRecorded
    /\ \A w \in Workers : WorkerInv(w)
    /\ RecordInv /\ ProjectorInv

-----------------------------------------------------------------------------
(* Liveness *)

(* Every request that the stream has accepted is settled in the end: acked,  *)
(* terminated or given up by the broker after MAX_DELIVERIES.                *)
RequestSettled ==
    \A m \in Requests : broker[m] = "pending" ~>
        broker[m] \in {"acked", "termed", "exhausted"}

(* Every announced job is served in the end, by its event or by the startup  *)
(* reconciliation, unless its predictions are replaced after the event was   *)
(* published: ProjectCompletion then refuses the event for good.             *)
CompletionServed ==
    \A j \in Jobs :
        completion[j] # NoOutput ~>
            served[j] # NoOutput \/ prediction[j] # completion[j]

-----------------------------------------------------------------------------
(* What the documents say of this stage *)

(* docs/INFERENCE.md: the output is immutable, so the object stays the one   *)
(* that the completion event names by its SHA-256.  It does not hold:        *)
(* README, section 4.                                                        *)
CompletionMatchesOutput ==
    \A j \in Jobs : completion[j] # NoOutput => prediction[j] = completion[j]

==============================================================================
