-------------------------- MODULE PreprocessorProofs --------------------------
(* Theorems about Preprocessor, for every pool, every set of products and    *)
(* events, every max_deliver and any number of faults and crashes.           *)
EXTENDS Preprocessor, TLAPS

(* Every save of a checkpoint writes a well-formed record. *)
LEMMA CheckpointForms ==
    ASSUME NEW c \in CheckpointRecord, NEW v \in Versions, NEW b \in BOOLEAN
    PROVE  /\ NoCheckpoint \in CheckpointRecord
           /\ NewCheckpoint(v) \in CheckpointRecord
           /\ NewCheckpoint(v).state = "PROCESSING"
           /\ Restarted(c) \in CheckpointRecord
           /\ Restarted(c).state = "PROCESSING"
           /\ Stored(c, v) \in CheckpointRecord
           /\ Stored(c, v).state = "COMPLETED"
           /\ Stored(c, v).silver = v
           /\ Promoted(c) \in CheckpointRecord
           /\ Promoted(c).state = "COMPLETED"
           /\ Promoted(c).silver = c.silver
           /\ Failed(c, b) \in CheckpointRecord
           /\ Failed(c, b).state = "FAILED"
           /\ NoCheckpoint.state = "NONE"
  BY DEF CheckpointRecord, MaybeVersion, NoCheckpoint, NewCheckpoint, Restarted,
         Stored, Promoted, Failed

(* A worker that has an event has one of the known products and versions. *)
LEMMA EventTyped ==
    ASSUME TypeOK, EventsPublished, NEW w \in Workers, pc[w] # "idle"
    PROVE  /\ msg[w] \in Messages
           /\ Product(w) \in Products
           /\ Version(w) \in Versions
           /\ cp[w] \in CheckpointRecord
           /\ checkpoint[Product(w)] \in CheckpointRecord
  BY PreprocessorConstants DEF TypeOK, EventsPublished, Product, Version

(* Saving a record keeps the checkpoints typed, and no save takes a product  *)
(* back to having no checkpoint.                                             *)
LEMMA SaveTyped ==
    ASSUME TypeOK, NEW p \in Products, NEW c \in CheckpointRecord,
           c.state # "NONE"
    PROVE  /\ Save(p, c) \in [Products -> CheckpointRecord]
           /\ Save(p, c)[p] # NoCheckpoint
           /\ \A q \in Products :
                checkpoint[q] # NoCheckpoint => Save(p, c)[q] # NoCheckpoint
  <1>1. c # NoCheckpoint
    BY DEF NoCheckpoint
  <1>. QED
    BY <1>1 DEF Save, TypeOK

(* Leaving a task keeps the worker's variables typed. *)
LEMMA FinishTyped ==
    ASSUME TypeOK, NEW w \in Workers, Finish(w)
    PROVE  /\ pc' = [pc EXCEPT ![w] = "idle"]
           /\ pc' \in [Workers -> Places]
           /\ msg' \in [Workers -> Messages \cup {NoMessage}]
           /\ cp' \in [Workers -> CheckpointRecord]
           /\ \A x \in Workers \ {w} :
                pc'[x] = pc[x] /\ msg'[x] = msg[x] /\ cp'[x] = cp[x]
  <1>1. NoCheckpoint \in CheckpointRecord
    BY DEF NoCheckpoint, CheckpointRecord, MaybeVersion
  <1>. QED
    BY <1>1 DEF Finish, Goto, Keep, TypeOK, Places

(* A NAK requeues an event or drops it; it never unpublishes or acks one. *)
LEMMA NakTyped ==
    ASSUME TypeOK, NEW w \in Workers, msg[w] \in Messages, Nak(w)
    PROVE  /\ Finish(w)
           /\ broker' \in [Messages -> BrokerStates]
           /\ \A m \in Messages :
                /\ broker'[m] = "unpublished" <=> broker[m] = "unpublished"
                /\ broker'[m] = "acked" => broker[m] = "acked"
  BY DEF Nak, Requeued, TypeOK, BrokerStates

(* The fault counter stays a number. *)
LEMMA FaultTyped == TypeOK /\ (Fault \/ NoFault) => faults' \in Nat
  BY DEF TypeOK, Fault, NoFault

(* The initial state has the declared types. *)
LEMMA InitType == Init => TypeOK
  BY CheckpointForms, PreprocessorConstants
  DEF Init, TypeOK, MaybeVersion, BrokerStates, Places, NoCheckpoint,
      CheckpointRecord

-----------------------------------------------------------------------------
(* What a step of worker w leaves alone: nobody else's task, no published    *)
(* event, no Bronze object; and what it never takes back.                    *)
Frame(w) ==
    /\ bronze' = bronze
    /\ \A m \in Messages :
        /\ broker'[m] = "unpublished" <=> broker[m] = "unpublished"
        /\ broker'[m] = "acked" =>
              broker[m] = "acked" \/ (pc[w] = "ack" /\ m = msg[w])
    /\ \A p \in Products :
        /\ silver[p] # NoVersion => silver'[p] # NoVersion
        /\ lineage[p] # NoVersion => lineage'[p] # NoVersion
        /\ checkpoint[p] # NoCheckpoint => checkpoint'[p] # NoCheckpoint
    /\ announced \subseteq announced'
    /\ \A x \in Workers \ {w} :
        pc'[x] = pc[x] /\ msg'[x] = msg[x] /\ cp'[x] = cp[x]

(* Worker w's own event is a published one. *)
OwnEvent(w) == pc[w] # "idle" =>
                   msg[w] \in Messages /\ broker[msg[w]] # "unpublished"

(* Everything that a step of w has to leave true. *)
Sound(w) == TypeOK' /\ Frame(w) /\ OwnEvent(w)' /\ Established(w)'

(* A step of w that ends in a NAK: only the broker, the fault counter and    *)
(* one durable write are left to look at.                                    *)
LEMMA NakSound ==
    ASSUME TypeOK, EventsPublished, NEW w \in Workers, pc[w] # "idle", Nak(w),
           Fault \/ NoFault,
           bronze' = bronze,
           silver' \in [Products -> MaybeVersion],
           lineage' \in [Products -> MaybeVersion],
           checkpoint' \in [Products -> CheckpointRecord],
           \A p \in Products :
             /\ silver[p] # NoVersion => silver'[p] # NoVersion
             /\ lineage[p] # NoVersion => lineage'[p] # NoVersion
             /\ checkpoint[p] # NoCheckpoint => checkpoint'[p] # NoCheckpoint,
           announced' \in SUBSET (Messages \X MaybeVersion),
           announced \subseteq announced',
           UNCHANGED <<delivered, overwrites, crashes>>
    PROVE  Sound(w)
  <1>1. msg[w] \in Messages
    BY EventTyped
  <1>2. /\ Finish(w)
        /\ broker' \in [Messages -> BrokerStates]
        /\ \A m \in Messages :
             /\ broker'[m] = "unpublished" <=> broker[m] = "unpublished"
             /\ broker'[m] = "acked" => broker[m] = "acked"
    BY <1>1, NakTyped
  <1>3. /\ pc' = [pc EXCEPT ![w] = "idle"]
        /\ pc' \in [Workers -> Places]
        /\ msg' \in [Workers -> Messages \cup {NoMessage}]
        /\ cp' \in [Workers -> CheckpointRecord]
        /\ \A x \in Workers \ {w} :
             pc'[x] = pc[x] /\ msg'[x] = msg[x] /\ cp'[x] = cp[x]
    BY <1>2, FinishTyped
  <1>4. pc'[w] = "idle"
    BY <1>3 DEF TypeOK
  <1>5. TypeOK'
    BY <1>2, <1>3, FaultTyped DEF TypeOK
  <1>6. Frame(w)
    BY <1>2, <1>3 DEF Frame
  <1>7. OwnEvent(w)' /\ Established(w)'
    BY <1>4 DEF OwnEvent, Established
  <1>. QED
    BY <1>5, <1>6, <1>7 DEF Sound

(* A step of w that goes on with its event at another place. *)
LEMMA MoveSound ==
    ASSUME TypeOK, EventsPublished, NEW w \in Workers, pc[w] # "idle",
           NEW place \in Places, Goto(w, place), NEW c \in CheckpointRecord,
           Keep(w, c), UNCHANGED <<msg, broker>>,
           Fault \/ NoFault,
           bronze' = bronze,
           silver' \in [Products -> MaybeVersion],
           lineage' \in [Products -> MaybeVersion],
           checkpoint' \in [Products -> CheckpointRecord],
           \A p \in Products :
             /\ silver[p] # NoVersion => silver'[p] # NoVersion
             /\ lineage[p] # NoVersion => lineage'[p] # NoVersion
             /\ checkpoint[p] # NoCheckpoint => checkpoint'[p] # NoCheckpoint,
           announced' \in SUBSET (Messages \X MaybeVersion),
           announced \subseteq announced',
           UNCHANGED <<delivered, overwrites, crashes>>
    PROVE  /\ TypeOK' /\ Frame(w) /\ OwnEvent(w)'
           /\ pc'[w] = place /\ cp'[w] = c /\ Product(w)' = Product(w)
           /\ msg'[w] = msg[w]
  <1>1. msg[w] \in Messages /\ broker[msg[w]] # "unpublished"
    BY DEF EventsPublished
  <1>2. pc'[w] = place /\ cp'[w] = c /\ Product(w)' = Product(w)
        /\ msg'[w] = msg[w]
    BY DEF Goto, Keep, TypeOK, Product
  <1>3. TypeOK'
    <2>1. /\ pc' \in [Workers -> Places]
          /\ cp' \in [Workers -> CheckpointRecord]
      BY DEF Goto, Keep, TypeOK
    <2>. QED
      BY <2>1, FaultTyped DEF TypeOK
  <1>4. Frame(w)
    BY DEF Frame, Goto, Keep, TypeOK
  <1>5. OwnEvent(w)'
    BY <1>1 DEF OwnEvent
  <1>. QED
    BY <1>2, <1>3, <1>4, <1>5

(* A worker that keeps its checkpoint copy. *)
LEMMA KeepSame ==
    ASSUME TypeOK, NEW w \in Workers, UNCHANGED cp
    PROVE  Keep(w, cp[w])
  BY DEF Keep, TypeOK

(* A step of w that enters handle_failure. *)
LEMMA FailSound ==
    ASSUME TypeOK, EventsPublished, NEW w \in Workers, pc[w] # "idle",
           NEW c \in CheckpointRecord, NEW b \in BOOLEAN, Fails(w, c, b),
           UNCHANGED <<msg, broker>>,
           Fault \/ NoFault,
           bronze' = bronze,
           silver' \in [Products -> MaybeVersion],
           lineage' \in [Products -> MaybeVersion],
           checkpoint' \in [Products -> CheckpointRecord],
           \A p \in Products :
             /\ silver[p] # NoVersion => silver'[p] # NoVersion
             /\ lineage[p] # NoVersion => lineage'[p] # NoVersion
             /\ checkpoint[p] # NoCheckpoint => checkpoint'[p] # NoCheckpoint,
           announced' \in SUBSET (Messages \X MaybeVersion),
           announced \subseteq announced',
           UNCHANGED <<delivered, overwrites, crashes>>
    PROVE  Sound(w)
  <1>. DEFINE f == Failed(c, b)
  <1>1. f \in CheckpointRecord /\ f.state = "FAILED"
    BY DEF Failed, CheckpointRecord
  <1>2. Goto(w, "fail") /\ Keep(w, f) /\ "fail" \in Places
    BY DEF Fails, Places
  <1>. HIDE DEF f
  <1>3. /\ TypeOK' /\ Frame(w) /\ OwnEvent(w)'
        /\ pc'[w] = "fail" /\ cp'[w] = f
    BY <1>1, <1>2, MoveSound
  <1>4. Established(w)'
    BY <1>1, <1>3 DEF Established
  <1>. QED
    BY <1>3, <1>4 DEF Sound

-----------------------------------------------------------------------------
(* The steps of a worker, one by one. *)

(* Taking an event from the consumer. *)
LEMMA FetchSound ==
    ASSUME TypeOK, NEW w \in Workers, Fetch(w)
    PROVE  Sound(w)
  <1>1. PICK m \in Messages :
          /\ broker[m] = "pending"
          /\ broker' = [broker EXCEPT ![m] = "inflight"]
          /\ delivered' = [delivered EXCEPT ![m] = @ + 1]
          /\ msg' = [msg EXCEPT ![w] = m]
          /\ Goto(w, IF m \in Malformed THEN "term" ELSE "load")
    BY DEF Fetch
  <1>2. pc'[w] \in {"term", "load"} /\ msg'[w] = m
        /\ broker'[m] = "inflight"
    BY <1>1 DEF Goto, TypeOK
  <1>3. TypeOK'
    <2>1. /\ pc' \in [Workers -> Places]
          /\ msg' \in [Workers -> Messages \cup {NoMessage}]
          /\ broker' \in [Messages -> BrokerStates]
          /\ delivered' \in [Messages -> Nat]
      BY <1>1 DEF Goto, TypeOK, Places, BrokerStates
    <2>. QED
      BY <2>1 DEF TypeOK, Fetch, objects, bounds
  <1>4. Frame(w)
    BY <1>1 DEF Frame, Fetch, objects, Goto, TypeOK
  <1>5. OwnEvent(w)'
    BY <1>2 DEF OwnEvent
  <1>6. Established(w)'
    BY <1>2 DEF Established
  <1>. QED
    BY <1>3, <1>4, <1>5, <1>6 DEF Sound

(* Reading the checkpoint. *)
LEMMA LoadSound ==
    ASSUME TypeOK, EventsPublished, NEW w \in Workers, LoadCheckpoint(w)
    PROVE  Sound(w)
  <1>1. /\ pc[w] = "load" /\ pc[w] # "idle"
        /\ UNCHANGED <<bronze, silver, lineage, checkpoint, broker, delivered,
                       announced, msg, overwrites, crashes>>
    BY DEF LoadCheckpoint, objects, nats
  <1>2. /\ Product(w) \in Products /\ Version(w) \in Versions
        /\ checkpoint[Product(w)] \in CheckpointRecord
    BY <1>1, EventTyped
  <1>3. /\ silver' \in [Products -> MaybeVersion]
        /\ lineage' \in [Products -> MaybeVersion]
        /\ checkpoint' \in [Products -> CheckpointRecord]
        /\ announced' \in SUBSET (Messages \X MaybeVersion)
    BY <1>1 DEF TypeOK
  <1>4. CASE /\ NoFault
             /\ Keep(w, checkpoint[Product(w)])
             /\ Goto(w, IF checkpoint[Product(w)].terminal THEN "term"
                        ELSE IF checkpoint[Product(w)].state
                                    \in {"COMPLETED", "PROCESSING"}
                                /\ checkpoint[Product(w)].sha = Version(w)
                             THEN "stat" ELSE "begin")
    <2>. DEFINE place == IF checkpoint[Product(w)].terminal THEN "term"
                         ELSE IF checkpoint[Product(w)].state
                                     \in {"COMPLETED", "PROCESSING"}
                                 /\ checkpoint[Product(w)].sha = Version(w)
                              THEN "stat" ELSE "begin"
    <2>1. place \in Places /\ place \in {"term", "stat", "begin"}
      BY DEF Places
    <2>2. Goto(w, place)
      BY <1>4
    <2>3. place = "stat" => checkpoint[Product(w)].state # "NONE"
      OBVIOUS
    <2>. HIDE DEF place
    <2>4. /\ TypeOK' /\ Frame(w) /\ OwnEvent(w)'
          /\ pc'[w] = place /\ cp'[w] = checkpoint[Product(w)]
          /\ Product(w)' = Product(w)
      BY <1>1, <1>2, <1>3, <1>4, <2>1, <2>2, MoveSound
    <2>5. place = "stat" => checkpoint[Product(w)] # NoCheckpoint
      BY <2>3 DEF NoCheckpoint
    <2>6. Established(w)'
      BY <1>1, <2>1, <2>3, <2>4, <2>5 DEF Established
    <2>. QED
      BY <2>4, <2>6 DEF Sound
  <1>5. CASE Fault /\ Fails(w, NewCheckpoint(Version(w)), FALSE)
    <2>1. NewCheckpoint(Version(w)) \in CheckpointRecord /\ FALSE \in BOOLEAN
      BY <1>2 DEF NewCheckpoint, CheckpointRecord, MaybeVersion
    <2>. QED
      BY <1>1, <1>3, <1>5, <2>1, FailSound
  <1>. QED
    BY <1>4, <1>5 DEF LoadCheckpoint

(* Looking for the Silver object that the checkpoint names. *)
LEMMA StatSound ==
    ASSUME TypeOK, EventsPublished, AllEstablished, NEW w \in Workers,
           StatSilver(w)
    PROVE  Sound(w)
  <1>1. /\ pc[w] = "stat" /\ pc[w] # "idle" /\ cp' = cp
        /\ UNCHANGED <<bronze, silver, lineage, checkpoint, broker, delivered,
                       announced, msg, overwrites, crashes>>
    BY DEF StatSilver, objects, nats
  <1>2. /\ Product(w) \in Products /\ cp[w] \in CheckpointRecord
        /\ Keep(w, cp[w])
    BY <1>1, EventTyped, KeepSame
  <1>3. checkpoint[Product(w)] # NoCheckpoint /\ cp[w].state # "NONE"
    BY <1>1 DEF AllEstablished, Established
  <1>4. /\ silver' \in [Products -> MaybeVersion]
        /\ lineage' \in [Products -> MaybeVersion]
        /\ checkpoint' \in [Products -> CheckpointRecord]
        /\ announced' \in SUBSET (Messages \X MaybeVersion)
    BY <1>1 DEF TypeOK
  <1>5. PICK place \in {"begin", "announce", "promote"} :
          /\ Goto(w, place)
          /\ place # "begin" => SilverVerified(Product(w), cp[w])
    BY DEF StatSilver
  <1>6. place \in Places /\ (Fault \/ NoFault)
    BY DEF Places, StatSilver
  <1>7. /\ TypeOK' /\ Frame(w) /\ OwnEvent(w)'
        /\ pc'[w] = place /\ cp'[w] = cp[w] /\ Product(w)' = Product(w)
    BY <1>1, <1>2, <1>4, <1>5, <1>6, MoveSound
  <1>8. Established(w)'
    BY <1>1, <1>3, <1>5, <1>7 DEF Established, SilverVerified
  <1>. QED
    BY <1>7, <1>8 DEF Sound

(* Promoting the checkpoint of a Silver object that was found. *)
LEMMA PromoteSound ==
    ASSUME TypeOK, EventsPublished, AllEstablished, NEW w \in Workers, Promote(w)
    PROVE  Sound(w)
  <1>. DEFINE c == Promoted(cp[w])
  <1>1. /\ pc[w] = "promote" /\ pc[w] # "idle"
        /\ UNCHANGED <<bronze, silver, lineage, delivered, announced,
                       overwrites, crashes>>
    BY DEF Promote
  <1>2. Product(w) \in Products /\ cp[w] \in CheckpointRecord
    BY <1>1, EventTyped
  <1>3. c \in CheckpointRecord /\ c.state = "COMPLETED"
        /\ c.silver = cp[w].silver
    BY <1>2 DEF Promoted, CheckpointRecord
  <1>4. cp[w].silver # NoVersion /\ silver[Product(w)] # NoVersion
    BY <1>1 DEF AllEstablished, Established
  <1>5. \/ /\ NoFault /\ checkpoint' = Save(Product(w), c)
           /\ Keep(w, c) /\ Goto(w, "announce") /\ UNCHANGED <<broker, msg>>
        \/ /\ Fault /\ checkpoint' \in {checkpoint, Save(Product(w), c)}
           /\ Nak(w)
    BY DEF Promote, MaybeWritten
  <1>. HIDE DEF c
  <1>6. /\ Save(Product(w), c) \in [Products -> CheckpointRecord]
        /\ Save(Product(w), c)[Product(w)] # NoCheckpoint
        /\ \A q \in Products : checkpoint[q] # NoCheckpoint =>
               Save(Product(w), c)[q] # NoCheckpoint
    BY <1>2, <1>3, SaveTyped
  <1>7. /\ silver' \in [Products -> MaybeVersion]
        /\ lineage' \in [Products -> MaybeVersion]
        /\ checkpoint' \in [Products -> CheckpointRecord]
        /\ announced' \in SUBSET (Messages \X MaybeVersion)
        /\ \A q \in Products : checkpoint[q] # NoCheckpoint =>
               checkpoint'[q] # NoCheckpoint
    BY <1>1, <1>5, <1>6 DEF TypeOK
  <1>8. CASE Fault /\ Nak(w)
    BY <1>1, <1>7, <1>8, NakSound
  <1>9. CASE /\ NoFault /\ checkpoint' = Save(Product(w), c)
             /\ Keep(w, c) /\ Goto(w, "announce") /\ UNCHANGED <<broker, msg>>
    <2>1. "announce" \in Places
      BY DEF Places
    <2>2. /\ TypeOK' /\ Frame(w) /\ OwnEvent(w)'
          /\ pc'[w] = "announce" /\ cp'[w] = c /\ Product(w)' = Product(w)
      BY <1>1, <1>3, <1>7, <1>9, <2>1, MoveSound
    <2>3. Established(w)'
      BY <1>1, <1>3, <1>4, <1>6, <1>9, <2>2 DEF Established
    <2>. QED
      BY <2>2, <2>3 DEF Sound
  <1>. QED
    BY <1>5, <1>8, <1>9

(* Saving PROCESSING before any work. *)
LEMMA BeginSound ==
    ASSUME TypeOK, EventsPublished, NEW w \in Workers, Begin(w)
    PROVE  Sound(w)
  <1>. DEFINE c == IF cp[w].state = "NONE" THEN NewCheckpoint(Version(w))
                                           ELSE Restarted(cp[w])
  <1>1. /\ pc[w] = "begin" /\ pc[w] # "idle"
        /\ UNCHANGED <<bronze, silver, lineage, broker, delivered, announced,
                       msg, overwrites, crashes>>
    BY DEF Begin, nats
  <1>2. /\ Product(w) \in Products /\ cp[w] \in CheckpointRecord
        /\ Version(w) \in Versions
    BY <1>1, EventTyped
  <1>3. c \in CheckpointRecord /\ c.state = "PROCESSING"
    <2>1. /\ NewCheckpoint(Version(w)) \in CheckpointRecord
          /\ NewCheckpoint(Version(w)).state = "PROCESSING"
      BY <1>2 DEF NewCheckpoint, CheckpointRecord, MaybeVersion
    <2>2. /\ Restarted(cp[w]) \in CheckpointRecord
          /\ Restarted(cp[w]).state = "PROCESSING"
      BY <1>2 DEF Restarted, CheckpointRecord
    <2>. QED
      BY <2>1, <2>2
  <1>4. \/ /\ NoFault /\ checkpoint' = Save(Product(w), c)
           /\ Keep(w, c) /\ Goto(w, "pipeline")
        \/ /\ Fault /\ checkpoint' \in {checkpoint, Save(Product(w), c)}
           /\ Fails(w, c, FALSE)
    BY DEF Begin, MaybeWritten
  <1>. HIDE DEF c
  <1>5. /\ Save(Product(w), c) \in [Products -> CheckpointRecord]
        /\ Save(Product(w), c)[Product(w)] # NoCheckpoint
        /\ \A q \in Products : checkpoint[q] # NoCheckpoint =>
               Save(Product(w), c)[q] # NoCheckpoint
    BY <1>2, <1>3, SaveTyped
  <1>6. /\ silver' \in [Products -> MaybeVersion]
        /\ lineage' \in [Products -> MaybeVersion]
        /\ checkpoint' \in [Products -> CheckpointRecord]
        /\ announced' \in SUBSET (Messages \X MaybeVersion)
        /\ \A q \in Products : checkpoint[q] # NoCheckpoint =>
               checkpoint'[q] # NoCheckpoint
    BY <1>1, <1>4, <1>5 DEF TypeOK
  <1>7. CASE Fault /\ Fails(w, c, FALSE)
    <2>1. FALSE \in BOOLEAN
      OBVIOUS
    <2>. QED
      BY <1>1, <1>3, <1>6, <1>7, <2>1, FailSound
  <1>8. CASE /\ NoFault /\ checkpoint' = Save(Product(w), c)
             /\ Keep(w, c) /\ Goto(w, "pipeline")
    <2>1. "pipeline" \in Places
      BY DEF Places
    <2>2. /\ TypeOK' /\ Frame(w) /\ OwnEvent(w)'
          /\ pc'[w] = "pipeline" /\ cp'[w] = c /\ Product(w)' = Product(w)
      BY <1>1, <1>3, <1>6, <1>8, <2>1, MoveSound
    <2>3. Established(w)'
      BY <1>3, <1>5, <1>8, <2>2 DEF Established
    <2>. QED
      BY <2>2, <2>3 DEF Sound
  <1>. QED
    BY <1>4, <1>7, <1>8

(* Running the scientific pipeline. *)
LEMMA PipelineSound ==
    ASSUME TypeOK, EventsPublished, AllEstablished, NEW w \in Workers, Pipeline(w)
    PROVE  Sound(w)
  <1>1. /\ pc[w] = "pipeline" /\ pc[w] # "idle"
        /\ UNCHANGED <<bronze, silver, lineage, checkpoint, broker, delivered,
                       announced, msg, overwrites, crashes>>
    BY DEF Pipeline, objects, nats
  <1>2. Product(w) \in Products /\ cp[w] \in CheckpointRecord
    BY <1>1, EventTyped
  <1>3. checkpoint[Product(w)] # NoCheckpoint /\ cp[w].state # "NONE"
    BY <1>1 DEF AllEstablished, Established
  <1>4. /\ silver' \in [Products -> MaybeVersion]
        /\ lineage' \in [Products -> MaybeVersion]
        /\ checkpoint' \in [Products -> CheckpointRecord]
        /\ announced' \in SUBSET (Messages \X MaybeVersion)
    BY <1>1 DEF TypeOK
  <1>5. \/ NoFault /\ Goto(w, "put") /\ UNCHANGED cp
        \/ \E b \in BOOLEAN : (Fault \/ NoFault) /\ Fails(w, cp[w], b)
    BY DEF Pipeline
  <1>6. CASE \E b \in BOOLEAN : (Fault \/ NoFault) /\ Fails(w, cp[w], b)
    BY <1>1, <1>2, <1>4, <1>6, FailSound
  <1>7. CASE NoFault /\ Goto(w, "put") /\ UNCHANGED cp
    <2>1. "put" \in Places /\ Keep(w, cp[w])
      BY <1>7, KeepSame DEF Places
    <2>2. /\ TypeOK' /\ Frame(w) /\ OwnEvent(w)'
          /\ pc'[w] = "put" /\ cp'[w] = cp[w] /\ Product(w)' = Product(w)
      BY <1>1, <1>2, <1>4, <1>7, <2>1, MoveSound
    <2>3. Established(w)'
      BY <1>1, <1>3, <2>2 DEF Established
    <2>. QED
      BY <2>2, <2>3 DEF Sound
  <1>. QED
    BY <1>5, <1>6, <1>7

(* Storing the Silver object. *)
LEMMA PutSilverSound ==
    ASSUME TypeOK, EventsPublished, AllEstablished, NEW w \in Workers, PutSilver(w)
    PROVE  Sound(w)
  <1>. DEFINE stored == [silver EXCEPT ![Product(w)] = Version(w)]
  <1>1. /\ pc[w] = "put" /\ pc[w] # "idle"
        /\ UNCHANGED <<bronze, lineage, checkpoint, broker, delivered,
                       announced, msg, overwrites, crashes>>
    BY DEF PutSilver, nats
  <1>2. /\ Product(w) \in Products /\ cp[w] \in CheckpointRecord
        /\ Version(w) \in Versions
    BY <1>1, EventTyped
  <1>3. checkpoint[Product(w)] # NoCheckpoint /\ cp[w].state # "NONE"
    BY <1>1 DEF AllEstablished, Established
  <1>4. /\ stored \in [Products -> MaybeVersion]
        /\ stored[Product(w)] # NoVersion
        /\ \A q \in Products : silver[q] # NoVersion => stored[q] # NoVersion
    BY <1>2, PreprocessorConstants DEF TypeOK, MaybeVersion
  <1>5. \/ /\ NoFault /\ silver' = stored /\ Goto(w, "complete")
           /\ UNCHANGED cp
        \/ Fault /\ silver' \in {silver, stored} /\ Fails(w, cp[w], FALSE)
    BY DEF PutSilver, MaybeWritten
  <1>. HIDE DEF stored
  <1>6. /\ silver' \in [Products -> MaybeVersion]
        /\ lineage' \in [Products -> MaybeVersion]
        /\ checkpoint' \in [Products -> CheckpointRecord]
        /\ announced' \in SUBSET (Messages \X MaybeVersion)
        /\ \A q \in Products : silver[q] # NoVersion => silver'[q] # NoVersion
    BY <1>1, <1>4, <1>5 DEF TypeOK
  <1>7. CASE Fault /\ Fails(w, cp[w], FALSE)
    <2>1. FALSE \in BOOLEAN
      OBVIOUS
    <2>. QED
      BY <1>1, <1>2, <1>6, <1>7, <2>1, FailSound
  <1>8. CASE /\ NoFault /\ silver' = stored /\ Goto(w, "complete")
             /\ UNCHANGED cp
    <2>1. "complete" \in Places /\ Keep(w, cp[w])
      BY <1>8, KeepSame DEF Places
    <2>2. /\ TypeOK' /\ Frame(w) /\ OwnEvent(w)'
          /\ pc'[w] = "complete" /\ cp'[w] = cp[w] /\ Product(w)' = Product(w)
      BY <1>1, <1>2, <1>6, <1>8, <2>1, MoveSound
    <2>3. Established(w)'
      BY <1>1, <1>3, <1>4, <1>8, <2>2 DEF Established
    <2>. QED
      BY <2>2, <2>3 DEF Sound
  <1>. QED
    BY <1>5, <1>7, <1>8

(* Saving COMPLETED with the Silver fields. *)
LEMMA CompleteSound ==
    ASSUME TypeOK, EventsPublished, AllEstablished, NEW w \in Workers, Complete(w)
    PROVE  Sound(w)
  <1>. DEFINE c == Stored(cp[w], Version(w))
  <1>1. /\ pc[w] = "complete" /\ pc[w] # "idle"
        /\ UNCHANGED <<bronze, silver, lineage, delivered, announced,
                       overwrites, crashes>>
    BY DEF Complete
  <1>2. /\ Product(w) \in Products /\ cp[w] \in CheckpointRecord
        /\ Version(w) \in Versions
    BY <1>1, EventTyped
  <1>3. c \in CheckpointRecord /\ c.state = "COMPLETED" /\ c.silver # NoVersion
    BY <1>2, PreprocessorConstants DEF Stored, CheckpointRecord, MaybeVersion
  <1>4. silver[Product(w)] # NoVersion
    BY <1>1 DEF AllEstablished, Established
  <1>5. \/ /\ NoFault /\ checkpoint' = Save(Product(w), c)
           /\ Keep(w, c) /\ Goto(w, "build") /\ UNCHANGED <<broker, msg>>
        \/ /\ Fault /\ checkpoint' \in {checkpoint, Save(Product(w), c)}
           /\ Nak(w)
    BY DEF Complete, MaybeWritten
  <1>. HIDE DEF c
  <1>6. /\ Save(Product(w), c) \in [Products -> CheckpointRecord]
        /\ Save(Product(w), c)[Product(w)] # NoCheckpoint
        /\ \A q \in Products : checkpoint[q] # NoCheckpoint =>
               Save(Product(w), c)[q] # NoCheckpoint
    BY <1>2, <1>3, SaveTyped
  <1>7. /\ silver' \in [Products -> MaybeVersion]
        /\ lineage' \in [Products -> MaybeVersion]
        /\ checkpoint' \in [Products -> CheckpointRecord]
        /\ announced' \in SUBSET (Messages \X MaybeVersion)
        /\ \A q \in Products : checkpoint[q] # NoCheckpoint =>
               checkpoint'[q] # NoCheckpoint
    BY <1>1, <1>5, <1>6 DEF TypeOK
  <1>8. CASE Fault /\ Nak(w)
    BY <1>1, <1>7, <1>8, NakSound
  <1>9. CASE /\ NoFault /\ checkpoint' = Save(Product(w), c)
             /\ Keep(w, c) /\ Goto(w, "build") /\ UNCHANGED <<broker, msg>>
    <2>1. "build" \in Places
      BY DEF Places
    <2>2. /\ TypeOK' /\ Frame(w) /\ OwnEvent(w)'
          /\ pc'[w] = "build" /\ cp'[w] = c /\ Product(w)' = Product(w)
      BY <1>1, <1>3, <1>7, <1>9, <2>1, MoveSound
    <2>3. Established(w)'
      BY <1>1, <1>3, <1>4, <1>6, <1>9, <2>2 DEF Established
    <2>. QED
      BY <2>2, <2>3 DEF Sound
  <1>. QED
    BY <1>5, <1>8, <1>9

(* The two reads of the lineage commit. *)
LEMMA LineageReadsSound ==
    ASSUME TypeOK, EventsPublished, AllEstablished, NEW w \in Workers,
           BuildLineage(w) \/ CheckLineage(w)
    PROVE  Sound(w)
  <1>1. /\ pc[w] \in {"build", "commit"} /\ pc[w] # "idle"
        /\ UNCHANGED <<bronze, silver, lineage, checkpoint, delivered,
                       announced, overwrites, crashes>>
    BY DEF BuildLineage, CheckLineage, objects
  <1>2. Product(w) \in Products /\ cp[w] \in CheckpointRecord
    BY <1>1, EventTyped
  <1>3. /\ checkpoint[Product(w)] # NoCheckpoint /\ cp[w].state # "NONE"
        /\ cp[w].silver # NoVersion /\ silver[Product(w)] # NoVersion
    BY <1>1 DEF AllEstablished, Established
  <1>4. /\ silver' \in [Products -> MaybeVersion]
        /\ lineage' \in [Products -> MaybeVersion]
        /\ checkpoint' \in [Products -> CheckpointRecord]
        /\ announced' \in SUBSET (Messages \X MaybeVersion)
    BY <1>1 DEF TypeOK
  <1>5. \/ (Fault \/ NoFault) /\ Nak(w)
        \/ \E place \in {"commit", "putLineage", "announce", "term"} :
              NoFault /\ Goto(w, place) /\ UNCHANGED <<broker, msg, cp>>
    BY DEF BuildLineage, CheckLineage
  <1>6. CASE (Fault \/ NoFault) /\ Nak(w)
    BY <1>1, <1>4, <1>6, NakSound
  <1>7. CASE \E place \in {"commit", "putLineage", "announce", "term"} :
                NoFault /\ Goto(w, place) /\ UNCHANGED <<broker, msg, cp>>
    <2>1. PICK place \in {"commit", "putLineage", "announce", "term"} :
             NoFault /\ Goto(w, place) /\ UNCHANGED <<broker, msg, cp>>
      BY <1>7
    <2>2. place \in Places /\ Keep(w, cp[w])
      BY <2>1, KeepSame DEF Places
    <2>3. /\ TypeOK' /\ Frame(w) /\ OwnEvent(w)'
          /\ pc'[w] = place /\ cp'[w] = cp[w] /\ Product(w)' = Product(w)
      BY <1>1, <1>2, <1>4, <2>1, <2>2, MoveSound
    <2>4. Established(w)'
      BY <1>1, <1>3, <2>1, <2>3 DEF Established
    <2>. QED
      BY <2>3, <2>4 DEF Sound
  <1>. QED
    BY <1>5, <1>6, <1>7

(* Putting the lineage record. *)
LEMMA PutLineageSound ==
    ASSUME TypeOK, EventsPublished, AllEstablished, NEW w \in Workers,
           PutLineage(w)
    PROVE  Sound(w)
  <1>. DEFINE committed == [lineage EXCEPT ![Product(w)] = Version(w)]
  <1>1. /\ pc[w] = "putLineage" /\ pc[w] # "idle"
        /\ UNCHANGED <<bronze, silver, checkpoint, delivered, announced,
                       overwrites, crashes>>
    BY DEF PutLineage
  <1>2. /\ Product(w) \in Products /\ cp[w] \in CheckpointRecord
        /\ Version(w) \in Versions
    BY <1>1, EventTyped
  <1>3. /\ checkpoint[Product(w)] # NoCheckpoint /\ cp[w].state # "NONE"
        /\ cp[w].silver # NoVersion /\ silver[Product(w)] # NoVersion
    BY <1>1 DEF AllEstablished, Established
  <1>4. /\ committed \in [Products -> MaybeVersion]
        /\ \A q \in Products : lineage[q] # NoVersion => committed[q] # NoVersion
    BY <1>2, PreprocessorConstants DEF TypeOK, MaybeVersion
  <1>5. \/ /\ NoFault /\ lineage' = committed /\ Goto(w, "announce")
           /\ UNCHANGED <<broker, msg, cp>>
        \/ Fault /\ lineage' \in {lineage, committed} /\ Nak(w)
    BY DEF PutLineage, MaybeWritten
  <1>. HIDE DEF committed
  <1>6. /\ silver' \in [Products -> MaybeVersion]
        /\ lineage' \in [Products -> MaybeVersion]
        /\ checkpoint' \in [Products -> CheckpointRecord]
        /\ announced' \in SUBSET (Messages \X MaybeVersion)
        /\ \A q \in Products : lineage[q] # NoVersion => lineage'[q] # NoVersion
    BY <1>1, <1>4, <1>5 DEF TypeOK
  <1>7. CASE Fault /\ Nak(w)
    BY <1>1, <1>6, <1>7, NakSound
  <1>8. CASE /\ NoFault /\ Goto(w, "announce") /\ UNCHANGED <<broker, msg, cp>>
    <2>1. "announce" \in Places /\ Keep(w, cp[w])
      BY <1>8, KeepSame DEF Places
    <2>2. /\ TypeOK' /\ Frame(w) /\ OwnEvent(w)'
          /\ pc'[w] = "announce" /\ cp'[w] = cp[w] /\ Product(w)' = Product(w)
      BY <1>1, <1>2, <1>6, <1>8, <2>1, MoveSound
    <2>3. Established(w)'
      BY <1>1, <1>3, <2>2 DEF Established
    <2>. QED
      BY <2>2, <2>3 DEF Sound
  <1>. QED
    BY <1>5, <1>7, <1>8

(* Publishing the Silver event. *)
LEMMA AnnounceSound ==
    ASSUME TypeOK, EventsPublished, AllEstablished, NEW w \in Workers, Announce(w)
    PROVE  Sound(w)
  <1>. DEFINE published == announced \cup {<<msg[w], cp[w].silver>>}
  <1>1. /\ pc[w] = "announce" /\ pc[w] # "idle"
        /\ UNCHANGED <<bronze, silver, lineage, checkpoint, delivered,
                       overwrites, crashes>>
    BY DEF Announce, objects
  <1>2. /\ Product(w) \in Products /\ cp[w] \in CheckpointRecord
        /\ msg[w] \in Messages
    BY <1>1, EventTyped
  <1>3. /\ checkpoint[Product(w)] # NoCheckpoint /\ cp[w].silver # NoVersion
        /\ silver[Product(w)] # NoVersion
    BY <1>1 DEF AllEstablished, Established
  <1>4. cp[w].silver \in Versions
    BY <1>2, <1>3 DEF CheckpointRecord, MaybeVersion
  <1>5. /\ published \in SUBSET (Messages \X MaybeVersion)
        /\ announced \subseteq published
        /\ <<msg[w], cp[w].silver>> \in published
    BY <1>2, <1>4 DEF TypeOK, MaybeVersion
  <1>6. \/ /\ NoFault /\ announced' = published /\ Goto(w, "ack")
           /\ UNCHANGED <<broker, msg, cp>>
        \/ Fault /\ announced' \in {announced, published} /\ Nak(w)
    BY DEF Announce, MaybeWritten
  <1>. HIDE DEF published
  <1>7. /\ silver' \in [Products -> MaybeVersion]
        /\ lineage' \in [Products -> MaybeVersion]
        /\ checkpoint' \in [Products -> CheckpointRecord]
        /\ announced' \in SUBSET (Messages \X MaybeVersion)
        /\ announced \subseteq announced'
    BY <1>1, <1>5, <1>6 DEF TypeOK
  <1>8. CASE Fault /\ Nak(w)
    BY <1>1, <1>7, <1>8, NakSound
  <1>9. CASE /\ NoFault /\ announced' = published /\ Goto(w, "ack")
             /\ UNCHANGED <<broker, msg, cp>>
    <2>1. "ack" \in Places /\ Keep(w, cp[w])
      BY <1>9, KeepSame DEF Places
    <2>2. /\ TypeOK' /\ Frame(w) /\ OwnEvent(w)'
          /\ pc'[w] = "ack" /\ cp'[w] = cp[w] /\ Product(w)' = Product(w)
          /\ msg'[w] = msg[w]
      BY <1>1, <1>2, <1>7, <1>9, <2>1, MoveSound
    <2>3. \E v \in Versions : <<msg'[w], v>> \in announced'
      BY <1>4, <1>5, <1>9, <2>2
    <2>4. Established(w)'
      BY <1>1, <1>3, <2>2, <2>3 DEF Established
    <2>. QED
      BY <2>2, <2>4 DEF Sound
  <1>. QED
    BY <1>6, <1>8, <1>9

(* Acknowledging or terminating the event. *)
LEMMA SettleSound ==
    ASSUME TypeOK, EventsPublished, NEW w \in Workers, Ack(w) \/ Term(w)
    PROVE  Sound(w)
  <1>1. /\ pc[w] # "idle" /\ Finish(w)
        /\ UNCHANGED <<bronze, silver, lineage, checkpoint, delivered,
                       announced, overwrites, crashes>>
        /\ Fault \/ NoFault
    BY DEF Ack, Term, Settle, objects
  <1>2. msg[w] \in Messages /\ broker[msg[w]] # "unpublished"
    BY <1>1 DEF EventsPublished
  <1>3. \/ broker' = broker
        \/ broker' = [broker EXCEPT ![msg[w]] = "acked"] /\ pc[w] = "ack"
        \/ broker' = [broker EXCEPT ![msg[w]] = "termed"]
    BY DEF Ack, Term, Settle
  <1>4. /\ broker' \in [Messages -> BrokerStates]
        /\ \A m \in Messages :
             /\ broker'[m] = "unpublished" <=> broker[m] = "unpublished"
             /\ broker'[m] = "acked" =>
                   broker[m] = "acked" \/ (pc[w] = "ack" /\ m = msg[w])
    BY <1>2, <1>3 DEF TypeOK, BrokerStates
  <1>5. /\ pc' = [pc EXCEPT ![w] = "idle"]
        /\ pc' \in [Workers -> Places]
        /\ msg' \in [Workers -> Messages \cup {NoMessage}]
        /\ cp' \in [Workers -> CheckpointRecord]
        /\ \A x \in Workers \ {w} :
             pc'[x] = pc[x] /\ msg'[x] = msg[x] /\ cp'[x] = cp[x]
    BY <1>1, FinishTyped
  <1>6. pc'[w] = "idle"
    BY <1>5 DEF TypeOK
  <1>7. TypeOK'
    BY <1>1, <1>4, <1>5, FaultTyped DEF TypeOK
  <1>8. Frame(w)
    BY <1>1, <1>4, <1>5 DEF Frame
  <1>9. OwnEvent(w)' /\ Established(w)'
    BY <1>6 DEF OwnEvent, Established
  <1>. QED
    BY <1>7, <1>8, <1>9 DEF Sound

(* Persisting a failure. *)
LEMMA HandleFailureSound ==
    ASSUME TypeOK, EventsPublished, AllEstablished, NEW w \in Workers,
           HandleFailure(w)
    PROVE  Sound(w)
  <1>1. /\ pc[w] = "fail" /\ pc[w] # "idle"
        /\ UNCHANGED <<bronze, silver, lineage, delivered, announced,
                       overwrites, crashes>>
    BY DEF HandleFailure
  <1>2. Product(w) \in Products /\ cp[w] \in CheckpointRecord
    BY <1>1, EventTyped
  <1>3. cp[w].state # "NONE"
    BY <1>1 DEF AllEstablished, Established
  <1>4. /\ Save(Product(w), cp[w]) \in [Products -> CheckpointRecord]
        /\ \A q \in Products : checkpoint[q] # NoCheckpoint =>
               Save(Product(w), cp[w])[q] # NoCheckpoint
    BY <1>2, <1>3, SaveTyped
  <1>5. /\ checkpoint' \in {checkpoint, Save(Product(w), cp[w])}
        /\ \/ (Fault \/ NoFault) /\ Nak(w)
           \/ NoFault /\ Goto(w, "term") /\ UNCHANGED <<broker, msg, cp>>
    BY DEF HandleFailure, MaybeWritten
  <1>6. /\ silver' \in [Products -> MaybeVersion]
        /\ lineage' \in [Products -> MaybeVersion]
        /\ checkpoint' \in [Products -> CheckpointRecord]
        /\ announced' \in SUBSET (Messages \X MaybeVersion)
        /\ \A q \in Products : checkpoint[q] # NoCheckpoint =>
               checkpoint'[q] # NoCheckpoint
    BY <1>1, <1>4, <1>5 DEF TypeOK
  <1>7. CASE (Fault \/ NoFault) /\ Nak(w)
    BY <1>1, <1>6, <1>7, NakSound
  <1>8. CASE NoFault /\ Goto(w, "term") /\ UNCHANGED <<broker, msg, cp>>
    <2>1. "term" \in Places /\ Keep(w, cp[w])
      BY <1>8, KeepSame DEF Places
    <2>2. /\ TypeOK' /\ Frame(w) /\ OwnEvent(w)' /\ pc'[w] = "term"
      BY <1>1, <1>2, <1>6, <1>8, <2>1, MoveSound
    <2>3. Established(w)'
      BY <2>2 DEF Established
    <2>. QED
      BY <2>2, <2>3 DEF Sound
  <1>. QED
    BY <1>5, <1>7, <1>8

(* Every step of a worker is sound. *)
LEMMA WorkerSound ==
    ASSUME TypeOK, EventsPublished, AllEstablished, NEW w \in Workers,
           WorkerStep(w)
    PROVE  Sound(w)
  BY FetchSound, LoadSound, StatSound, PromoteSound, BeginSound, PipelineSound,
     PutSilverSound, CompleteSound, LineageReadsSound, PutLineageSound,
     AnnounceSound, SettleSound, HandleFailureSound
  DEF WorkerStep, Recover, Process, Publish

-----------------------------------------------------------------------------
(* The invariant holds initially. *)
LEMMA InitInv == Init => PreprocessorInv
  BY PreprocessorConstants
  DEF Init, PreprocessorInv, EventsPublished, BronzeUntilLineage, AllEstablished,
      Established, AckedIsAnnounced

(* A step of a worker keeps the invariant: its own part by Sound, everybody  *)
(* else's because Frame takes nothing back.                                  *)
LEMMA WorkerInv ==
    ASSUME TypeOK, PreprocessorInv, NEW w \in Workers, WorkerStep(w)
    PROVE  TypeOK' /\ PreprocessorInv'
  <1>1. EventsPublished /\ BronzeUntilLineage /\ AllEstablished /\ AckedIsAnnounced
    BY DEF PreprocessorInv
  <1>2. TypeOK' /\ Frame(w) /\ OwnEvent(w)' /\ Established(w)'
    BY <1>1, WorkerSound DEF Sound
  <1>3. EventsPublished'
    <2>. SUFFICES ASSUME NEW x \in Workers, pc'[x] # "idle"
                  PROVE  msg'[x] \in Messages /\ broker'[msg'[x]] # "unpublished"
      BY DEF EventsPublished
    <2>1. CASE x = w
      BY <1>2, <2>1 DEF OwnEvent
    <2>2. CASE x # w
      BY <1>1, <1>2, <2>2 DEF Frame, EventsPublished
    <2>. QED
      BY <2>1, <2>2
  <1>4. BronzeUntilLineage'
    BY <1>1, <1>2, PreprocessorConstants DEF Frame, BronzeUntilLineage
  <1>5. AllEstablished'
    <2>. SUFFICES ASSUME NEW x \in Workers, x # w
                  PROVE  Established(x)'
      BY <1>2 DEF AllEstablished
    <2>1. pc'[x] = pc[x] /\ msg'[x] = msg[x] /\ cp'[x] = cp[x]
          /\ Product(x)' = Product(x)
      BY <1>2 DEF Frame, Product
    <2>2. Established(x)
      BY <1>1 DEF AllEstablished
    <2>3. pc[x] # "idle" => Product(x) \in Products
      BY <1>1, EventTyped
    <2>. QED
      BY <1>2, <2>1, <2>2, <2>3 DEF Frame, Established
  <1>6. AckedIsAnnounced'
    <2>. SUFFICES ASSUME NEW m \in Messages, broker'[m] = "acked"
                  PROVE  /\ \E v \in Versions : <<m, v>> \in announced'
                         /\ silver'[ProductOf[m]] # NoVersion
                         /\ checkpoint'[ProductOf[m]] # NoCheckpoint
      BY DEF AckedIsAnnounced
    <2>1. ProductOf[m] \in Products
      BY PreprocessorConstants
    <2>2. CASE broker[m] = "acked"
      BY <1>1, <1>2, <2>1, <2>2 DEF Frame, AckedIsAnnounced
    <2>3. CASE pc[w] = "ack" /\ m = msg[w]
      BY <1>1, <1>2, <2>1, <2>3 DEF Frame, AllEstablished, Established, Product
    <2>. QED
      BY <1>2, <2>2, <2>3 DEF Frame
  <1>. QED
    BY <1>2, <1>3, <1>4, <1>5, <1>6 DEF PreprocessorInv

(* The ingester's two steps keep the invariant: it evicts only what lineage  *)
(* and Silver cover.                                                         *)
LEMMA IngesterInv ==
    ASSUME TypeOK, PreprocessorInv,
           (\E m \in Messages : Ingest(m)) \/ (\E p \in Products : Evict(p))
    PROVE  TypeOK' /\ PreprocessorInv'
  <1>1. EventsPublished /\ BronzeUntilLineage /\ AllEstablished /\ AckedIsAnnounced
    BY DEF PreprocessorInv
  <1>2. CASE \E m \in Messages : Ingest(m)
    <2>1. PICK m \in Messages : Ingest(m)
      BY <1>2
    <2>2. /\ bronze' = [bronze EXCEPT ![ProductOf[m]] = VersionOf[m]]
          /\ broker' = [broker EXCEPT ![m] = "pending"]
          /\ broker[m] = "unpublished"
          /\ overwrites' \in {overwrites, overwrites + 1}
          /\ UNCHANGED <<silver, checkpoint, lineage, delivered, announced, pc,
                         msg, cp, crashes, faults>>
      BY <2>1 DEF Ingest, workers
    <2>3. ProductOf[m] \in Products /\ VersionOf[m] \in Versions
          /\ VersionOf[m] # NoVersion
      BY PreprocessorConstants
    <2>4. TypeOK'
      <3>1. bronze' \in [Products -> MaybeVersion]
            /\ broker' \in [Messages -> BrokerStates] /\ overwrites' \in Nat
        BY <2>2, <2>3 DEF TypeOK, MaybeVersion, BrokerStates
      <3>. QED
        BY <2>2, <3>1 DEF TypeOK
    <2>5. EventsPublished'
      BY <1>1, <2>2 DEF EventsPublished, TypeOK
    <2>6. BronzeUntilLineage'
      BY <1>1, <2>2, <2>3, PreprocessorConstants DEF BronzeUntilLineage, TypeOK
    <2>7. AllEstablished'
      BY <1>1, <2>2 DEF AllEstablished, Established, Product
    <2>8. AckedIsAnnounced'
      BY <1>1, <2>2 DEF AckedIsAnnounced, TypeOK
    <2>. QED
      BY <2>4, <2>5, <2>6, <2>7, <2>8 DEF PreprocessorInv
  <1>3. CASE \E p \in Products : Evict(p)
    <2>1. PICK p \in Products : Evict(p)
      BY <1>3
    <2>2. /\ bronze' = [bronze EXCEPT ![p] = NoVersion]
          /\ lineage[p] # NoVersion /\ silver[p] # NoVersion
          /\ UNCHANGED <<silver, checkpoint, lineage, broker, delivered,
                         announced, pc, msg, cp, overwrites, crashes, faults>>
      BY <2>1 DEF Evict, nats, workers, bounds
    <2>3. TypeOK'
      <3>1. bronze' \in [Products -> MaybeVersion]
        BY <2>2 DEF TypeOK, MaybeVersion
      <3>. QED
        BY <2>2, <3>1 DEF TypeOK
    <2>4. BronzeUntilLineage'
      BY <1>1, <2>2, PreprocessorConstants DEF BronzeUntilLineage, TypeOK
    <2>5. EventsPublished' /\ AllEstablished' /\ AckedIsAnnounced'
      BY <1>1, <2>2 DEF EventsPublished, AllEstablished, Established, Product,
                        AckedIsAnnounced
    <2>. QED
      BY <2>3, <2>4, <2>5 DEF PreprocessorInv
  <1>. QED
    BY <1>2, <1>3

(* Redelivery and a crash keep the invariant: what they lose is not durable. *)
LEMMA DisruptionInv ==
    ASSUME TypeOK, PreprocessorInv,
           (\E m \in Messages : AckWaitExpires(m)) \/ Crash
    PROVE  TypeOK' /\ PreprocessorInv'
  <1>1. EventsPublished /\ BronzeUntilLineage /\ AllEstablished /\ AckedIsAnnounced
    BY DEF PreprocessorInv
  <1>2. CASE \E m \in Messages : AckWaitExpires(m)
    <2>1. PICK m \in Messages : AckWaitExpires(m)
      BY <1>2
    <2>2. /\ \/ broker' = [broker EXCEPT ![m] = "pending"]
             \/ broker' = [broker EXCEPT ![m] = "exhausted"]
          /\ broker[m] = "inflight"
          /\ UNCHANGED <<bronze, silver, checkpoint, lineage, delivered,
                         announced, pc, msg, cp, overwrites, crashes>>
          /\ Fault \/ NoFault
      BY <2>1 DEF AckWaitExpires, Requeued, objects, workers
    <2>3. TypeOK'
      <3>1. broker' \in [Messages -> BrokerStates]
        BY <2>2 DEF TypeOK, BrokerStates
      <3>. QED
        BY <2>2, <3>1, FaultTyped DEF TypeOK
    <2>4. \A k \in Messages :
            /\ broker'[k] = "unpublished" <=> broker[k] = "unpublished"
            /\ broker'[k] = "acked" => broker[k] = "acked"
      BY <2>2 DEF TypeOK
    <2>5. EventsPublished' /\ BronzeUntilLineage' /\ AckedIsAnnounced'
      BY <1>1, <2>2, <2>4
      DEF EventsPublished, BronzeUntilLineage, AckedIsAnnounced
    <2>6. AllEstablished'
      BY <1>1, <2>2 DEF AllEstablished, Established, Product
    <2>. QED
      BY <2>3, <2>5, <2>6 DEF PreprocessorInv
  <1>3. CASE Crash
    <2>1. /\ pc' = [w \in Workers |-> "idle"]
          /\ msg' = [w \in Workers |-> NoMessage]
          /\ cp' = [w \in Workers |-> NoCheckpoint]
          /\ crashes' = crashes + 1
          /\ UNCHANGED <<bronze, silver, checkpoint, lineage, broker, delivered,
                         announced, overwrites, faults>>
      BY <1>3 DEF Crash, objects, nats
    <2>2. TypeOK'
      <3>1. NoCheckpoint \in CheckpointRecord
        BY DEF NoCheckpoint, CheckpointRecord, MaybeVersion
      <3>2. /\ pc' \in [Workers -> Places]
            /\ msg' \in [Workers -> Messages \cup {NoMessage}]
            /\ cp' \in [Workers -> CheckpointRecord]
            /\ crashes' \in Nat
        BY <2>1, <3>1 DEF TypeOK, Places
      <3>. QED
        BY <2>1, <3>2 DEF TypeOK
    <2>3. BronzeUntilLineage' /\ AckedIsAnnounced'
      BY <1>1, <2>1 DEF BronzeUntilLineage, AckedIsAnnounced
    <2>4. EventsPublished' /\ AllEstablished'
      BY <2>1 DEF EventsPublished, AllEstablished, Established
    <2>. QED
      BY <2>2, <2>3, <2>4 DEF PreprocessorInv
  <1>. QED
    BY <1>2, <1>3

(* Every step keeps the invariant. *)
LEMMA NextInv == TypeOK /\ PreprocessorInv /\ [Next]_vars
                 => TypeOK' /\ PreprocessorInv'
  <1>. SUFFICES ASSUME TypeOK, PreprocessorInv, [Next]_vars
                PROVE  TypeOK' /\ PreprocessorInv'
    OBVIOUS
  <1>1. CASE Next
    BY <1>1, WorkerInv, IngesterInv, DisruptionInv DEF Next
  <1>2. CASE UNCHANGED vars
    BY <1>2 DEF vars, objects, nats, workers, bounds, TypeOK, PreprocessorInv,
                EventsPublished, BronzeUntilLineage, AllEstablished, Established,
                AckedIsAnnounced, Product
  <1>. QED
    BY <1>1, <1>2

(* The preprocessor's invariant, whatever is redelivered, duplicated, fails  *)
(* or crashes (process_message_inner).                                       *)
THEOREM PreprocessorInvariant == Spec => [](TypeOK /\ PreprocessorInv)
  BY InitType, InitInv, NextInv, PTL DEF Spec

(* Every step of a worker, the ingester and the broker keeps the types: no   *)
(* place of process_message_inner is reached with a record it does not hold. *)
THEOREM PreprocessorTypes == Spec => []TypeOK
  BY PreprocessorInvariant, PTL

(* An ACKed Bronze event has its Silver event, Silver object and checkpoint  *)
(* (the standard path and both recovery fast paths of worker/mod.rs).        *)
THEOREM AckedEventsAreAnnounced == Spec => []AckedIsAnnounced
  <1>1. TypeOK /\ PreprocessorInv => AckedIsAnnounced
    BY DEF PreprocessorInv
  <1>. QED
    BY <1>1, PreprocessorInvariant, PTL

-----------------------------------------------------------------------------
(* A worker's step is a step of the contract, or changes no product's        *)
(* standing.                                                                 *)
LEMMA WorkerContract ==
    ASSUME TypeOK, PreprocessorInv, NEW w \in Workers, WorkerStep(w)
    PROVE  [Contract!Next]_(Contract!vars)
  <1>1. EventsPublished /\ BronzeUntilLineage /\ AllEstablished
    BY DEF PreprocessorInv
  <1>2. CASE UNCHANGED <<bronze, silver, lineage>>
    BY <1>2 DEF Contract!vars, Present
  <1>3. CASE PutSilver(w) /\ silver' # silver
    <2>1. /\ silver' = [silver EXCEPT ![Product(w)] = Version(w)]
          /\ UNCHANGED <<bronze, lineage>> /\ pc[w] # "idle"
      BY <1>3 DEF PutSilver, MaybeWritten
    <2>2. /\ Product(w) \in Products /\ Version(w) \in Versions
          /\ msg[w] \in Messages /\ broker[msg[w]] # "unpublished"
          /\ Version(w) # NoVersion
      BY <1>1, <2>1, EventTyped, PreprocessorConstants DEF EventsPublished
    <2>3. Present(silver)' = Present(silver) \cup {Product(w)}
      BY <2>1, <2>2 DEF Present, TypeOK
    <2>4. Present(bronze)' = Present(bronze) /\ Present(lineage)' = Present(lineage)
      BY <2>1 DEF Present
    <2>5. Product(w) \in Present(bronze) \/ Product(w) \in Present(silver)
      BY <1>1, <2>2 DEF BronzeUntilLineage, Present, Product
    <2>6. CASE Product(w) \in Present(silver)
      BY <2>3, <2>4, <2>6 DEF Contract!vars
    <2>7. CASE Product(w) \in Present(bronze)
      BY <2>2, <2>3, <2>4, <2>7 DEF Contract!Next, Contract!StoreSilver
    <2>. QED
      BY <2>5, <2>6, <2>7
  <1>4. CASE PutLineage(w) /\ lineage' # lineage
    <2>1. /\ lineage' = [lineage EXCEPT ![Product(w)] = Version(w)]
          /\ UNCHANGED <<bronze, silver>> /\ pc[w] = "putLineage"
      BY <1>4 DEF PutLineage, MaybeWritten
    <2>2. /\ Product(w) \in Products /\ Version(w) \in Versions
          /\ msg[w] \in Messages /\ broker[msg[w]] # "unpublished"
          /\ Version(w) # NoVersion
      BY <1>1, <2>1, EventTyped, PreprocessorConstants DEF EventsPublished
    <2>3. Present(lineage)' = Present(lineage) \cup {Product(w)}
      BY <2>1, <2>2 DEF Present, TypeOK
    <2>4. Present(bronze)' = Present(bronze) /\ Present(silver)' = Present(silver)
      BY <2>1 DEF Present
    <2>5. Product(w) \in Present(silver)
      BY <1>1, <2>1, <2>2 DEF AllEstablished, Established, Present
    <2>6. Product(w) \in Present(bronze) \/ Product(w) \in Present(lineage)
      BY <1>1, <2>2 DEF BronzeUntilLineage, Present, Product
    <2>7. CASE Product(w) \in Present(lineage)
      BY <2>3, <2>4, <2>7 DEF Contract!vars
    <2>8. CASE Product(w) \in Present(bronze)
      BY <2>2, <2>3, <2>4, <2>5, <2>8 DEF Contract!Next, Contract!CommitLineage
    <2>. QED
      BY <2>6, <2>7, <2>8
  <1>5. \/ UNCHANGED <<bronze, silver, lineage>>
        \/ PutSilver(w) /\ silver' # silver
        \/ PutLineage(w) /\ lineage' # lineage
    BY DEF WorkerStep, Recover, Process, Publish, Fetch, LoadCheckpoint,
           StatSilver, Promote, Begin, Pipeline, PutSilver, Complete,
           BuildLineage, CheckLineage, PutLineage, Announce, Ack, Term, Settle,
           HandleFailure, objects
  <1>. QED
    BY <1>2, <1>3, <1>4, <1>5

(* A step of the environment is a step of the contract too. *)
LEMMA EnvironmentContract ==
    ASSUME TypeOK, PreprocessorInv,
           \/ \E m \in Messages : Ingest(m) \/ AckWaitExpires(m)
           \/ \E p \in Products : Evict(p)
           \/ Crash
    PROVE  [Contract!Next]_(Contract!vars)
  <1>1. CASE \E m \in Messages : Ingest(m)
    <2>1. PICK m \in Messages : Ingest(m)
      BY <1>1
    <2>2. ProductOf[m] \in Products /\ VersionOf[m] # NoVersion
      BY PreprocessorConstants
    <2>3. /\ Present(bronze)' = Present(bronze) \cup {ProductOf[m]}
          /\ Present(silver)' = Present(silver)
          /\ Present(lineage)' = Present(lineage)
      BY <2>1, <2>2 DEF Ingest, Present, TypeOK
    <2>. QED
      BY <2>2, <2>3 DEF Contract!Next, Contract!Ingest
  <1>2. CASE \E p \in Products : Evict(p)
    <2>1. PICK p \in Products : Evict(p)
      BY <1>2
    <2>2. /\ Present(bronze)' = Present(bronze) \ {p}
          /\ Present(silver)' = Present(silver)
          /\ Present(lineage)' = Present(lineage)
          /\ p \in Present(silver) /\ p \in Present(lineage)
          /\ p \notin NoSourceUri
      BY <2>1 DEF Evict, Present, TypeOK
    <2>. QED
      BY <2>2 DEF Contract!Next, Contract!Purge
  <1>3. CASE Crash \/ \E m \in Messages : AckWaitExpires(m)
    BY <1>3 DEF Crash, AckWaitExpires, objects, Contract!vars, Present
  <1>. QED
    BY <1>1, <1>2, <1>3

(* The preprocessor implements the pipeline's contract: no lineage record,   *)
(* and so no permission to evict, without a stored Silver object made from   *)
(* Bronze data that was still there (worker/mod.rs, domain/lineage.rs).      *)
THEOREM PreprocessorKeepsContract == Spec => ImplementsMedallion
  <1>1. Init => Contract!Init
    BY DEF Init, Contract!Init, Present
  <1>2. TypeOK /\ PreprocessorInv /\ [Next]_vars => [Contract!Next]_(Contract!vars)
    <2>. SUFFICES ASSUME TypeOK, PreprocessorInv, [Next]_vars
                  PROVE  [Contract!Next]_(Contract!vars)
      OBVIOUS
    <2>1. CASE Next
      BY <2>1, WorkerContract, EnvironmentContract DEF Next
    <2>2. CASE UNCHANGED vars
      BY <2>2 DEF vars, objects, Contract!vars, Present
    <2>. QED
      BY <2>1, <2>2
  <1>. QED
    BY <1>1, <1>2, PreprocessorInvariant, PTL
    DEF Spec, ImplementsMedallion, Contract!Spec

-----------------------------------------------------------------------------
(* Load, compare and put of LineageRecord::commit are separate calls.  What  *)
(* makes them safe together is that the Bronze object stays what it is until *)
(* a record is committed: all workers that are past the pipeline have read   *)
(* the same content, and one that is about to put a record puts the one that *)
(* is there, if there is one.                                                *)
PastPipeline == {"put", "complete", "build", "commit", "putLineage"}

OneContent(w) ==
    pc[w] \in PastPipeline =>
        IF lineage[Product(w)] = NoVersion THEN bronze[Product(w)] = Version(w)
        ELSE pc[w] = "putLineage" => lineage[Product(w)] = Version(w)

LineageInv ==
    /\ overwrites <= MaxOverwrites
    /\ overwrites = 0 => \A w \in Workers : OneContent(w)

(* What a step of a worker does that is not the put of a record. *)
LEMMA NoRecordPut ==
    ASSUME TypeOK, PreprocessorInv, NEW w \in Workers, WorkerStep(w), ~PutLineage(w), OneContent(w)
    PROVE  lineage' = lineage /\ overwrites' = overwrites /\ OneContent(w)'
  <1>1. EventsPublished /\ AllEstablished
    BY DEF PreprocessorInv
  <1>2. Frame(w)
    BY <1>1, WorkerSound DEF Sound
  <1>3. bronze' = bronze
    BY <1>2 DEF Frame
  <1>4. pc \in [Workers -> Places] /\ msg \in [Workers -> Messages \cup {NoMessage}]
    BY DEF TypeOK
  <1> USE <1>3, <1>4 DEF OneContent, PastPipeline, Product, Version, Goto, objects, nats, bounds
  <1>5. CASE Fetch(w)
    BY <1>5 DEF Fetch
  <1>6. CASE LoadCheckpoint(w) \/ StatSilver(w)
    BY <1>6 DEF LoadCheckpoint, StatSilver, Fails
  <1>7. CASE Promote(w)
    BY <1>7 DEF Promote, Nak, Finish
  <1>8. CASE Begin(w)
    BY <1>8 DEF Begin, Fails
  <1>9. CASE Pipeline(w)
    BY <1>9 DEF Pipeline, Fails
  <1>10. CASE PutSilver(w)
    BY <1>10 DEF PutSilver, Fails
  <1>11. CASE Complete(w)
    BY <1>11 DEF Complete, Nak, Finish
  <1>12. CASE BuildLineage(w)
    BY <1>12 DEF BuildLineage, Nak, Finish
  <1>13. CASE CheckLineage(w)
    BY <1>13 DEF CheckLineage, Nak, Finish
  <1>14. CASE Announce(w)
    BY <1>14 DEF Announce, Nak, Finish
  <1>15. CASE Ack(w) \/ Term(w)
    BY <1>15 DEF Ack, Term, Settle, Finish
  <1>16. CASE HandleFailure(w)
    BY <1>16 DEF HandleFailure, Nak, Finish
  <1> QED BY <1>5, <1>6, <1>7, <1>8, <1>9, <1>10, <1>11, <1>12, <1>13, <1>14, <1>15, <1>16
          DEF WorkerStep, Recover, Process, Publish

(* The put of a record: whoever else is about to put one puts the same. *)
LEMMA RecordPut ==
    ASSUME TypeOK, PreprocessorInv, NEW w \in Workers, PutLineage(w),
           \A x \in Workers : OneContent(x)
    PROVE  /\ \A x \in Workers : OneContent(x)'
           /\ \A p \in Products : lineage[p] # NoVersion => lineage'[p] = lineage[p]
           /\ overwrites' = overwrites
  <1> DEFINE p == Product(w)
             v == Version(w)
  <1>1. EventsPublished /\ AllEstablished /\ pc[w] = "putLineage"
    BY DEF PreprocessorInv, PutLineage
  <1>2. p \in Products /\ v \in Versions /\ v # NoVersion
    BY <1>1, EventTyped, PreprocessorConstants
  <1>3. Frame(w)
    BY <1>1, WorkerSound DEF Sound, WorkerStep, Publish
  <1>4. /\ bronze' = bronze
        /\ \A x \in Workers \ {w} : pc'[x] = pc[x] /\ msg'[x] = msg[x]
    BY <1>3 DEF Frame
  <1>5. /\ lineage' = lineage \/ lineage' = [lineage EXCEPT ![p] = v]
        /\ pc'[w] \in {"announce", "idle"} /\ overwrites' = overwrites
    BY DEF PutLineage, MaybeWritten, Nak, Finish, Goto, TypeOK
  <1>6. IF lineage[p] = NoVersion THEN bronze[p] = v ELSE lineage[p] = v
    BY <1>1 DEF OneContent, PastPipeline
  <1>7. lineage \in [Products -> MaybeVersion]
    BY DEF TypeOK
  <1>8. \A q \in Products : lineage[q] # NoVersion => lineage'[q] = lineage[q]
    <2> HIDE DEF p, v
    <2> QED BY <1>2, <1>5, <1>6, <1>7
  <1>9. ASSUME NEW x \in Workers PROVE OneContent(x)'
    <2>1. CASE x = w
      BY <1>5, <2>1 DEF OneContent, PastPipeline
    <2>2. CASE x # w /\ pc[x] \in PastPipeline
      <3>1. pc'[x] = pc[x] /\ msg'[x] = msg[x]
        BY <1>4, <2>2
      <3>2. Product(x)' = Product(x) /\ Version(x)' = Version(x)
        BY <3>1 DEF Product, Version
      <3>3. Product(x) \in Products
        BY <1>1, <2>2, EventTyped DEF PastPipeline
      <3>4. IF lineage[Product(x)] = NoVersion THEN bronze[Product(x)] = Version(x)
            ELSE pc[x] = "putLineage" => lineage[Product(x)] = Version(x)
        BY <2>2 DEF OneContent
      <3> DEFINE px == Product(x)
                 vx == Version(x)
      <3> HIDE DEF p, v, px, vx
      <3>5. IF lineage'[px] = NoVersion THEN bronze'[px] = vx
            ELSE pc[x] = "putLineage" => lineage'[px] = vx
        <4>1. IF lineage[px] = NoVersion THEN bronze[px] = vx
              ELSE pc[x] = "putLineage" => lineage[px] = vx
          BY <3>4 DEF px, vx
        <4>2. px \in Products
          BY <3>3 DEF px
        <4> QED BY <1>2, <1>4, <1>5, <1>6, <1>7, <4>1, <4>2
      <3> QED BY <3>1, <3>2, <3>5 DEF OneContent, px, vx
    <2>3. CASE x # w /\ pc[x] \notin PastPipeline
      BY <1>4, <2>3 DEF OneContent
    <2> QED BY <2>1, <2>2, <2>3
  <1> QED BY <1>5, <1>8, <1>9

(* A step keeps every committed record as long as nothing is replaced. *)
RecordsStand == \A p \in Products : lineage[p] # NoVersion => lineage'[p] = lineage[p]

LEMMA WorkerLineage ==
    ASSUME TypeOK, PreprocessorInv, LineageInv, NEW w \in Workers, WorkerStep(w)
    PROVE  LineageInv' /\ (overwrites' = 0 => RecordsStand)
  <1>1. CASE overwrites = 0
    <2>1. \A x \in Workers : OneContent(x)
      BY <1>1 DEF LineageInv
    <2>2. CASE PutLineage(w)
      BY <2>1, <2>2, RecordPut DEF LineageInv, RecordsStand
    <2>3. CASE ~PutLineage(w)
      <3>1. lineage' = lineage /\ overwrites' = overwrites /\ OneContent(w)'
        BY <2>1, <2>3, NoRecordPut
      <3>2. Frame(w)
        BY WorkerSound DEF Sound, PreprocessorInv
      <3>3. ASSUME NEW x \in Workers \ {w} PROVE OneContent(x)'
        <4>1. pc'[x] = pc[x] /\ msg'[x] = msg[x] /\ bronze' = bronze
          BY <3>2 DEF Frame
        <4>2. OneContent(x)
          BY <2>1
        <4> QED BY <3>1, <4>1, <4>2 DEF OneContent, Product, Version
      <3> QED BY <3>1, <3>3 DEF LineageInv, RecordsStand
    <2> QED BY <2>2, <2>3
  <1>2. CASE overwrites # 0
    <2>1. overwrites' = overwrites
      BY DEF WorkerStep, Recover, Process, Publish, Fetch, LoadCheckpoint, StatSilver, Promote,
             Begin, Pipeline, PutSilver, Complete, BuildLineage, CheckLineage, PutLineage, Announce,
             Ack, Term, Settle, HandleFailure, bounds
    <2> QED BY <1>2, <2>1 DEF LineageInv
  <1> QED BY <1>1, <1>2

(* Neither does the ingester, an eviction, the broker or a crash change one, *)
(* and the ingester replaces no content that a worker has read.              *)
LEMMA EnvironmentLineage ==
    ASSUME TypeOK, PreprocessorInv, LineageInv,
           \/ \E m \in Messages : Ingest(m) \/ AckWaitExpires(m)
           \/ \E p \in Products : Evict(p)
           \/ Crash
           \/ UNCHANGED vars
    PROVE  LineageInv' /\ (overwrites' = 0 => RecordsStand)
  <1>1. CASE \E m \in Messages : Ingest(m)
    <2>1. PICK m \in Messages : Ingest(m)
      BY <1>1
    <2> DEFINE p == ProductOf[m]
    <2>2. /\ p \in Products /\ VersionOf[m] \in Versions /\ overwrites \in Nat
          /\ MaxOverwrites \in Nat /\ bronze \in [Products -> MaybeVersion]
      BY PreprocessorConstants DEF TypeOK
    <2>3. /\ bronze' = [bronze EXCEPT ![p] = VersionOf[m]]
          /\ UNCHANGED <<lineage, pc, msg>>
          /\ IF bronze[p] \in {NoVersion, VersionOf[m]} THEN overwrites' = overwrites
             ELSE overwrites < MaxOverwrites /\ overwrites' = overwrites + 1
      BY <2>1 DEF Ingest, workers
    <2> HIDE DEF p
    <2>4. overwrites' <= MaxOverwrites
      BY <2>2, <2>3 DEF LineageInv
    <2>5. ASSUME overwrites' = 0, NEW w \in Workers PROVE OneContent(w)'
      <3>1. overwrites = 0 /\ bronze[p] \in {NoVersion, VersionOf[m]}
        BY <2>2, <2>3, <2>5
      <3>2. OneContent(w)
        BY <3>1 DEF LineageInv
      <3>3. CASE pc[w] \in PastPipeline
        <4>1. Product(w) \in Products /\ Version(w) \in Versions /\ Version(w) # NoVersion
          BY <3>3, EventTyped, PreprocessorConstants DEF PastPipeline, PreprocessorInv
        <4>2. Product(w)' = Product(w) /\ Version(w)' = Version(w)
          BY <2>3 DEF Product, Version
        <4>3. lineage[Product(w)] = NoVersion =>
                 bronze[Product(w)] = Version(w) /\ bronze'[Product(w)] = Version(w)
          BY <2>2, <2>3, <3>1, <3>2, <3>3, <4>1 DEF OneContent
        <4> QED BY <2>3, <3>2, <3>3, <4>2, <4>3 DEF OneContent
      <3>4. CASE pc[w] \notin PastPipeline
        BY <2>3, <3>4 DEF OneContent
      <3> QED BY <3>3, <3>4
    <2> QED BY <2>3, <2>4, <2>5 DEF LineageInv, RecordsStand
  <1>2. CASE \E p \in Products : Evict(p)
    <2>1. PICK p \in Products : Evict(p)
      BY <1>2
    <2>2. /\ bronze' = [bronze EXCEPT ![p] = NoVersion] /\ lineage[p] # NoVersion
          /\ UNCHANGED <<lineage, pc, msg, overwrites>> /\ bronze \in [Products -> MaybeVersion]
      BY <2>1 DEF Evict, workers, bounds, TypeOK
    <2>3. ASSUME overwrites = 0, NEW w \in Workers PROVE OneContent(w)'
      <3>1. OneContent(w) /\ Product(w)' = Product(w) /\ Version(w)' = Version(w)
        BY <2>2, <2>3 DEF LineageInv, Product, Version
      <3>2. lineage[Product(w)] = NoVersion => bronze'[Product(w)] = bronze[Product(w)]
        BY <2>2
      <3> QED BY <2>2, <3>1, <3>2 DEF OneContent
    <2> QED BY <2>2, <2>3 DEF LineageInv, RecordsStand
  <1>3. CASE Crash
    <2>1. \A w \in Workers : OneContent(w)'
      BY <1>3 DEF Crash, OneContent, PastPipeline
    <2> QED BY <1>3, <2>1 DEF Crash, objects, LineageInv, RecordsStand
  <1>4. CASE (\E m \in Messages : AckWaitExpires(m)) \/ UNCHANGED vars
    <2>1. UNCHANGED <<bronze, lineage, pc, msg, overwrites>>
      BY <1>4 DEF AckWaitExpires, vars, objects, workers, bounds
    <2>2. ASSUME NEW w \in Workers, OneContent(w) PROVE OneContent(w)'
      BY <2>1, <2>2 DEF OneContent, Product, Version
    <2> QED BY <2>1, <2>2 DEF LineageInv, RecordsStand
  <1> QED BY <1>1, <1>2, <1>3, <1>4

LEMMA LineageStep ==
    TypeOK /\ PreprocessorInv /\ LineageInv /\ [Next]_vars
        => LineageInv' /\ (overwrites' = 0 => RecordsStand)
  BY WorkerLineage, EnvironmentLineage DEF Next

LEMMA LineageAlways == Spec => []LineageInv
  <1>1. Init => LineageInv
    BY PreprocessorConstants DEF Init, LineageInv, OneContent, PastPipeline
  <1> QED BY <1>1, LineageStep, PreprocessorInvariant, PTL DEF Spec

(* As long as no Bronze object has been replaced in place, no committed      *)
(* lineage record changes, however the loads, compares and puts of workers   *)
(* with duplicates of an event, or with events of other content, interleave  *)
(* (LineageRecord::commit, domain/lineage.rs).                               *)
THEOREM LineageStands == Spec => [][overwrites' = 0 => RecordsStand]_vars
  BY LineageStep, LineageAlways, PreprocessorInvariant, PTL DEF Spec

(* An ingester whose stats do not fail replaces nothing, and then committed  *)
(* lineage is immutable.                                                     *)
THEOREM LineageIsImmutable ==
    ASSUME MaxOverwrites = 0
    PROVE  Spec => LineageImmutable
  <1>1. TypeOK /\ LineageInv => overwrites = 0
    BY DEF TypeOK, LineageInv
  <1>2. (overwrites = 0)' /\ [overwrites' = 0 => RecordsStand]_vars =>
           [\A p \in Products : lineage[p] # NoVersion => lineage'[p] = lineage[p]]_vars
    BY DEF RecordsStand
  <1> QED BY <1>1, <1>2, LineageStands, LineageAlways, PreprocessorInvariant, PTL DEF LineageImmutable

=============================================================================
