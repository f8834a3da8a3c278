----------------------------- MODULE Preprocessor -----------------------------
(***************************************************************************)
(* The worker pool of rust-preprocessor (worker/mod.rs, worker/recovery.rs,*)
(* worker/pool.rs): Bronze events delivered at least once by a JetStream   *)
(* pull consumer are turned into Silver objects, preprocessing checkpoints,*)
(* lineage records and Silver events.  One step is one call to MinIO or    *)
(* NATS, so that two workers with events of one product interleave between *)
(* any two calls, and the process may die there.                           *)
(*                                                                         *)
(* A "version" stands for the content of a product's FITS file (its SHA-256*)
(* in the event); the Silver object made from it is named by it too, since *)
(* preprocessing is deterministic.  All versions of a product share the    *)
(* Bronze key, the Silver key, the checkpoint and the lineage record.      *)
(***************************************************************************)
EXTENDS Integers, FiniteSets

CONSTANTS
    Workers, Products, Versions,
    Messages,       \* the Bronze events that may be published
    NoMessage, NoVersion,
    ProductOf, VersionOf,   \* what each event announces
    Malformed,      \* events that do not decode
    Rejected,       \* versions the scientific pipeline refuses for good
    NoSourceUri,    \* products stored without a source-uri: never evictable
    SilverSize,     \* bytes of the Silver object made from a version
    MaxDeliver,     \* max_deliver of the consumer
    MaxOverwrites,  \* bound: Bronze objects replaced in place
    MaxCrashes,     \* bound: crashes of the preprocessor
    MaxFaults       \* bound: failing calls and missed ack deadlines

ASSUME PreprocessorConstants ==
    /\ NoMessage \notin Messages /\ NoVersion \notin Versions
    /\ ProductOf \in [Messages -> Products]
    /\ VersionOf \in [Messages -> Versions]
    /\ Malformed \in SUBSET Messages /\ Rejected \in SUBSET Versions
    /\ NoSourceUri \in SUBSET Products
    /\ SilverSize \in [Versions -> Nat]
    /\ MaxDeliver \in Nat /\ MaxOverwrites \in Nat /\ MaxCrashes \in Nat
    /\ MaxFaults \in Nat

VARIABLES
    bronze,         \* version of each Bronze object, NoVersion when absent
    silver,         \* version of each Silver object, NoVersion when absent
    checkpoint,     \* PreprocessingCheckpoint of each product
    lineage,        \* version that the lineage record describes
    broker,         \* state of each event at the consumer
    delivered,      \* how often it was delivered
    announced,      \* Silver events: <<Bronze event, Silver version>>
    pc, msg, cp,    \* each worker: where it is, its event, its checkpoint copy
    overwrites, crashes, faults

objects == <<bronze, silver, checkpoint, lineage>>
nats == <<broker, delivered, announced>>
workers == <<pc, msg, cp>>
bounds == <<overwrites, crashes, faults>>
vars == <<objects, nats, workers, bounds>>

MaybeVersion == Versions \cup {NoVersion}
CheckpointRecord ==
    [state : {"NONE", "PROCESSING", "COMPLETED", "FAILED"},
     sha : MaybeVersion, silver : MaybeVersion, terminal : BOOLEAN]
BrokerStates == {"unpublished", "pending", "inflight", "acked", "termed",
                 "exhausted"}
Places == {"idle", "load", "stat", "promote", "begin", "pipeline", "put",
           "complete", "build", "commit", "putLineage", "announce", "ack",
           "fail", "term"}

TypeOK ==
    /\ bronze \in [Products -> MaybeVersion]
    /\ silver \in [Products -> MaybeVersion]
    /\ checkpoint \in [Products -> CheckpointRecord]
    /\ lineage \in [Products -> MaybeVersion]
    /\ broker \in [Messages -> BrokerStates]
    /\ delivered \in [Messages -> Nat]
    /\ announced \in SUBSET (Messages \X MaybeVersion)
    /\ pc \in [Workers -> Places]
    /\ msg \in [Workers -> Messages \cup {NoMessage}]
    /\ cp \in [Workers -> CheckpointRecord]
    /\ overwrites \in Nat /\ crashes \in Nat /\ faults \in Nat

-----------------------------------------------------------------------------
(* The checkpoint record. *)

NoCheckpoint == [state |-> "NONE", sha |-> NoVersion, silver |-> NoVersion,
                 terminal |-> FALSE]

(* PreprocessingCheckpoint::new *)
NewCheckpoint(v) == [state |-> "PROCESSING", sha |-> v, silver |-> NoVersion,
                     terminal |-> FALSE]

(* The standard path keeps every field of an existing record but the state. *)
Restarted(c) == [c EXCEPT !.state = "PROCESSING"]

(* mark_silver_stored, then mark_completed: one save for both. *)
Stored(c, v) == [c EXCEPT !.silver = v, !.state = "COMPLETED"]

Promoted(c) == [c EXCEPT !.state = "COMPLETED"]

(* Mistake: a state that no reader of the checkpoint knows. *)
FailedUnknown(c, terminal) ==
    [c EXCEPT !.state = "REJECTED", !.terminal = @ \/ terminal]

(* mark_classified_failure, and mark_terminal for a failure beyond retry. *)
Failed(c, terminal) ==
    [c EXCEPT !.state = "FAILED", !.terminal = @ \/ terminal]

(* stat_object finds an object of the recorded size; content is not compared. *)
SilverVerified(p, c) ==
    /\ c.silver # NoVersion
    /\ silver[p] # NoVersion
    /\ SilverSize[silver[p]] = SilverSize[c.silver]

Fault == faults < MaxFaults /\ faults' = faults + 1
NoFault == UNCHANGED faults

(* A write whose call fails may have been applied or not. *)
MaybeWritten(var, updated) == {var, updated}

-----------------------------------------------------------------------------
Init ==
    /\ bronze = [p \in Products |-> NoVersion]
    /\ silver = [p \in Products |-> NoVersion]
    /\ checkpoint = [p \in Products |-> NoCheckpoint]
    /\ lineage = [p \in Products |-> NoVersion]
    /\ broker = [m \in Messages |-> "unpublished"]
    /\ delivered = [m \in Messages |-> 0]
    /\ announced = {}
    /\ pc = [w \in Workers |-> "idle"]
    /\ msg = [w \in Workers |-> NoMessage]
    /\ cp = [w \in Workers |-> NoCheckpoint]
    /\ overwrites = 0 /\ crashes = 0 /\ faults = 0

-----------------------------------------------------------------------------
(* go-ingester.  It downloads a product it does not find and announces one   *)
(* it finds; only a failing stat makes it replace an object in place.        *)
Ingest(m) ==
    LET p == ProductOf[m] IN
    /\ broker[m] = "unpublished"
    /\ IF bronze[p] \in {NoVersion, VersionOf[m]}
       THEN UNCHANGED overwrites
       ELSE overwrites < MaxOverwrites /\ overwrites' = overwrites + 1
    /\ bronze' = [bronze EXCEPT ![p] = VersionOf[m]]
    /\ broker' = [broker EXCEPT ![m] = "pending"]
    /\ UNCHANGED <<silver, checkpoint, lineage, delivered, announced, workers,
                   crashes, faults>>

(* The lifecycle manager evicts what lineage and Silver allow it to. *)
Evict(p) ==
    /\ bronze[p] # NoVersion
    /\ lineage[p] # NoVersion
    /\ silver[p] # NoVersion
    /\ p \notin NoSourceUri
    /\ bronze' = [bronze EXCEPT ![p] = NoVersion]
    /\ UNCHANGED <<silver, checkpoint, lineage, nats, workers, bounds>>

-----------------------------------------------------------------------------
(* JetStream, as the consumer is configured: explicit acks and max_deliver.  *)

(* Mistake: the last delivery is not made. *)
RequeuedTooFew(m) ==
    IF delivered[m] < MaxDeliver - 1 THEN "pending" ELSE "exhausted"

(* What becomes of an event that is neither acked nor termed. *)
Requeued(m) == IF delivered[m] < MaxDeliver THEN "pending" ELSE "exhausted"

(* An event whose worker is gone is redelivered; one that still has a worker *)
(* only when the worker's progress acks do not reach the server in time.     *)
AckWaitExpires(m) ==
    /\ broker[m] = "inflight"
    /\ IF \E w \in Workers : msg[w] = m THEN Fault ELSE NoFault
    /\ broker' = [broker EXCEPT ![m] = Requeued(m)]
    /\ UNCHANGED <<objects, delivered, announced, workers, overwrites, crashes>>

-----------------------------------------------------------------------------
Product(w) == ProductOf[msg[w]]
Version(w) == VersionOf[msg[w]]
Goto(w, place) == pc' = [pc EXCEPT ![w] = place]
Keep(w, c) == cp' = [cp EXCEPT ![w] = c]
Save(p, c) == [checkpoint EXCEPT ![p] = c]

(* The task ends and its worker slot is free again. *)
Finish(w) == /\ Goto(w, "idle")
             /\ msg' = [msg EXCEPT ![w] = NoMessage]
             /\ Keep(w, NoCheckpoint)

(* A NAK that gets lost has the same effect once the ack wait is over. *)
Nak(w) ==
    /\ broker' = IF broker[msg[w]] = "inflight"
                 THEN [broker EXCEPT ![msg[w]] = Requeued(msg[w])] ELSE broker
    /\ Finish(w)

(* handle_failure is entered with the record that it is going to save. *)
Fails(w, c, terminal) == Goto(w, "fail") /\ Keep(w, Failed(c, terminal))

(* run_pool hands a delivered event to a free worker. *)
Fetch(w) ==
    /\ pc[w] = "idle"
    /\ \E m \in Messages :
        /\ broker[m] = "pending"
        /\ broker' = [broker EXCEPT ![m] = "inflight"]
        /\ delivered' = [delivered EXCEPT ![m] = @ + 1]
        /\ msg' = [msg EXCEPT ![w] = m]
        /\ Goto(w, IF m \in Malformed THEN "term" ELSE "load")
    /\ UNCHANGED <<objects, announced, cp, bounds>>

(* evaluate_recovery up to the stat of the Silver object. *)
LoadCheckpoint(w) ==
    LET c == checkpoint[Product(w)] IN
    /\ pc[w] = "load"
    /\ \/ /\ NoFault
          /\ Keep(w, c)
          /\ Goto(w, IF c.terminal THEN "term"
                     ELSE IF c.state \in {"COMPLETED", "PROCESSING"}
                             /\ c.sha = Version(w) THEN "stat"
                     ELSE "begin")
       \/ Fault /\ Fails(w, NewCheckpoint(Version(w)), FALSE)
    /\ UNCHANGED <<objects, nats, msg, overwrites, crashes>>

(* A failing stat counts as a missing Silver object. *)
StatSilver(w) ==
    /\ pc[w] = "stat"
    /\ \/ /\ NoFault
          /\ Goto(w, IF ~SilverVerified(Product(w), cp[w]) THEN "begin"
                     ELSE IF cp[w].state = "COMPLETED" THEN "announce"
                     ELSE "promote")
       \/ Fault /\ Goto(w, "begin")
    /\ UNCHANGED <<objects, nats, msg, cp, overwrites, crashes>>

(* VerifySilver: the checkpoint becomes COMPLETED. *)
Promote(w) ==
    /\ pc[w] = "promote"
    /\ LET saved == Save(Product(w), Promoted(cp[w]))
       IN \/ /\ NoFault /\ checkpoint' = saved
             /\ Keep(w, Promoted(cp[w])) /\ Goto(w, "announce")
             /\ UNCHANGED <<broker, msg>>
          \/ Fault /\ checkpoint' \in MaybeWritten(checkpoint, saved) /\ Nak(w)
    /\ UNCHANGED <<bronze, silver, lineage, delivered, announced,
                   overwrites, crashes>>

(* Mistake: the work starts without a saved PROCESSING checkpoint. *)
BeginUnsaved(w) ==
    LET c == IF cp[w].state = "NONE" THEN NewCheckpoint(Version(w))
                                     ELSE Restarted(cp[w])
    IN /\ pc[w] = "begin"
       /\ Keep(w, c)
       /\ Goto(w, "pipeline")
       /\ UNCHANGED <<objects, nats, msg, bounds>>

(* The standard path: PROCESSING is saved before any work. *)
Begin(w) ==
    LET c == IF cp[w].state = "NONE" THEN NewCheckpoint(Version(w))
                                     ELSE Restarted(cp[w])
        saved == Save(Product(w), c)
    IN /\ pc[w] = "begin"
       /\ \/ NoFault /\ checkpoint' = saved /\ Keep(w, c) /\ Goto(w, "pipeline")
          \/ /\ Fault /\ checkpoint' \in MaybeWritten(checkpoint, saved)
             /\ Fails(w, c, FALSE)
       /\ UNCHANGED <<bronze, silver, lineage, nats, msg, overwrites, crashes>>

(* execute_item_pipeline with classify_pipeline_error: a missing Bronze      *)
(* object and any I/O failure are retried, other content than the event's    *)
(* and a scientific rejection are final.                                     *)
Pipeline(w) ==
    LET found == bronze[Product(w)] IN
    /\ pc[w] = "pipeline"
    /\ \/ /\ NoFault
          /\ found = Version(w) /\ found \notin Rejected
          /\ Goto(w, "put") /\ UNCHANGED cp
       \/ NoFault /\ found = NoVersion /\ Fails(w, cp[w], FALSE)
       \/ /\ NoFault
          /\ found # NoVersion /\ (found # Version(w) \/ found \in Rejected)
          /\ Fails(w, cp[w], TRUE)
       \/ Fault /\ Fails(w, cp[w], FALSE)
    /\ UNCHANGED <<objects, nats, msg, overwrites, crashes>>

(* Mistake: the result of the upload is not looked at. *)
PutSilverUnverified(w) ==
    /\ pc[w] = "put"
    /\ LET stored == [silver EXCEPT ![Product(w)] = Version(w)]
       IN \/ NoFault /\ silver' = stored
          \/ Fault /\ silver' \in MaybeWritten(silver, stored)
    /\ Goto(w, "complete")
    /\ UNCHANGED <<bronze, checkpoint, lineage, nats, msg, cp, overwrites,
                   crashes>>

(* put_file_and_verify under the product's one Silver key. *)
PutSilver(w) ==
    /\ pc[w] = "put"
    /\ LET stored == [silver EXCEPT ![Product(w)] = Version(w)]
       IN \/ NoFault /\ silver' = stored /\ Goto(w, "complete") /\ UNCHANGED cp
          \/ /\ Fault /\ silver' \in MaybeWritten(silver, stored)
             /\ Fails(w, cp[w], FALSE)
    /\ UNCHANGED <<bronze, checkpoint, lineage, nats, msg, overwrites, crashes>>

(* The COMPLETED checkpoint, with the Silver fields. *)
Complete(w) ==
    /\ pc[w] = "complete"
    /\ LET c == Stored(cp[w], Version(w))
           saved == Save(Product(w), c)
       IN \/ /\ NoFault /\ checkpoint' = saved
             /\ Keep(w, c) /\ Goto(w, "build")
             /\ UNCHANGED <<broker, msg>>
          \/ Fault /\ checkpoint' \in MaybeWritten(checkpoint, saved) /\ Nak(w)
    /\ UNCHANGED <<bronze, silver, lineage, delivered, announced,
                   overwrites, crashes>>

(* build_lineage_record reads the metadata of the Bronze object. *)
BuildLineage(w) ==
    /\ pc[w] = "build"
    /\ \/ /\ NoFault /\ bronze[Product(w)] # NoVersion
          /\ Goto(w, "commit") /\ UNCHANGED <<broker, msg, cp>>
       \/ NoFault /\ bronze[Product(w)] = NoVersion /\ Nak(w)
       \/ Fault /\ Nak(w)
    /\ UNCHANGED <<objects, delivered, announced, overwrites, crashes>>

(* Mistakes: an existing record is taken as the end of the work, or any      *)
(* record is replaced.                                                       *)
CheckLineageAcks(w) ==
    /\ pc[w] = "commit"
    /\ Goto(w, IF lineage[Product(w)] = NoVersion THEN "putLineage" ELSE "ack")
    /\ UNCHANGED <<objects, nats, msg, cp, bounds>>

CheckLineageReplaces(w) ==
    /\ pc[w] = "commit"
    /\ Goto(w, IF lineage[Product(w)] = Version(w) THEN "announce"
               ELSE "putLineage")
    /\ UNCHANGED <<objects, nats, msg, cp, bounds>>

(* LineageRecord::commit looks for an existing record first ... *)
CheckLineage(w) ==
    LET existing == lineage[Product(w)] IN
    /\ pc[w] = "commit"
    /\ \/ /\ NoFault
          /\ Goto(w, IF existing = NoVersion THEN "putLineage"
                     ELSE IF existing = Version(w) THEN "announce"
                     ELSE "term")
          /\ UNCHANGED <<broker, msg, cp>>
       \/ Fault /\ Nak(w)
    /\ UNCHANGED <<objects, delivered, announced, overwrites, crashes>>

(* ... and puts its own when there was none. *)
PutLineage(w) ==
    /\ pc[w] = "putLineage"
    /\ LET committed == [lineage EXCEPT ![Product(w)] = Version(w)]
       IN \/ /\ NoFault /\ lineage' = committed
             /\ Goto(w, "announce") /\ UNCHANGED <<broker, msg, cp>>
          \/ Fault /\ lineage' \in MaybeWritten(lineage, committed) /\ Nak(w)
    /\ UNCHANGED <<bronze, silver, checkpoint, delivered, announced,
                   overwrites, crashes>>

(* publish_silver_event, built from the event and the checkpoint's Silver. *)
Announce(w) ==
    /\ pc[w] = "announce"
    /\ LET published == announced \cup {<<msg[w], cp[w].silver>>}
       IN \/ /\ NoFault /\ announced' = published
             /\ Goto(w, "ack") /\ UNCHANGED <<broker, msg, cp>>
          \/ Fault /\ announced' \in MaybeWritten(announced, published) /\ Nak(w)
    /\ UNCHANGED <<objects, delivered, overwrites, crashes>>

(* The broker forgets an event; what it hears of a settled one is ignored. *)
Settle(w, state) ==
    /\ \/ /\ NoFault
          /\ broker' = IF broker[msg[w]] \in {"pending", "inflight"}
                       THEN [broker EXCEPT ![msg[w]] = state] ELSE broker
       \/ Fault /\ UNCHANGED broker
    /\ Finish(w)
    /\ UNCHANGED <<objects, delivered, announced, overwrites, crashes>>

Ack(w) == pc[w] = "ack" /\ Settle(w, "acked")

Term(w) == pc[w] = "term" /\ Settle(w, "termed")

(* handle_failure: the record is persisted before any broker action. *)
HandleFailure(w) ==
    /\ pc[w] = "fail"
    /\ LET saved == Save(Product(w), cp[w])
       IN \/ /\ NoFault /\ checkpoint' = saved
             /\ IF cp[w].terminal
                THEN Goto(w, "term") /\ UNCHANGED <<broker, msg, cp>>
                ELSE Nak(w)
          \/ Fault /\ checkpoint' \in MaybeWritten(checkpoint, saved) /\ Nak(w)
    /\ UNCHANGED <<bronze, silver, lineage, delivered, announced,
                   overwrites, crashes>>

(* The process dies with all its tasks. *)
Crash ==
    /\ crashes < MaxCrashes
    /\ crashes' = crashes + 1
    /\ pc' = [w \in Workers |-> "idle"]
    /\ msg' = [w \in Workers |-> NoMessage]
    /\ cp' = [w \in Workers |-> NoCheckpoint]
    /\ UNCHANGED <<objects, nats, overwrites, faults>>

-----------------------------------------------------------------------------
Recover(w) == LoadCheckpoint(w) \/ StatSilver(w) \/ Promote(w)

Process(w) == Begin(w) \/ Pipeline(w) \/ PutSilver(w) \/ Complete(w)

Publish(w) == BuildLineage(w) \/ CheckLineage(w) \/ PutLineage(w)
              \/ Announce(w) \/ Ack(w)

WorkerStep(w) == Fetch(w) \/ Recover(w) \/ Process(w) \/ Publish(w)
                 \/ HandleFailure(w) \/ Term(w)

Next ==
    \/ \E w \in Workers : WorkerStep(w)
    \/ \E m \in Messages : Ingest(m) \/ AckWaitExpires(m)
    \/ \E p \in Products : Evict(p)
    \/ Crash

Spec == Init /\ [][Next]_vars

(* The tasks run, the pool keeps fetching, and JetStream redelivers what no  *)
(* worker has any more.                                                      *)
Fairness ==
    /\ \A w \in Workers : WF_vars(WorkerStep(w))
    /\ \A m \in Messages :
        WF_vars(AckWaitExpires(m) /\ \A w \in Workers : msg[w] # m)

FairSpec == Spec /\ Fairness

-----------------------------------------------------------------------------
(* The durable objects of the preprocessor and its neighbour, seen as the    *)
(* pipeline's contract.                                                      *)
Present(objs) == {p \in Products : objs[p] # NoVersion}

Contract == INSTANCE Medallion
    WITH Pinned <- NoSourceUri, raw <- Present(bronze),
         silver <- Present(silver), lineage <- Present(lineage)

(* The preprocessor keeps its part of the contract: whatever is redelivered, *)
(* duplicated, failing or crashing, a lineage record, which is what allows   *)
(* the ingester to evict, is only ever committed for a stored Silver object. *)
ImplementsMedallion == Contract!Spec

(* "This prevents downstream consumers from missing a valid Silver artifact":*)
(* a Bronze event that was ACKed has a Silver event, and its Silver object   *)
(* and checkpoint are durable, on the standard path and on both fast paths.  *)
AckedIsAnnounced ==
    \A m \in Messages : broker[m] = "acked" =>
        /\ \E v \in Versions : <<m, v>> \in announced
        /\ silver[ProductOf[m]] # NoVersion
        /\ checkpoint[ProductOf[m]] # NoCheckpoint

(* "The Bronze message is ACKed only after Silver durability, checkpoint,    *)
(* lineage, and Silver-event publication succeed."                           *)
AckedHasLineage ==
    \A m \in Messages : broker[m] = "acked" => lineage[ProductOf[m]] # NoVersion

(* terminal: "Set to true once policy declares this product permanently      *)
(* unrecoverable. On redelivery, terminal products skip ... processing       *)
(* entirely."  It does not hold: README, section 4.                          *)
TerminalIsFinal ==
    [][\A p \in Products : checkpoint[p].terminal => checkpoint'[p].terminal]_vars

(* "Completed Silver artifacts are reused only when the source checksum ...  *)
(* match": a Silver event names the Silver object made from its own source.  *)
(* It does not hold: README, section 4.                                      *)
ReuseMatchesSource ==
    \A e \in announced : e[2] = VersionOf[e[1]]

(* A committed lineage record is permanent: commit reuses or reports a       *)
(* conflict and never replaces.                                              *)
LineageImmutable ==
    [][\A p \in Products : lineage[p] # NoVersion => lineage'[p] = lineage[p]]_vars

(* Every published event is settled: redelivery goes on until the worker has *)
(* acked it, or termed it as beyond repair.                                  *)
EventSettled ==
    \A m \in Messages : broker[m] = "pending" ~> broker[m] \in {"acked", "termed"}

-----------------------------------------------------------------------------
(* The invariant that carries ImplementsMedallion and AckedIsAnnounced.      *)

(* A worker with a decoded event has one that was published. *)
EventsPublished ==
    \A w \in Workers : pc[w] # "idle" =>
        msg[w] \in Messages /\ broker[msg[w]] # "unpublished"

(* A published product keeps its Bronze object until lineage and Silver are  *)
(* there, so that what a worker reads is there to be read.                   *)
BronzeUntilLineage ==
    \A m \in Messages : broker[m] # "unpublished" =>
        \/ bronze[ProductOf[m]] # NoVersion
        \/ lineage[ProductOf[m]] # NoVersion /\ silver[ProductOf[m]] # NoVersion

(* What a worker has established by the time it is at a place. *)
Established(w) ==
    /\ pc[w] \in {"complete", "build", "commit", "putLineage", "promote",
                 "announce", "ack"} => silver[Product(w)] # NoVersion
    /\ pc[w] \in {"build", "commit", "putLineage", "promote", "announce"} =>
           cp[w].silver # NoVersion
    /\ pc[w] \in {"pipeline", "put", "complete", "build", "commit",
                 "putLineage", "stat", "promote", "announce", "ack"} =>
           checkpoint[Product(w)] # NoCheckpoint
    /\ pc[w] \notin {"idle", "load", "begin", "term", "ack"} =>
           cp[w].state # "NONE"
    /\ pc[w] = "ack" => \E v \in Versions : <<msg[w], v>> \in announced

AllEstablished == \A w \in Workers : Established(w)

PreprocessorInv == EventsPublished /\ BronzeUntilLineage /\ AllEstablished
                   /\ AckedIsAnnounced

==============================================================================
