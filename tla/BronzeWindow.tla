---------------------------- MODULE BronzeWindow ----------------------------
(***************************************************************************)
(* The rolling Bronze window of go-ingester: the download workers of one   *)
(* ingestion run (pipeline/ingest/product.go), the capacity gate they      *)
(* share (rollingCapacityGate in pipeline/ingest/service.go) and the       *)
(* lifecycle manager that the gate drives while it holds its mutex         *)
(* (pipeline/lifecycle/manager.go), over an object store that keeps the    *)
(* Bronze objects, the lineage records and the lifecycle checkpoints.      *)
(*                                                                         *)
(* What survives a crash of the process is bronze, silver, committedAt and *)
(* lifecycle; everything else is memory.                                   *)
(***************************************************************************)
EXTENDS Integers, FiniteSets, Totals

CONSTANTS
    Workers,        \* the goroutines of the download pool
    Products,       \* the products a manifest may name
    NoWorker, NoProduct,
    ManifestSize,   \* catalog estimate of a product; 0 when MAST gives none
    StreamSize,     \* Content-Length of its download; 0 when none is sent
    Ineligible,     \* products whose lineage says eviction.eligible = false
    MaxBytes, HighWatermark, LowWatermark,
    MaxRuns,        \* bound: ingestion runs started
    MaxCrashes,     \* bound: crashes of the ingester
    MaxFaults       \* bound: failing calls to MinIO or MAST

(* Policy.Validate rejects every other choice of the watermarks. *)
ASSUME PolicyValid ==
    /\ MaxBytes \in Nat /\ HighWatermark \in Nat /\ LowWatermark \in Nat
    /\ 0 < LowWatermark /\ LowWatermark < HighWatermark
    /\ HighWatermark < MaxBytes

ASSUME ConstantsValid ==
    /\ IsFiniteSet(Workers) /\ IsFiniteSet(Products)
    /\ NoWorker \notin Workers /\ NoProduct \notin Products
    /\ ManifestSize \in [Products -> Nat] /\ StreamSize \in [Products -> Nat]
    /\ Ineligible \in SUBSET Products
    /\ MaxRuns \in Nat /\ MaxCrashes \in Nat /\ MaxFaults \in Nat

VARIABLES
    bronze,         \* size of each stored Bronze object, 0 when absent
    silver,         \* products whose Silver object is stored
    committedAt,    \* rank of the lineage record in commit order, 0 if none
    lifecycle,      \* lifecycle checkpoint of each lineage record
    queue,          \* the run's jobs that no worker has taken
    stopping,       \* the run's context is cancelled
    pc, job, held,  \* each worker: where it is, its product, its reservation
    reserved,       \* rollingCapacityGate.reserved
    holder,         \* the worker inside the gate's mutex
    phase,          \* how far its CheckProjectedCapacity has come
    usage,          \* the usage the check works with (measured, then estimated)
    candidates,     \* eviction candidates it has not handled yet
    victim,         \* the candidate it is evicting
    runs, crashes, faults

store == <<bronze, silver, committedAt, lifecycle>>
workers == <<pc, job, held>>
check == <<holder, phase, usage, candidates, victim>>
bounds == <<runs, crashes, faults>>
vars == <<store, queue, stopping, workers, reserved, check, bounds>>

LifecycleStates == {"NONE", "EVICTING", "RAW_DELETED", "EVICTION_FAILED"}
Places == {"idle", "reserve", "open", "reserveMore", "upload", "release"}
Phases == {"free", "preflight", "cleanup", "delete", "verify", "markDeleted",
           "markFailed", "decide"}

TypeOK ==
    /\ bronze \in [Products -> Nat]
    /\ silver \in SUBSET Products
    /\ committedAt \in [Products -> Nat]
    /\ lifecycle \in [Products -> LifecycleStates]
    /\ queue \in SUBSET Products
    /\ stopping \in BOOLEAN
    /\ pc \in [Workers -> Places]
    /\ job \in [Workers -> Products \cup {NoProduct}]
    /\ held \in [Workers -> Nat]
    /\ reserved \in Int
    /\ holder \in Workers \cup {NoWorker}
    /\ phase \in Phases
    /\ usage \in Int
    /\ candidates \in SUBSET Products
    /\ victim \in Products \cup {NoProduct}
    /\ runs \in Nat /\ crashes \in Nat /\ faults \in Nat

-----------------------------------------------------------------------------
(* Sizes.  A transfer without Content-Length falls back to the catalog's   *)
(* estimate; the second reservation is the excess over that estimate.      *)

UploadSize(p) == IF StreamSize[p] > 0 THEN StreamSize[p] ELSE ManifestSize[p]

(* Mistake: the catalog's estimate is trusted and the excess not reserved. *)
AdditionalCapacityTrusting(p) == 0

AdditionalCapacity(p) ==
    IF ManifestSize[p] <= 0 THEN UploadSize(p)
                            ELSE UploadSize(p) - ManifestSize[p]

(* Lineage records the size that Bronze has when it is committed. *)
RecordedSize(p) == UploadSize(p)

(* ListBronzeUsage: the sum of the sizes of the objects in the bucket. *)
BronzeUsage == Total(bronze)

(* The argument of the Acquire call that worker w is in. *)
Expected(w) == IF pc[w] = "reserve" THEN ManifestSize[job[w]]
                                    ELSE AdditionalCapacity(job[w])

(* Mistake: a check that does not see the reservations of other workers. *)
DemandAlone(w) == Expected(w)

(* What the gate passes to CheckProjectedCapacity. *)
Demand(w) == Expected(w) + reserved

Fits(w) == usage + Demand(w) <= HighWatermark

(* A call to MinIO or MAST fails, of itself or because the run's context was *)
(* cancelled under it.                                                      *)
Fault == \/ stopping /\ UNCHANGED faults
         \/ faults < MaxFaults /\ faults' = faults + 1
NoFault == UNCHANGED faults

(* A write whose call fails may have been applied or not. *)
MaybeWritten(var, updated) == {var, updated}

-----------------------------------------------------------------------------
(* Mistakes: a candidate whose lineage is not committed, or not eligible. *)
PurgeableUncommitted == Products \ Ineligible
PurgeableIneligible == {p \in Products : committedAt[p] > 0}

(* discoverCandidates: the committed, eligible lineage records, without the *)
(* ones whose lifecycle checkpoint says RAW_DELETED or EVICTING.            *)
Purgeable == {p \in Products : committedAt[p] > 0 /\ p \notin Ineligible}

Candidates ==
    {p \in Purgeable : lifecycle[p] \notin {"RAW_DELETED", "EVICTING"}}

(* A lineage record that cannot be read is passed over; a checkpoint that    *)
(* cannot be read keeps nothing out.                                         *)
MisreadCandidates == {Candidates \ {p} : p \in Purgeable}
                     \cup {Candidates \cup {p} : p \in Purgeable}

(* The sort: oldest commit first. *)
Oldest(p) == p \in candidates
             /\ \A q \in candidates : committedAt[p] <= committedAt[q]

(* Mistake: revalidate does not stat the Bronze object. *)
EvictableUnseen(p) == p \in silver

(* revalidate: Bronze and Silver must exist at this moment. *)
Evictable(p) == bronze[p] > 0 /\ p \in silver

-----------------------------------------------------------------------------
Init ==
    /\ bronze = [p \in Products |-> 0]
    /\ silver = {}
    /\ committedAt = [p \in Products |-> 0]
    /\ lifecycle = [p \in Products |-> "NONE"]
    /\ queue = {}
    /\ stopping = FALSE
    /\ pc = [w \in Workers |-> "idle"]
    /\ job = [w \in Workers |-> NoProduct]
    /\ held = [w \in Workers |-> 0]
    /\ reserved = 0
    /\ holder = NoWorker
    /\ phase = "free"
    /\ usage = 0
    /\ candidates = {}
    /\ victim = NoProduct
    /\ runs = 0 /\ crashes = 0 /\ faults = 0

(* A run begins with a manifest and a fresh gate once the last one is over. *)
StartRun ==
    /\ runs < MaxRuns
    /\ queue = {}
    /\ \A w \in Workers : pc[w] = "idle"
    /\ \E manifest \in SUBSET Products : manifest # {} /\ queue' = manifest
    /\ stopping' = FALSE
    /\ reserved' = 0
    /\ runs' = runs + 1
    /\ UNCHANGED <<store, workers, check, crashes, faults>>

(* Drain: no worker takes another job.  Shutdown cancels the context too. *)
StopRun ==
    /\ queue # {} \/ \E w \in Workers : pc[w] # "idle"
    /\ ~stopping
    /\ queue' = {}
    /\ stopping' \in BOOLEAN
    /\ UNCHANGED <<store, workers, reserved, check, bounds>>

-----------------------------------------------------------------------------
(* The worker: ingestProduct. *)

Goto(w, place) == pc' = [pc EXCEPT ![w] = place]

(* The stat of an existing object: a non-empty one is only announced again; *)
(* when the stat itself fails the product is downloaded all the same.       *)
StartProduct(w) ==
    /\ pc[w] = "idle"
    /\ ~stopping
    /\ \E p \in queue :
        /\ queue' = queue \ {p}
        /\ job' = [job EXCEPT ![w] = p]
        /\ \/ /\ NoFault
              /\ bronze[p] > 0
              /\ Goto(w, "release")
           \/ /\ IF bronze[p] > 0 THEN Fault ELSE NoFault
              /\ Goto(w, IF ManifestSize[p] > 0 THEN "reserve" ELSE "open")
    /\ UNCHANGED <<store, stopping, held, reserved, check, runs, crashes>>

(* OpenProduct, then the choice of the upload size.  A stream of unknown   *)
(* length is refused because its bytes could not be reserved.              *)
OpenProduct(w) ==
    /\ pc[w] = "open"
    /\ \/ /\ NoFault
          /\ Goto(w, IF UploadSize(job[w]) <= 0 THEN "release"
                     ELSE IF AdditionalCapacity(job[w]) > 0 THEN "reserveMore"
                     ELSE "upload")
       \/ Fault /\ Goto(w, "release")
    /\ UNCHANGED <<store, queue, stopping, job, held, reserved, check, runs,
                   crashes>>

(* PutObject, its verification and the ready event; all of it happens with *)
(* the reservation still held.                                             *)
Upload(w) ==
    /\ pc[w] = "upload"
    /\ LET stored == [bronze EXCEPT ![job[w]] = UploadSize(job[w])]
       IN \/ NoFault /\ bronze' = stored
          \/ Fault /\ bronze' \in MaybeWritten(bronze, stored)
    /\ Goto(w, "release")
    /\ UNCHANGED <<silver, committedAt, lifecycle, queue, stopping,
                   job, held, reserved, check, runs, crashes>>

(* Mistake: a release that leaves the gate's counter alone. *)
ReleaseLeaking(w) ==
    /\ pc[w] = "release"
    /\ held' = [held EXCEPT ![w] = 0]
    /\ job' = [job EXCEPT ![w] = NoProduct]
    /\ Goto(w, "idle")
    /\ UNCHANGED <<store, queue, stopping, reserved, check, bounds>>

(* The deferred releases of ingestProduct take the gate's mutex. *)
Release(w) ==
    /\ pc[w] = "release"
    /\ holder = NoWorker \/ held[w] = 0
    /\ reserved' = reserved - held[w]
    /\ held' = [held EXCEPT ![w] = 0]
    /\ job' = [job EXCEPT ![w] = NoProduct]
    /\ Goto(w, "idle")
    /\ UNCHANGED <<store, queue, stopping, check, bounds>>

-----------------------------------------------------------------------------
(* The gate: Acquire, and the CheckProjectedCapacity it runs under g.mu.   *)

Waiting(w) == pc[w] \in {"reserve", "reserveMore"}

Unlock == /\ holder' = NoWorker /\ phase' = "free"
          /\ candidates' = {} /\ victim' = NoProduct /\ usage' = 0

(* ctx.Done while it sleeps between two attempts. *)
CancelWait(w) ==
    /\ Waiting(w)
    /\ holder # w
    /\ stopping
    /\ Goto(w, "release")
    /\ UNCHANGED <<store, queue, stopping, job, held, reserved, check, bounds>>

(* A demand above MAX is refused for good: the product fails. *)
RejectOversize(w) ==
    /\ Waiting(w)
    /\ holder = NoWorker
    /\ Demand(w) > MaxBytes
    /\ Goto(w, "release")
    /\ UNCHANGED <<store, queue, stopping, job, held, reserved, check, bounds>>

(* Lock the mutex and measure Bronze; an unreadable bucket fails the product. *)
Preflight(w) ==
    /\ Waiting(w)
    /\ holder = NoWorker
    /\ Demand(w) <= MaxBytes
    /\ \/ /\ NoFault
          /\ holder' = w
          /\ phase' = "preflight"
          /\ usage' = BronzeUsage
          /\ UNCHANGED <<pc, candidates, victim>>
       \/ /\ Fault
          /\ Goto(w, "release")
          /\ UNCHANGED check
    /\ UNCHANGED <<store, queue, stopping, job, held, reserved, runs, crashes>>

(* Acquire returns: the bytes are reserved and the mutex is released. *)
Grant(w) ==
    /\ reserved' = reserved + Expected(w)
    /\ held' = [held EXCEPT ![w] = @ + Expected(w)]
    /\ Goto(w, IF pc[w] = "reserve" THEN "open" ELSE "upload")
    /\ Unlock
    /\ UNCHANGED <<store, queue, stopping, job, bounds>>

Admit(w) ==
    /\ holder = w
    /\ phase \in {"preflight", "decide"}
    /\ Fits(w)
    /\ Grant(w)

(* ErrStoragePressure: back to sleep for retryEvery. *)
Pressure(w) ==
    /\ holder = w
    /\ phase = "decide"
    /\ ~Fits(w)
    /\ Unlock
    /\ UNCHANGED <<store, queue, stopping, workers, reserved, bounds>>

(* RunCleanup: measure again, do nothing below HIGH, else discover. *)
StartCleanup(w) ==
    /\ holder = w
    /\ phase = "preflight"
    /\ ~Fits(w)
    /\ \/ /\ NoFault
          /\ usage' = BronzeUsage
          /\ IF BronzeUsage < HighWatermark
             THEN phase' = "decide" /\ UNCHANGED candidates
             ELSE phase' = "cleanup" /\ candidates' = Candidates
          /\ UNCHANGED <<pc, holder, victim>>
       \/ /\ Fault
          /\ BronzeUsage >= HighWatermark
          /\ usage' = BronzeUsage
          /\ phase' = "cleanup"
          /\ candidates' \in MisreadCandidates
          /\ UNCHANGED <<pc, holder, victim>>
       \/ Fault /\ Goto(w, "release") /\ Unlock
    /\ UNCHANGED <<store, queue, stopping, job, held, reserved, runs, crashes>>

(* The candidate is blocked: revalidate refuses it or a call of its fails. *)
SkipCandidate(w) ==
    /\ holder = w
    /\ phase = "cleanup"
    /\ usage > LowWatermark
    /\ \E p \in candidates :
        /\ Oldest(p)
        /\ candidates' = candidates \ {p}
        /\ IF Evictable(p)
           THEN /\ Fault
                /\ lifecycle' \in MaybeWritten(lifecycle,
                                    [lifecycle EXCEPT ![p] = "EVICTING"])
           ELSE NoFault /\ UNCHANGED lifecycle
    /\ UNCHANGED <<bronze, silver, committedAt, queue, stopping,
                   workers, reserved, holder, phase, usage, victim, runs,
                   crashes>>

(* Mistake: the delete goes ahead before EVICTING is persisted. *)
MarkEvictingUnsaved(w) ==
    /\ holder = w
    /\ phase = "cleanup"
    /\ usage > LowWatermark
    /\ \E p \in candidates :
        /\ Oldest(p)
        /\ Evictable(p)
        /\ victim' = p
        /\ candidates' = candidates \ {p}
    /\ phase' = "delete"
    /\ UNCHANGED <<store, queue, stopping, workers, reserved, holder, usage,
                   bounds>>

(* evict: EVICTING is persisted before the delete. *)
MarkEvicting(w) ==
    /\ holder = w
    /\ phase = "cleanup"
    /\ usage > LowWatermark
    /\ \E p \in candidates :
        /\ Oldest(p)
        /\ Evictable(p)
        /\ lifecycle' = [lifecycle EXCEPT ![p] = "EVICTING"]
        /\ victim' = p
        /\ candidates' = candidates \ {p}
    /\ phase' = "delete"
    /\ UNCHANGED <<bronze, silver, committedAt, queue, stopping,
                   workers, reserved, holder, usage, bounds>>

DeleteBronze(w) ==
    /\ holder = w
    /\ phase = "delete"
    /\ LET deleted == [bronze EXCEPT ![victim] = 0]
       IN \/ NoFault /\ bronze' = deleted /\ phase' = "verify"
          \/ Fault /\ bronze' \in MaybeWritten(bronze, deleted)
                   /\ phase' = "markFailed"
    /\ UNCHANGED <<silver, committedAt, lifecycle, queue, stopping,
                   workers, reserved, holder, usage, candidates, victim, runs,
                   crashes>>

(* The stat after the delete: a visible object or a failing stat is a failure. *)
VerifyAbsent(w) ==
    /\ holder = w
    /\ phase = "verify"
    /\ \/ /\ NoFault
          /\ phase' = IF bronze[victim] > 0 THEN "markFailed" ELSE "markDeleted"
       \/ Fault /\ phase' = "markFailed"
    /\ UNCHANGED <<store, queue, stopping, workers, reserved, holder, usage,
                   candidates, victim, runs, crashes>>

(* The outcome is persisted; the result of that write is ignored. *)
PersistOutcome(w, state) ==
    /\ holder = w
    /\ LET persisted == [lifecycle EXCEPT ![victim] = state]
       IN \/ NoFault /\ lifecycle' = persisted
          \/ Fault /\ lifecycle' \in MaybeWritten(lifecycle, persisted)
    /\ phase' = "cleanup"
    /\ victim' = NoProduct
    /\ UNCHANGED <<bronze, silver, committedAt, queue, stopping,
                   workers, reserved, holder, candidates, runs, crashes>>

(* Mistake: a state that no reader of the checkpoint knows. *)
MarkFailedUnknown(w) == phase = "markFailed" /\ PersistOutcome(w, "FAILED")
                        /\ UNCHANGED usage

MarkFailed(w) == phase = "markFailed" /\ PersistOutcome(w, "EVICTION_FAILED")
                 /\ UNCHANGED usage

(* The estimate goes down by the size that lineage recorded. *)
MarkDeleted(w) == phase = "markDeleted" /\ PersistOutcome(w, "RAW_DELETED")
                  /\ usage' = usage - RecordedSize(victim)

EndCleanup(w) ==
    /\ holder = w
    /\ phase = "cleanup"
    /\ usage <= LowWatermark \/ candidates = {}
    /\ phase' = "decide"
    /\ candidates' = {}
    /\ UNCHANGED <<store, queue, stopping, workers, reserved, holder, usage,
                   victim, bounds>>

-----------------------------------------------------------------------------
(* The environment: rust-preprocessor stores Silver, then commits lineage,   *)
(* once per product (the lineage id does not depend on the Bronze content).  *)

StoreSilver(p) ==
    /\ bronze[p] > 0
    /\ p \notin silver
    /\ silver' = silver \cup {p}
    /\ UNCHANGED <<bronze, committedAt, lifecycle, queue, stopping,
                   workers, reserved, check, bounds>>

CommitLineage(p) ==
    /\ bronze[p] > 0
    /\ p \in silver
    /\ committedAt[p] = 0
    /\ committedAt' = [committedAt EXCEPT ![p] =
                         1 + Cardinality({q \in Products : committedAt[q] > 0})]
    /\ UNCHANGED <<bronze, silver, lifecycle, queue, stopping, workers,
                   reserved, check, bounds>>

(* The process dies: the pool, the gate and the running check are gone. *)
Crash ==
    /\ crashes < MaxCrashes
    /\ crashes' = crashes + 1
    /\ queue' = {}
    /\ stopping' = FALSE
    /\ pc' = [w \in Workers |-> "idle"]
    /\ job' = [w \in Workers |-> NoProduct]
    /\ held' = [w \in Workers |-> 0]
    /\ reserved' = 0
    /\ Unlock
    /\ UNCHANGED <<store, runs, faults>>

-----------------------------------------------------------------------------
WorkerStep(w) == StartProduct(w) \/ OpenProduct(w) \/ Upload(w) \/ Release(w)

GateStep(w) == CancelWait(w) \/ RejectOversize(w) \/ Preflight(w) \/ Admit(w)
               \/ Pressure(w)

CleanupStep(w) ==
    \/ StartCleanup(w) \/ SkipCandidate(w) \/ MarkEvicting(w)
    \/ DeleteBronze(w) \/ VerifyAbsent(w) \/ MarkFailed(w) \/ MarkDeleted(w)
    \/ EndCleanup(w)

Next ==
    \/ StartRun \/ StopRun \/ Crash
    \/ \E w \in Workers : WorkerStep(w) \/ GateStep(w) \/ CleanupStep(w)
    \/ \E p \in Products : StoreSilver(p) \/ CommitLineage(p)

Spec == Init /\ [][Next]_vars

(* The goroutines are scheduled, sync.Mutex does not starve a waiter, and a *)
(* waiter retries for ever unless it finds its context cancelled when it is *)
(* about to sleep; the preprocessor processes what it is told of.           *)
Fairness ==
    /\ \A w \in Workers :
        /\ WF_vars(WorkerStep(w)) /\ SF_vars(Release(w))
        /\ SF_vars(GateStep(w)) /\ SF_vars(CancelWait(w))
        /\ WF_vars(CleanupStep(w))
    /\ \A p \in Products : WF_vars(StoreSilver(p)) /\ WF_vars(CommitLineage(p))

FairSpec == Spec /\ Fairness

-----------------------------------------------------------------------------
(* The durable objects of the window, seen as the pipeline's contract.       *)
Contract == INSTANCE Medallion
    WITH Pinned <- Ineligible, raw <- {p \in Products : bronze[p] > 0},
         lineage <- {p \in Products : committedAt[p] > 0}

(* "Bronze raw FITS can only be purged after downstream ... artifacts and    *)
(* lineage metadata are durably stored" (ARCH.MD): the ingester implements   *)
(* the contract that the preprocessor implements from its side.              *)
ImplementsMedallion == Contract!Spec

(* The promise of the rolling window: whatever the workers, the cleanup,    *)
(* failing calls and crashes do, the Bronze bucket never holds more than    *)
(* the active-wave watermark (CheckProjectedCapacity, rollingCapacityGate). *)
CapacityBound == BronzeUsage <= HighWatermark

(* The gate's counter is exactly what the workers hold: no path of          *)
(* ingestProduct leaks a reservation or releases one twice.                 *)
ReservationsBalance == reserved = Total(held)

(* Bronze is deleted only while its Silver object and an eligible lineage   *)
(* record are durable, and after EVICTING has been persisted for it.        *)
SafeEviction ==
    [][\A p \in Products :
          bronze[p] > 0 /\ bronze'[p] = 0 =>
            /\ p \in silver /\ committedAt[p] > 0 /\ p \notin Ineligible
            /\ lifecycle[p] = "EVICTING"]_vars

(* A product whose lineage is committed and whose Bronze object is gone has *)
(* a lifecycle checkpoint, whatever failed or crashed on the way: an        *)
(* intended deletion can be told from a lost object (IsRawDeleted).         *)
EvictionLeavesTrace ==
    \A p \in Products :
        committedAt[p] > 0 /\ bronze[p] = 0 => lifecycle[p] # "NONE"

(* Across runs, failing calls and crashes, a deletion is only ever begun for *)
(* Bronze and Silver objects that exist at that moment, and an outcome is    *)
(* recorded only for a deletion that was begun (revalidate, evict): not even *)
(* a misread checkpoint starts a deletion of what is already gone.           *)
LifecycleOrder ==
    [][\A p \in Products :
          lifecycle'[p] # lifecycle[p] =>
            IF lifecycle'[p] = "EVICTING"
            THEN bronze[p] > 0 /\ p \in silver
            ELSE lifecycle[p] = "EVICTING" /\ lifecycle'[p] # "NONE"]_vars

(* Every job of a run is handled in the end: the workers that wait for      *)
(* capacity get it once the preprocessor has made Bronze evictable.         *)
EveryJobFinishes ==
    \A p \in Products :
        p \in queue ~> (p \notin queue /\ \A w \in Workers : job[w] # p)

(* A worker that waits in Acquire gets in, or fails, in the end: "this      *)
(* blocks until pre-processing commits eligible lineage and the lifecycle   *)
(* manager evicts the oldest safe raw objects" (product.go).                *)
AdmissionProgress == \A w \in Workers : Waiting(w) ~> ~Waiting(w)

(* "EVICTING + Bronze missing -> RAW_DELETED", "will be handled on next     *)
(* recovery run": as long as cleanups keep running, a checkpoint left in    *)
(* EVICTING is resolved.  It does not hold: README, section 4.              *)
EvictingResolved ==
    \A p \in Products :
        []<>(phase = "cleanup") =>
            (lifecycle[p] = "EVICTING" ~> lifecycle[p] # "EVICTING")

-----------------------------------------------------------------------------
(* The invariant that carries CapacityBound.                                 *)

(* Bytes that a worker has reserved and may still upload. *)
Pending == [w \in Workers |->
              IF pc[w] \in {"idle", "release"} THEN 0 ELSE held[w]]

(* Stored bytes and the bytes still to come fit below HIGH. *)
PendingFits == BronzeUsage + Total(Pending) <= HighWatermark

(* A Bronze object has the size of its upload. *)
BronzeSizes == \A p \in Products : bronze[p] \in {0, UploadSize(p)}

(* What a worker holds, by how far it has come. *)
HeldCovers ==
    \A w \in Workers :
        /\ pc[w] # "idle" => job[w] \in Products
        /\ pc[w] \in {"idle", "reserve"} => held[w] = 0
        /\ pc[w] = "open" => held[w] = ManifestSize[job[w]]
        /\ pc[w] = "reserveMore" => held[w] = ManifestSize[job[w]]
                                    /\ AdditionalCapacity(job[w]) > 0
        /\ pc[w] = "upload" => held[w] >= UploadSize(job[w])
                               /\ UploadSize(job[w]) > 0

(* While a check runs its worker is in Acquire, and the usage it works with  *)
(* together with the counter covers everything stored or still to come: a    *)
(* put that the measurement missed is still reserved, because a release      *)
(* needs the mutex that the check holds.                                     *)
CheckCovers ==
    /\ (phase = "free") <=> (holder = NoWorker)
    /\ holder # NoWorker => Waiting(holder)
    /\ phase \in {"delete", "verify", "markDeleted", "markFailed"} =>
           victim \in Products
    /\ phase = "delete" => bronze[victim] > 0
    /\ phase # "free" => BronzeUsage + Total(Pending) <= usage + reserved
    /\ phase \in {"verify", "markDeleted"} =>
           BronzeUsage + Total(Pending) + RecordedSize(victim) <= usage + reserved

(* The invariant that carries the properties of the eviction: what a cleanup *)
(* has discovered stays true while it works through it.                      *)
EvictionInv ==
    /\ candidates \subseteq Purgeable
    /\ phase \in {"delete", "verify", "markDeleted", "markFailed"} =>
           /\ victim \in Products /\ victim \notin candidates
           /\ committedAt[victim] > 0 /\ victim \notin Ineligible
           /\ victim \in silver /\ lifecycle[victim] = "EVICTING"
    /\ EvictionLeavesTrace

WindowInv == ReservationsBalance /\ PendingFits /\ BronzeSizes /\ HeldCovers
             /\ CheckCovers

==============================================================================
