------------------------- MODULE BronzeWindowProofs -------------------------
(* TLAPS proofs about BronzeWindow, for every pool, manifest and watermark.   *)
EXTENDS BronzeWindow, TotalsTheorems

(* Sizes are integers, and what is uploaded is not negative. *)
LEMMA SizeTypes ==
    \A p \in Products : /\ UploadSize(p) \in Nat
                        /\ RecordedSize(p) = UploadSize(p)
                        /\ AdditionalCapacity(p) \in Int
  BY ConstantsValid DEF UploadSize, RecordedSize, AdditionalCapacity

(* The measured usage and the reserved totals are natural numbers. *)
LEMMA TotalTypes ==
    ASSUME TypeOK
    PROVE  /\ BronzeUsage \in Nat
           /\ Total(held) \in Nat
           /\ Pending \in [Workers -> Nat]
           /\ Total(Pending) \in Nat
           /\ Total(Pending) <= Total(held)
  <1>1. held \in [Workers -> Nat] /\ bronze \in [Products -> Nat]
    BY DEF TypeOK
  <1>2. Pending \in [Workers -> Nat] /\ \A w \in Workers : Pending[w] <= held[w]
    BY <1>1 DEF Pending
  <1>3. Total(Pending) <= Total(held)
    BY <1>1, <1>2, ConstantsValid, TotalMonotone
  <1>4. Total(held) \in Nat /\ Total(Pending) \in Nat
    BY <1>1, <1>2, ConstantsValid, TotalNat
  <1>5. BronzeUsage \in Nat
    BY <1>1, ConstantsValid, TotalNat DEF BronzeUsage
  <1> QED BY <1>2, <1>3, <1>4, <1>5

-----------------------------------------------------------------------------
(* The initial state has the declared types. *)
LEMMA InitType == Init => TypeOK
  <1> SUFFICES ASSUME Init PROVE TypeOK
    OBVIOUS
  <1> USE DEF Init
  <1>1. bronze \in [Products -> Nat] /\ committedAt \in [Products -> Nat]
        /\ lifecycle \in [Products -> LifecycleStates]
    BY DEF LifecycleStates
  <1>2. pc \in [Workers -> Places] /\ held \in [Workers -> Nat]
        /\ job \in [Workers -> Products \cup {NoProduct}]
    BY DEF Places
  <1>3. silver \in SUBSET Products /\ queue \in SUBSET Products
        /\ candidates \in SUBSET Products
    OBVIOUS
  <1>4. stopping \in BOOLEAN
    OBVIOUS
  <1>5. phase \in Phases /\ holder \in Workers \cup {NoWorker}
        /\ victim \in Products \cup {NoProduct}
    BY DEF Phases
  <1> QED BY <1>1, <1>2, <1>3, <1>4, <1>5 DEF TypeOK

(* The steps of ingestProduct keep the types. *)
LEMMA WorkerStepType ==
    ASSUME TypeOK, HeldCovers, NEW w \in Workers, WorkerStep(w)
    PROVE  TypeOK'
  <1> USE DEF TypeOK, Goto, Places, Fault, NoFault, store, check, bounds
  <1>1. CASE StartProduct(w)
    BY <1>1 DEF StartProduct
  <1>2. CASE OpenProduct(w)
    BY <1>2 DEF OpenProduct
  <1>3. CASE Upload(w)
    <2>1. job[w] \in Products
      BY <1>3 DEF Upload, HeldCovers
    <2>2. [bronze EXCEPT ![job[w]] = UploadSize(job[w])] \in [Products -> Nat]
      BY <2>1, SizeTypes
    <2> QED BY <1>3, <2>2 DEF Upload, MaybeWritten
  <1>4. CASE Release(w)
    BY <1>4 DEF Release
  <1> QED BY <1>1, <1>2, <1>3, <1>4 DEF WorkerStep

(* The steps of Acquire keep the types. *)
LEMMA GateStepType ==
    ASSUME TypeOK, HeldCovers, CheckCovers, NEW w \in Workers, GateStep(w)
    PROVE  TypeOK'
  <1> USE DEF TypeOK, Goto, Places, Phases, Fault, NoFault, Unlock, store,
              workers, check, bounds
  <1>1. CASE CancelWait(w)
    BY <1>1 DEF CancelWait
  <1>2. CASE RejectOversize(w)
    BY <1>2 DEF RejectOversize
  <1>3. CASE Preflight(w)
    BY <1>3, TotalTypes DEF Preflight
  <1>4. CASE Admit(w)
    <2>1. Waiting(w) /\ job[w] \in Products
      BY <1>4, ConstantsValid DEF Admit, CheckCovers, HeldCovers, Waiting
    <2>2. Expected(w) \in Nat
      BY <2>1, ConstantsValid, SizeTypes DEF Expected, Waiting, HeldCovers
    <2>3. held[w] + Expected(w) \in Nat /\ reserved + Expected(w) \in Int
      BY <2>2
    <2> QED BY <1>4, <2>3 DEF Admit, Grant
  <1>5. CASE Pressure(w)
    BY <1>5 DEF Pressure
  <1> QED BY <1>1, <1>2, <1>3, <1>4, <1>5 DEF GateStep

(* The steps of RunCleanup keep the types. *)
LEMMA CleanupStepType ==
    ASSUME TypeOK, CheckCovers, NEW w \in Workers, CleanupStep(w)
    PROVE  TypeOK'
  <1> USE DEF TypeOK, Goto, Places, Phases, LifecycleStates, Fault, NoFault,
              Unlock, MaybeWritten, store, workers, check, bounds
  <1>1. CASE StartCleanup(w)
    <2>1. candidates' \in SUBSET Products
      BY <1>1 DEF StartCleanup, MisreadCandidates, Candidates, Purgeable
    <2> QED BY <1>1, <2>1, TotalTypes DEF StartCleanup
  <1>2. CASE SkipCandidate(w)
    BY <1>2 DEF SkipCandidate
  <1>3. CASE MarkEvicting(w)
    BY <1>3 DEF MarkEvicting
  <1>4. CASE DeleteBronze(w)
    BY <1>4 DEF DeleteBronze
  <1>5. CASE VerifyAbsent(w)
    BY <1>5 DEF VerifyAbsent
  <1>6. CASE MarkFailed(w)
    BY <1>6 DEF MarkFailed, PersistOutcome
  <1>7. CASE MarkDeleted(w)
    <2>1. victim \in Products
      BY <1>7 DEF MarkDeleted, CheckCovers
    <2> QED BY <1>7, <2>1, SizeTypes DEF MarkDeleted, PersistOutcome
  <1>8. CASE EndCleanup(w)
    BY <1>8 DEF EndCleanup
  <1> QED BY <1>1, <1>2, <1>3, <1>4, <1>5, <1>6, <1>7, <1>8 DEF CleanupStep

(* The type invariant is preserved by every step, given what is known of the *)
(* victim and of the jobs.                                                   *)
LEMMA NextType ==
    ASSUME TypeOK, HeldCovers, CheckCovers, [Next]_vars
    PROVE  TypeOK'
  <1>1. CASE StartRun
    <2>1. queue' \in SUBSET Products
      BY <1>1 DEF StartRun
    <2>2. stopping' \in BOOLEAN
      BY <1>1 DEF StartRun
    <2> QED BY <1>1, <2>1, <2>2 DEF StartRun, TypeOK, store, workers, check
  <1>2. CASE StopRun
    BY <1>2 DEF StopRun, TypeOK, store, workers, check, bounds
  <1>3. CASE Crash
    <2> USE <1>3 DEF Crash, Unlock
    <2>1. pc' \in [Workers -> Places] /\ held' \in [Workers -> Nat]
          /\ job' \in [Workers -> Products \cup {NoProduct}]
      BY DEF Places
    <2>2. queue' \in SUBSET Products /\ candidates' \in SUBSET Products
      OBVIOUS
    <2>3. stopping' \in BOOLEAN
      OBVIOUS
    <2>4. phase' \in Phases /\ holder' \in Workers \cup {NoWorker}
          /\ victim' \in Products \cup {NoProduct}
      BY DEF Phases
    <2> QED BY <2>1, <2>2, <2>3, <2>4 DEF TypeOK, store
  <1>4. ASSUME NEW w \in Workers, WorkerStep(w) \/ GateStep(w) \/ CleanupStep(w)
        PROVE  TypeOK'
    BY <1>4, WorkerStepType, GateStepType, CleanupStepType
  <1>5. ASSUME NEW p \in Products, StoreSilver(p) \/ CommitLineage(p)
        PROVE  TypeOK'
    <2>1. CASE StoreSilver(p)
      BY <2>1 DEF StoreSilver, TypeOK, workers, check, bounds
    <2>2. CASE CommitLineage(p)
      <3>1. {q \in Products : committedAt[q] > 0} \in SUBSET Products
        OBVIOUS
      <3>2. Cardinality({q \in Products : committedAt[q] > 0}) \in Nat
        BY <3>1, ConstantsValid, FS_Subset, FS_CardinalityType
      <3> HIDE <3>1
      <3> DEFINE n == Cardinality({q \in Products : committedAt[q] > 0})
      <3>3. n \in Nat /\ committedAt' = [committedAt EXCEPT ![p] = 1 + n]
        BY <2>2, <3>2 DEF CommitLineage
      <3> HIDE DEF n
      <3> QED BY <2>2, <3>3 DEF CommitLineage, TypeOK, workers, check, bounds
    <2> QED BY <1>5, <2>1, <2>2
  <1>6. CASE UNCHANGED vars
    BY <1>6 DEF vars, TypeOK, store, workers, check, bounds
  <1> QED BY <1>1, <1>2, <1>3, <1>4, <1>5, <1>6 DEF Next

-----------------------------------------------------------------------------
(* A worker moves and its reservation becomes h: what is still to come       *)
(* changes at that worker only.                                              *)
LEMMA PendingMoves ==
    ASSUME TypeOK, NEW w \in Workers, NEW place \in Places, NEW h \in Nat,
           pc' = [pc EXCEPT ![w] = place], held' = [held EXCEPT ![w] = h]
    PROVE  Total(Pending)' = Total(Pending) - Pending[w]
                             + (IF place \in {"idle", "release"} THEN 0 ELSE h)
  <1> DEFINE n == IF place \in {"idle", "release"} THEN 0 ELSE h
  <1>1. Pending' = [Pending EXCEPT ![w] = n]
    BY DEF Pending, TypeOK
  <1>2. n \in Nat
    OBVIOUS
  <1> HIDE DEF n
  <1>3. Total([Pending EXCEPT ![w] = n]) = Total(Pending) - Pending[w] + n
    <2>1. Pending \in [Workers -> Nat]
      BY TotalTypes
    <2>2. IsFiniteSet(Workers)
      BY ConstantsValid
    <2> QED BY <1>2, <2>1, <2>2, TotalExcept
  <1> QED BY <1>1, <1>3 DEF n

(* The window invariant holds when nothing is stored or reserved. *)
LEMMA InitWindow == Init => WindowInv
  <1> SUFFICES ASSUME Init PROVE WindowInv
    OBVIOUS
  <1>1. Total(held) = 0
    <2>1. held \in [Workers -> Nat] /\ \A w \in Workers : held[w] = 0
      BY DEF Init
    <2> QED BY <2>1, TotalZero
  <1>2. Total(Pending) = 0
    <2>1. Pending \in [Workers -> Nat] /\ \A w \in Workers : Pending[w] = 0
      BY DEF Init, Pending
    <2> QED BY <2>1, TotalZero
  <1>3. BronzeUsage = 0
    <2>1. bronze \in [Products -> Nat] /\ \A p \in Products : bronze[p] = 0
      BY DEF Init
    <2> QED BY <2>1, TotalZero DEF BronzeUsage
  <1>4. ReservationsBalance
    BY <1>1 DEF Init, ReservationsBalance
  <1>5. PendingFits
    BY <1>2, <1>3, PolicyValid DEF PendingFits
  <1>6. BronzeSizes
    BY DEF Init, BronzeSizes
  <1>7. HeldCovers
    BY DEF Init, HeldCovers
  <1>8. CheckCovers
    BY DEF Init, CheckCovers
  <1> QED BY <1>4, <1>5, <1>6, <1>7, <1>8 DEF WindowInv

(* The worker's own steps. *)
LEMMA StartProductWindow ==
    ASSUME TypeOK, WindowInv, NEW w \in Workers, StartProduct(w)
    PROVE  WindowInv'
  <1> USE DEF StartProduct, Goto
  <1>1. held[w] = 0 /\ Pending[w] = 0 /\ held' = [held EXCEPT ![w] = held[w]]
    BY DEF WindowInv, HeldCovers, TypeOK, Pending
  <1>2. PICK place \in {"release", "reserve", "open"} :
             pc' = [pc EXCEPT ![w] = place]
    OBVIOUS
  <1>3. Total(Pending)' = Total(Pending)
    <2>1. place \in Places /\ 0 \in Nat /\ held' = [held EXCEPT ![w] = 0]
      BY <1>1, <1>2 DEF Places
    <2>2. Total(Pending)' = Total(Pending) - Pending[w] + 0
      BY <1>2, <2>1, PendingMoves
    <2> QED BY <1>1, <2>2, TotalTypes
  <1>4. BronzeUsage' = BronzeUsage
    BY DEF BronzeUsage, store
  <1>5. ReservationsBalance' /\ PendingFits' /\ BronzeSizes'
    BY <1>3, <1>4 DEF WindowInv, ReservationsBalance, PendingFits, BronzeSizes, store
  <1>6. HeldCovers'
    BY <1>1, ConstantsValid DEF WindowInv, HeldCovers, TypeOK
  <1>7. holder # w
    BY ConstantsValid DEF WindowInv, CheckCovers, Waiting
  <1>8. CheckCovers'
    BY <1>3, <1>4, <1>7 DEF WindowInv, CheckCovers, Waiting, TypeOK, check, store
  <1> QED BY <1>5, <1>6, <1>8 DEF WindowInv

(* Opening the download: the second reservation is only what is missing. *)
LEMMA OpenProductWindow ==
    ASSUME TypeOK, WindowInv, NEW w \in Workers, OpenProduct(w)
    PROVE  WindowInv'
  <1> USE DEF OpenProduct, Goto
  <1>1. Pending[w] = held[w] /\ held[w] \in Nat /\ held' = [held EXCEPT ![w] = held[w]]
    BY DEF TypeOK, Pending
  <1>2. PICK place \in {"release", "reserveMore", "upload"} :
             pc' = [pc EXCEPT ![w] = place]
    OBVIOUS
  <1>3. Total(Pending)' <= Total(Pending) /\ Total(Pending)' \in Int
    <2>1. place \in Places
      BY <1>2 DEF Places
    <2>2. Total(Pending)' = Total(Pending) - Pending[w]
             + (IF place \in {"idle", "release"} THEN 0 ELSE held[w])
      BY <1>1, <1>2, <2>1, PendingMoves
    <2> QED BY <1>1, <2>2, TotalTypes
  <1>4. BronzeUsage' = BronzeUsage
    BY DEF BronzeUsage, store
  <1>5. ReservationsBalance' /\ PendingFits' /\ BronzeSizes'
    BY <1>3, <1>4, TotalTypes, PolicyValid
    DEF WindowInv, ReservationsBalance, PendingFits, BronzeSizes, store
  <1>6. HeldCovers'
    <2>1. job[w] \in Products /\ held[w] = ManifestSize[job[w]]
      BY DEF WindowInv, HeldCovers
    <2>2. UploadSize(job[w]) > 0 /\ ~(AdditionalCapacity(job[w]) > 0) =>
             held[w] >= UploadSize(job[w])
      BY <2>1, SizeTypes, ConstantsValid DEF AdditionalCapacity
    <2>3. UploadSize(job[w]) \in Nat /\ AdditionalCapacity(job[w]) \in Int
      BY <2>1, SizeTypes
    <2> QED BY <2>1, <2>2, <2>3 DEF WindowInv, HeldCovers, TypeOK
  <1>7. holder # w
    BY ConstantsValid DEF WindowInv, CheckCovers, Waiting
  <1>8. CheckCovers'
    <2>1. victim \in Products => RecordedSize(victim) \in Nat
      BY SizeTypes
    <2> QED BY <1>3, <1>4, <1>7, <2>1, TotalTypes
            DEF WindowInv, CheckCovers, Waiting, TypeOK, check, store
  <1> QED BY <1>5, <1>6, <1>8 DEF WindowInv

(* Bronze grows by no more than the worker's reservation, which is then no   *)
(* longer to come.                                                           *)
LEMMA UploadWindow ==
    ASSUME TypeOK, WindowInv, NEW w \in Workers, Upload(w)
    PROVE  WindowInv'
  <1> USE DEF Upload, Goto
  <1> DEFINE p == job[w]
  <1>1. p \in Products /\ UploadSize(p) \in Nat /\ UploadSize(p) > 0
        /\ UploadSize(p) <= held[w] /\ held[w] \in Nat /\ bronze[p] \in Nat
        /\ Pending[w] = held[w]
    BY SizeTypes DEF WindowInv, HeldCovers, TypeOK, Pending
  <1>2. Total(Pending)' = Total(Pending) - held[w]
    <2>1. held' = [held EXCEPT ![w] = held[w]] /\ "release" \in Places
      BY DEF TypeOK, Places
    <2>2. Total(Pending)' = Total(Pending) - Pending[w] + 0
      BY <1>1, <2>1, PendingMoves
    <2> QED BY <1>1, <2>2, TotalTypes
  <1>3. bronze' \in {bronze, [bronze EXCEPT ![p] = UploadSize(p)]}
    BY DEF MaybeWritten
  <1>4. BronzeUsage' <= BronzeUsage + held[w] /\ BronzeUsage' \in Int
    <2>1. CASE bronze' = bronze
      BY <1>1, <2>1, TotalTypes DEF BronzeUsage
    <2>2. CASE bronze' = [bronze EXCEPT ![p] = UploadSize(p)]
      <3>1. bronze \in [Products -> Nat] /\ IsFiniteSet(Products)
        BY ConstantsValid DEF TypeOK
      <3> HIDE DEF p
      <3>2. Total([bronze EXCEPT ![p] = UploadSize(p)])
              = Total(bronze) - bronze[p] + UploadSize(p)
        BY <1>1, <3>1, TotalExcept
      <3> QED BY <1>1, <2>2, <3>2, TotalTypes DEF BronzeUsage
    <2> QED BY <1>3, <2>1, <2>2
  <1>5. BronzeUsage' + Total(Pending)' <= BronzeUsage + Total(Pending)
        /\ Total(Pending)' \in Int
    BY <1>1, <1>2, <1>4, TotalTypes
  <1>6. ReservationsBalance' /\ PendingFits'
    BY <1>4, <1>5, TotalTypes, PolicyValid DEF WindowInv, ReservationsBalance, PendingFits
  <1>7. BronzeSizes'
    BY <1>1, <1>3 DEF WindowInv, BronzeSizes, TypeOK
  <1>8. HeldCovers'
    BY DEF WindowInv, HeldCovers, TypeOK
  <1>9. holder # w
    BY ConstantsValid DEF WindowInv, CheckCovers, Waiting
  <1>10. CheckCovers'
    <2>1. victim \in Products => RecordedSize(victim) \in Nat
      BY SizeTypes
    <2>2. \A v \in Products : bronze[v] > 0 => bronze'[v] > 0
      BY <1>1, <1>3 DEF TypeOK
    <2> QED BY <1>4, <1>5, <1>9, <2>1, <2>2, TotalTypes
            DEF WindowInv, CheckCovers, Waiting, TypeOK, check
  <1> QED BY <1>6, <1>7, <1>8, <1>10 DEF WindowInv

(* Giving the reservation back when nothing of it is still to come. *)
LEMMA ReleaseWindow ==
    ASSUME TypeOK, WindowInv, NEW w \in Workers, Release(w)
    PROVE  WindowInv'
  <1> USE DEF Release, Goto
  <1>1. held[w] \in Nat /\ Pending[w] = 0
    BY DEF TypeOK, Pending
  <1>2. Total(Pending)' = Total(Pending)
    <2>1. "idle" \in Places /\ 0 \in Nat
      BY DEF Places
    <2>2. Total(Pending)' = Total(Pending) - Pending[w] + 0
      BY <2>1, PendingMoves
    <2> QED BY <1>1, <2>2, TotalTypes
  <1>3. Total(held)' = Total(held) - held[w]
    <2>1. held \in [Workers -> Nat] /\ IsFiniteSet(Workers) /\ 0 \in Nat
      BY ConstantsValid DEF TypeOK
    <2>2. Total([held EXCEPT ![w] = 0]) = Total(held) - held[w] + 0
      BY <2>1, TotalExcept
    <2> QED BY <1>1, <2>2, TotalTypes
  <1>4. BronzeUsage' = BronzeUsage
    BY DEF BronzeUsage, store
  <1>5. ReservationsBalance' /\ PendingFits' /\ BronzeSizes'
    BY <1>2, <1>3, <1>4 DEF WindowInv, ReservationsBalance, PendingFits, BronzeSizes, store
  <1>6. HeldCovers'
    BY DEF WindowInv, HeldCovers, TypeOK
  <1>7. holder # w
    BY ConstantsValid DEF WindowInv, CheckCovers, Waiting
  <1>8. CheckCovers'
    <2>1. CASE holder = NoWorker
      BY <2>1 DEF WindowInv, CheckCovers, check
    <2>2. CASE held[w] = 0
      <3>1. reserved' = reserved
        BY <2>2 DEF TypeOK
      <3> QED BY <1>2, <1>4, <1>7, <3>1
              DEF WindowInv, CheckCovers, Waiting, TypeOK, check, store
    <2> QED BY <2>1, <2>2
  <1> QED BY <1>5, <1>6, <1>8 DEF WindowInv

-----------------------------------------------------------------------------
(* The product fails: whatever its worker held is no longer to come. *)
LEMMA GiveUp ==
    ASSUME TypeOK, WindowInv, NEW w \in Workers, Goto(w, "release"), Waiting(w),
           UNCHANGED <<bronze, job, held, reserved>>
    PROVE  /\ ReservationsBalance' /\ PendingFits' /\ BronzeSizes' /\ HeldCovers'
           /\ BronzeUsage' = BronzeUsage
           /\ Total(Pending)' <= Total(Pending) /\ Total(Pending)' \in Int
  <1> USE DEF Goto
  <1>1. Pending[w] = held[w] /\ held[w] \in Nat
    BY DEF TypeOK, Pending, Waiting
  <1>2. Total(Pending)' <= Total(Pending) /\ Total(Pending)' \in Int
    <2>1. held' = [held EXCEPT ![w] = held[w]] /\ "release" \in Places
      BY DEF TypeOK, Places
    <2>2. Total(Pending)' = Total(Pending) - Pending[w] + 0
      BY <1>1, <2>1, PendingMoves
    <2> QED BY <1>1, <2>2, TotalTypes
  <1>3. BronzeUsage' = BronzeUsage
    BY DEF BronzeUsage
  <1>4. ReservationsBalance' /\ PendingFits' /\ BronzeSizes'
    BY <1>2, <1>3, TotalTypes, PolicyValid
    DEF WindowInv, ReservationsBalance, PendingFits, BronzeSizes
  <1>5. HeldCovers'
    BY DEF WindowInv, HeldCovers, TypeOK, Waiting
  <1> QED BY <1>2, <1>3, <1>4, <1>5

(* ... and a check that another worker runs is not disturbed. *)
LEMMA GiveUpUnchecked ==
    ASSUME TypeOK, WindowInv, NEW w \in Workers, Goto(w, "release"), Waiting(w),
           UNCHANGED <<bronze, job, held, reserved, check>>, holder # w
    PROVE  WindowInv'
  <1>1. victim \in Products => RecordedSize(victim) \in Nat
    BY SizeTypes
  <1>2. /\ BronzeUsage' = BronzeUsage
        /\ Total(Pending)' <= Total(Pending) /\ Total(Pending)' \in Int
    BY GiveUp DEF check
  <1>3. holder # NoWorker => Waiting(holder)'
    BY DEF WindowInv, CheckCovers, Waiting, Goto, TypeOK, check
  <1>4. CheckCovers'
    BY <1>1, <1>2, <1>3, TotalTypes
    DEF WindowInv, CheckCovers, TypeOK, check
  <1> QED BY <1>4, GiveUp DEF WindowInv, check

(* The mutex is free again: nothing is left to show of the check. *)
LEMMA UnlockedCovers ==
    ASSUME Unlock
    PROVE  CheckCovers'
  BY DEF Unlock, CheckCovers

(* Acquire: bytes are granted only when they fit with all that is to come. *)
LEMMA GateStepWindow ==
    ASSUME TypeOK, WindowInv, NEW w \in Workers, GateStep(w)
    PROVE  WindowInv'
  <1>1. CASE CancelWait(w)
    BY <1>1, GiveUpUnchecked DEF CancelWait, store
  <1>2. CASE RejectOversize(w)
    BY <1>2, GiveUpUnchecked, ConstantsValid DEF RejectOversize, store
  <1>3. CASE Preflight(w) /\ holder' = w
    <2> USE <1>3, ConstantsValid DEF Preflight
    <2>1. UNCHANGED <<bronze, pc, job, held, reserved>> /\ phase' = "preflight"
          /\ usage' = BronzeUsage
      BY DEF store, check, Goto
    <2>2. BronzeUsage' = BronzeUsage /\ Pending' = Pending
      BY <2>1 DEF BronzeUsage, Pending
    <2>3. ReservationsBalance' /\ PendingFits' /\ BronzeSizes' /\ HeldCovers'
      BY <2>1, <2>2 DEF WindowInv, ReservationsBalance, PendingFits, BronzeSizes, HeldCovers
    <2>4. BronzeUsage + Total(Pending) <= BronzeUsage + reserved
      BY TotalTypes DEF WindowInv, ReservationsBalance
    <2>5. CheckCovers'
      BY <2>1, <2>2, <2>4 DEF CheckCovers, Waiting
    <2> QED BY <2>3, <2>5 DEF WindowInv
  <1>4. CASE Preflight(w) /\ holder' # w
    BY <1>4, GiveUpUnchecked, ConstantsValid DEF Preflight, store
  <1>5. CASE Admit(w)
    <2> USE <1>5 DEF Admit, Grant, Goto
    <2>1. Waiting(w) /\ job[w] \in Products /\ phase # "free"
      BY ConstantsValid DEF WindowInv, CheckCovers, HeldCovers, Waiting
    <2>2. Expected(w) \in Nat
      BY <2>1, ConstantsValid, SizeTypes DEF WindowInv, Expected, Waiting, HeldCovers
    <2>3. held[w] \in Nat /\ Pending[w] = held[w] /\ reserved \in Int /\ usage \in Int
          /\ held' = [held EXCEPT ![w] = held[w] + Expected(w)]
      BY <2>1 DEF TypeOK, Pending, Waiting
    <2>4. Total(Pending)' = Total(Pending) + Expected(w)
      <3> DEFINE place == IF pc[w] = "reserve" THEN "open" ELSE "upload"
      <3>1. place \in Places /\ place \notin {"idle", "release"}
            /\ held[w] + Expected(w) \in Nat
        BY <2>2, <2>3 DEF Places
      <3>2. Total(Pending)' = Total(Pending) - Pending[w]
              + (IF place \in {"idle", "release"} THEN 0 ELSE held[w] + Expected(w))
        <4>1. pc' = [pc EXCEPT ![w] = place]
          OBVIOUS
        <4> HIDE DEF place
        <4> QED BY <3>1, <4>1, <2>3, PendingMoves
      <3> HIDE DEF place
      <3> QED BY <3>1, <3>2, <2>2, <2>3, TotalTypes
    <2>5. Total(held)' = Total(held) + Expected(w)
      <3>1. held \in [Workers -> Nat] /\ IsFiniteSet(Workers)
            /\ held[w] + Expected(w) \in Nat
        BY <2>2, <2>3, ConstantsValid DEF TypeOK
      <3>2. Total([held EXCEPT ![w] = held[w] + Expected(w)])
              = Total(held) - held[w] + (held[w] + Expected(w))
        BY <3>1, TotalExcept
      <3> QED BY <2>2, <2>3, <3>2, TotalTypes
    <2>6. BronzeUsage' = BronzeUsage
      BY DEF BronzeUsage, store
    <2>7. PendingFits'
      <3>1. BronzeUsage + Total(Pending) <= usage + reserved
        BY <2>1 DEF WindowInv, CheckCovers
      <3>2. usage + (Expected(w) + reserved) <= HighWatermark
        BY DEF Fits, Demand
      <3> QED BY <2>2, <2>3, <2>4, <2>6, <3>1, <3>2, TotalTypes, PolicyValid
              DEF PendingFits
    <2>8. ReservationsBalance' /\ BronzeSizes'
      BY <2>5 DEF WindowInv, ReservationsBalance, BronzeSizes, store
    <2>9. HeldCovers'
      <3>1. CASE pc[w] = "reserve"
        BY <3>1, <2>1, <2>3, ConstantsValid DEF WindowInv, HeldCovers, TypeOK, Expected
      <3>2. CASE pc[w] = "reserveMore"
        <4>1. held[w] = ManifestSize[job[w]] /\ AdditionalCapacity(job[w]) > 0
              /\ Expected(w) = AdditionalCapacity(job[w])
          BY <3>2 DEF WindowInv, HeldCovers, Expected
        <4>2. ManifestSize[job[w]] \in Nat /\ UploadSize(job[w]) \in Nat
          BY <2>1, SizeTypes, ConstantsValid
        <4>3. held[w] + Expected(w) >= UploadSize(job[w]) /\ UploadSize(job[w]) > 0
          BY <4>1, <4>2 DEF AdditionalCapacity
        <4> QED BY <3>2, <4>3, <2>1, <2>3 DEF WindowInv, HeldCovers, TypeOK
      <3> QED BY <2>1, <3>1, <3>2 DEF Waiting
    <2> QED BY <2>7, <2>8, <2>9, UnlockedCovers DEF WindowInv
  <1>6. CASE Pressure(w)
    <2> USE <1>6 DEF Pressure
    <2>1. BronzeUsage' = BronzeUsage /\ Pending' = Pending
      BY DEF BronzeUsage, Pending, store, workers
    <2>2. ReservationsBalance' /\ PendingFits' /\ BronzeSizes' /\ HeldCovers'
      BY <2>1 DEF WindowInv, ReservationsBalance, PendingFits, BronzeSizes,
                  HeldCovers, store, workers
    <2> QED BY <2>2, UnlockedCovers DEF WindowInv
  <1> QED BY <1>1, <1>2, <1>3, <1>4, <1>5, <1>6 DEF GateStep

(* A step of the check that moves no worker, no byte and no reservation has  *)
(* only the check itself to account for.                                     *)
LEMMA QuietStep ==
    ASSUME TypeOK, WindowInv, UNCHANGED <<bronze, pc, job, held, reserved>>,
           CheckCovers'
    PROVE  WindowInv'
  <1>1. BronzeUsage' = BronzeUsage /\ Pending' = Pending
    BY DEF BronzeUsage, Pending
  <1> QED BY <1>1 DEF WindowInv, ReservationsBalance, PendingFits, BronzeSizes, HeldCovers

(* RunCleanup: the estimate never falls below what is really there. *)
LEMMA CleanupStepWindow ==
    ASSUME TypeOK, WindowInv, NEW w \in Workers, CleanupStep(w)
    PROVE  WindowInv'
  <1> USE DEF store, workers, check, bounds
  <1>1. CASE StartCleanup(w) /\ holder' = w
    <2> USE <1>1, ConstantsValid DEF StartCleanup
    <2>1. UNCHANGED <<bronze, pc, job, held, reserved>> /\ holder = w
          /\ phase' \in {"decide", "cleanup"} /\ usage' = BronzeUsage
      BY DEF Unlock
    <2>2. BronzeUsage' = BronzeUsage /\ Pending' = Pending
      BY <2>1 DEF BronzeUsage, Pending
    <2>3. BronzeUsage + Total(Pending) <= BronzeUsage + reserved
      BY TotalTypes DEF WindowInv, ReservationsBalance
    <2>4. Waiting(w)
      BY <2>1 DEF WindowInv, CheckCovers
    <2>5. CheckCovers'
      BY <2>1, <2>2, <2>3, <2>4 DEF CheckCovers, Waiting
    <2> QED BY <2>1, <2>5, QuietStep
  <1>2. CASE StartCleanup(w) /\ holder' # w
    <2> USE <1>2 DEF StartCleanup
    <2>1. Waiting(w) /\ Goto(w, "release") /\ Unlock
          /\ UNCHANGED <<bronze, job, held, reserved>>
      BY ConstantsValid DEF WindowInv, CheckCovers
    <2> QED BY <2>1, GiveUp, UnlockedCovers DEF WindowInv
  <1>3. CASE SkipCandidate(w) \/ MarkEvicting(w) \/ EndCleanup(w)
    <2>1. UNCHANGED <<bronze, pc, job, held, reserved, holder, usage>>
      BY <1>3 DEF SkipCandidate, MarkEvicting, EndCleanup
    <2>2. BronzeUsage' = BronzeUsage /\ Pending' = Pending
      BY <2>1 DEF BronzeUsage, Pending
    <2>3. phase = "cleanup" /\ phase' \in {"cleanup", "delete", "decide"}
          /\ (phase' = "delete" => victim' \in Products /\ bronze[victim'] > 0)
      BY <1>3 DEF SkipCandidate, MarkEvicting, EndCleanup, TypeOK, Evictable
    <2>4. CheckCovers'
      BY <2>1, <2>2, <2>3 DEF WindowInv, CheckCovers, Waiting
    <2> QED BY <2>1, <2>4, QuietStep
  <1>4. CASE DeleteBronze(w)
    <2> USE <1>4 DEF DeleteBronze
    <2> DEFINE v == victim
    <2>1. v \in Products /\ bronze[v] > 0 /\ UploadSize(v) \in Nat
          /\ bronze[v] = UploadSize(v) /\ RecordedSize(v) = UploadSize(v)
      BY SizeTypes DEF WindowInv, CheckCovers, BronzeSizes, TypeOK
    <2>2. Pending' = Pending
      BY DEF Pending
    <2>3. bronze' = bronze \/ bronze' = [bronze EXCEPT ![v] = 0]
      BY DEF MaybeWritten
    <2>4. bronze' = [bronze EXCEPT ![v] = 0] =>
             BronzeUsage' = BronzeUsage - UploadSize(v)
      <3>1. bronze \in [Products -> Nat] /\ IsFiniteSet(Products) /\ 0 \in Nat
        BY ConstantsValid DEF TypeOK
      <3> HIDE DEF v
      <3>2. Total([bronze EXCEPT ![v] = 0]) = Total(bronze) - bronze[v] + 0
        BY <2>1, <3>1, TotalExcept
      <3> QED BY <2>1, <3>2, TotalTypes DEF BronzeUsage
    <2>5. bronze' = bronze => BronzeUsage' = BronzeUsage
      BY DEF BronzeUsage
    <2>6. BronzeUsage' <= BronzeUsage /\ BronzeUsage' \in Int
      BY <2>1, <2>3, <2>4, <2>5, TotalTypes
    <2>7. ReservationsBalance' /\ HeldCovers'
      BY DEF WindowInv, ReservationsBalance, HeldCovers
    <2>8. PendingFits'
      BY <2>2, <2>6, TotalTypes, PolicyValid DEF WindowInv, PendingFits
    <2>9. BronzeSizes'
      BY <2>1, <2>3 DEF WindowInv, BronzeSizes, TypeOK
    <2>10. CheckCovers'
      <3>1. phase' \in {"verify", "markFailed"} /\ UNCHANGED <<holder, victim, usage, reserved, pc>>
            /\ (phase' = "verify" => bronze' = [bronze EXCEPT ![v] = 0])
        OBVIOUS
      <3>2. Waiting(holder)'
        BY <3>1, ConstantsValid DEF WindowInv, CheckCovers, Waiting
      <3>3. BronzeUsage + Total(Pending) <= usage + reserved
        BY DEF WindowInv, CheckCovers
      <3>4. BronzeUsage' + Total(Pending) <= usage + reserved
        BY <2>6, <3>3, TotalTypes DEF TypeOK
      <3>5. phase' = "verify" => BronzeUsage' + Total(Pending) + RecordedSize(v)
                                   <= usage + reserved
        BY <2>1, <2>4, <3>1, <3>3, TotalTypes DEF TypeOK
      <3> QED BY <2>1, <2>2, <3>1, <3>2, <3>4, <3>5, ConstantsValid DEF CheckCovers
    <2> QED BY <2>7, <2>8, <2>9, <2>10 DEF WindowInv
  <1>5. CASE VerifyAbsent(w)
    <2> USE <1>5 DEF VerifyAbsent
    <2>1. BronzeUsage' = BronzeUsage /\ Pending' = Pending
      BY DEF BronzeUsage, Pending
    <2>2. CheckCovers'
      BY <2>1 DEF WindowInv, CheckCovers, Waiting
    <2> QED BY <2>2, QuietStep
  <1>6. CASE MarkFailed(w)
    <2> USE <1>6 DEF MarkFailed, PersistOutcome
    <2>1. BronzeUsage' = BronzeUsage /\ Pending' = Pending
      BY DEF BronzeUsage, Pending
    <2>2. CheckCovers'
      BY <2>1 DEF WindowInv, CheckCovers, Waiting
    <2> QED BY <2>2, QuietStep
  <1>7. CASE MarkDeleted(w)
    <2> USE <1>7 DEF MarkDeleted, PersistOutcome
    <2>1. BronzeUsage' = BronzeUsage /\ Pending' = Pending
      BY DEF BronzeUsage, Pending
    <2>2. RecordedSize(victim) \in Nat
      BY SizeTypes DEF WindowInv, CheckCovers
    <2>3. BronzeUsage + Total(Pending) <= (usage - RecordedSize(victim)) + reserved
      BY <2>2, TotalTypes DEF WindowInv, CheckCovers, TypeOK
    <2>4. CheckCovers'
      BY <2>1, <2>3 DEF WindowInv, CheckCovers, Waiting
    <2> QED BY <2>4, QuietStep
  <1> QED BY <1>1, <1>2, <1>3, <1>4, <1>5, <1>6, <1>7 DEF CleanupStep

(* Every step keeps the window invariant. *)
LEMMA NextWindow ==
    ASSUME TypeOK, WindowInv, [Next]_vars
    PROVE  WindowInv'
  <1>1. CASE StartRun
    <2> USE <1>1 DEF StartRun, store, workers, check
    <2>1. phase = "free" /\ holder = NoWorker
      BY DEF WindowInv, CheckCovers, Waiting, TypeOK
    <2>2. Total(held) = 0
      <3>1. held \in [Workers -> Nat] /\ \A w \in Workers : held[w] = 0
        BY DEF TypeOK, WindowInv, HeldCovers
      <3> QED BY <3>1, TotalZero
    <2>3. reserved' = reserved
      BY <2>2 DEF WindowInv, ReservationsBalance
    <2>4. CheckCovers'
      BY <2>1 DEF CheckCovers
    <2> QED BY <2>3, <2>4, QuietStep
  <1>2. CASE StopRun \/ UNCHANGED vars \/ \E p \in Products : StoreSilver(p) \/ CommitLineage(p)
    <2>1. UNCHANGED <<bronze, pc, job, held, reserved, check>>
      BY <1>2 DEF StopRun, StoreSilver, CommitLineage, vars, store, workers, check
    <2>2. BronzeUsage' = BronzeUsage /\ Pending' = Pending
      BY <2>1 DEF BronzeUsage, Pending
    <2>3. CheckCovers'
      BY <2>1, <2>2 DEF WindowInv, CheckCovers, Waiting, check
    <2> QED BY <2>1, <2>3, QuietStep
  <1>3. CASE Crash
    <2> USE <1>3 DEF Crash, store
    <2>1. BronzeUsage' = BronzeUsage
      BY DEF BronzeUsage
    <2>2. Total(held)' = 0
      <3>1. held' \in [Workers -> Nat] /\ \A w \in Workers : held'[w] = 0
        OBVIOUS
      <3> QED BY <3>1, TotalZero
    <2>3. Total(Pending)' = 0
      <3>1. Pending' \in [Workers -> Nat] /\ \A w \in Workers : Pending'[w] = 0
        BY DEF Pending
      <3> QED BY <3>1, TotalZero
    <2>4. ReservationsBalance' /\ BronzeSizes'
      BY <2>2 DEF WindowInv, ReservationsBalance, BronzeSizes
    <2>5. PendingFits'
      BY <2>1, <2>3, TotalTypes, PolicyValid DEF WindowInv, PendingFits
    <2>6. HeldCovers'
      BY DEF HeldCovers
    <2> QED BY <2>4, <2>5, <2>6, UnlockedCovers DEF WindowInv
  <1>4. ASSUME NEW w \in Workers, WorkerStep(w) \/ GateStep(w) \/ CleanupStep(w)
        PROVE  WindowInv'
    BY <1>4, StartProductWindow, OpenProductWindow, UploadWindow, ReleaseWindow,
       GateStepWindow, CleanupStepWindow DEF WorkerStep
  <1> QED BY <1>1, <1>2, <1>3, <1>4 DEF Next

-----------------------------------------------------------------------------
(* Type correctness and the window invariant, of every reachable state. *)
THEOREM WindowInvariant == Spec => [](TypeOK /\ WindowInv)
  <1>1. Init => TypeOK /\ WindowInv
    BY InitType, InitWindow
  <1>2. TypeOK /\ WindowInv /\ [Next]_vars => (TypeOK /\ WindowInv)'
    BY NextType, NextWindow DEF WindowInv
  <1> QED BY <1>1, <1>2, PTL DEF Spec

(* Every operation of the ingester, the lifecycle manager and the            *)
(* environment keeps the types: a reservation is never negative and a        *)
(* cleanup never has a victim outside its candidates' products.              *)
THEOREM WindowTypes == Spec => []TypeOK
  BY WindowInvariant, PTL

(* The Bronze bucket never holds more than the active-wave watermark, for    *)
(* every pool size, every manifest and every valid policy, whatever fails    *)
(* and whenever the ingester crashes (rollingCapacityGate.Acquire and        *)
(* CheckProjectedCapacity).                                                  *)
THEOREM CapacityIsBounded == Spec => []CapacityBound
  <1>1. TypeOK /\ WindowInv => CapacityBound
    BY TotalTypes, PolicyValid DEF WindowInv, PendingFits, CapacityBound
  <1> QED BY <1>1, WindowInvariant, PTL

-----------------------------------------------------------------------------
(* The eviction: what a cleanup has discovered stays true. *)

(* The eviction invariant holds initially. *)
LEMMA InitEviction == Init => EvictionInv
  BY DEF Init, EvictionInv, EvictionLeavesTrace

(* Steps outside the cleanup neither delete Bronze nor touch a checkpoint. *)
LEMMA OutsideCleanup ==
    ASSUME TypeOK, EvictionInv, UNCHANGED <<silver, committedAt, lifecycle>>,
           \A p \in Products : bronze[p] > 0 => bronze'[p] > 0,
           bronze' \in [Products -> Nat],
           \/ UNCHANGED check
           \/ candidates' = {} /\ phase' \in {"free", "preflight", "decide"}
           \/ UNCHANGED <<candidates, victim>> /\ phase' \in {"preflight", "decide"}
    PROVE  EvictionInv'
  <1>1. EvictionLeavesTrace'
    BY DEF EvictionInv, EvictionLeavesTrace, TypeOK
  <1>2. candidates' \subseteq candidates
    BY DEF check
  <1>3. phase' \in {"delete", "verify", "markDeleted", "markFailed"} => UNCHANGED check
    OBVIOUS
  <1> QED BY <1>1, <1>2, <1>3 DEF EvictionInv, Purgeable, check

(* The steps of RunCleanup and evict keep the eviction invariant. *)
LEMMA CleanupStepEviction ==
    ASSUME TypeOK, WindowInv, EvictionInv, NEW w \in Workers, CleanupStep(w)
    PROVE  EvictionInv'
  <1> USE DEF store, workers, check, bounds
  <1>1. CASE StartCleanup(w)
    <2> USE <1>1 DEF StartCleanup
    <2>1. EvictionLeavesTrace'
      BY DEF EvictionInv, EvictionLeavesTrace
    <2>2. phase' \in {"free", "decide", "cleanup"}
      BY DEF Unlock
    <2>3. candidates' \subseteq Purgeable
      <3>1. \/ candidates' = Candidates \/ candidates' \in MisreadCandidates
            \/ candidates' = candidates \/ candidates' = {}
        BY DEF Unlock
      <3> QED BY <3>1 DEF EvictionInv, MisreadCandidates, Candidates
    <2> QED BY <2>1, <2>2, <2>3 DEF EvictionInv, Purgeable
  <1>2. CASE SkipCandidate(w)
    <2> USE <1>2 DEF SkipCandidate
    <2>1. PICK p \in candidates :
             /\ candidates' = candidates \ {p}
             /\ lifecycle' \in {lifecycle, [lifecycle EXCEPT ![p] = "EVICTING"]}
      BY DEF MaybeWritten
    <2>2. p \in Products
      BY DEF TypeOK
    <2> QED BY <2>1, <2>2 DEF EvictionInv, Purgeable, EvictionLeavesTrace, TypeOK
  <1>3. CASE MarkEvicting(w)
    <2> USE <1>3 DEF MarkEvicting
    <2>1. PICK p \in candidates :
             /\ candidates' = candidates \ {p} /\ victim' = p /\ p \in silver
             /\ lifecycle' = [lifecycle EXCEPT ![p] = "EVICTING"]
      BY DEF Evictable
    <2>2. p \in Products
      BY DEF TypeOK
    <2> QED BY <2>1, <2>2 DEF EvictionInv, Purgeable, EvictionLeavesTrace, TypeOK
  <1>4. CASE DeleteBronze(w)
    <2> USE <1>4 DEF DeleteBronze
    <2>1. bronze' \in {bronze, [bronze EXCEPT ![victim] = 0]}
      BY DEF MaybeWritten
    <2>2. EvictionLeavesTrace'
      BY <2>1 DEF EvictionInv, EvictionLeavesTrace, TypeOK
    <2> QED BY <2>2 DEF EvictionInv, Purgeable
  <1>5. CASE VerifyAbsent(w)
    BY <1>5 DEF VerifyAbsent, EvictionInv, Purgeable, EvictionLeavesTrace
  <1>6. CASE MarkFailed(w) \/ MarkDeleted(w)
    <2>1. /\ lifecycle' \in {lifecycle, [lifecycle EXCEPT ![victim] = "EVICTION_FAILED"],
                             [lifecycle EXCEPT ![victim] = "RAW_DELETED"]}
          /\ phase' = "cleanup" /\ UNCHANGED <<bronze, committedAt, candidates>>
          /\ phase \in {"markFailed", "markDeleted"}
      BY <1>6 DEF MarkFailed, MarkDeleted, PersistOutcome, MaybeWritten
    <2>2. victim \in Products /\ victim \notin candidates
      BY <2>1 DEF EvictionInv
    <2>3. EvictionLeavesTrace'
      BY <2>1, <2>2 DEF EvictionInv, EvictionLeavesTrace, TypeOK
    <2> QED BY <2>1, <2>2, <2>3 DEF EvictionInv, Purgeable, TypeOK
  <1>7. CASE EndCleanup(w)
    BY <1>7 DEF EndCleanup, EvictionInv, EvictionLeavesTrace
  <1> QED BY <1>1, <1>2, <1>3, <1>4, <1>5, <1>6, <1>7 DEF CleanupStep

(* Every step keeps the eviction invariant. *)
LEMMA NextEviction ==
    ASSUME TypeOK, TypeOK', WindowInv, EvictionInv, [Next]_vars
    PROVE  EvictionInv'
  <1> USE DEF store, workers, check, bounds
  <1>1. CASE StartRun \/ StopRun \/ UNCHANGED vars
    BY <1>1, OutsideCleanup DEF StartRun, StopRun, vars, TypeOK
  <1>2. CASE Crash
    BY <1>2, OutsideCleanup DEF Crash, Unlock, TypeOK
  <1>3. ASSUME NEW w \in Workers, WorkerStep(w)
        PROVE  EvictionInv'
    <2>1. \A p \in Products : bronze[p] > 0 => bronze'[p] > 0
      <3>1. CASE Upload(w)
        <4>1. UploadSize(job[w]) > 0
          BY <3>1 DEF Upload, WindowInv, HeldCovers
        <4> QED BY <3>1, <4>1 DEF Upload, MaybeWritten, TypeOK
      <3>2. CASE ~Upload(w)
        BY <1>3, <3>2 DEF WorkerStep, StartProduct, OpenProduct, Release
      <3> QED BY <3>1, <3>2
    <2>2. UNCHANGED <<silver, committedAt, lifecycle, check>>
      BY <1>3 DEF WorkerStep, StartProduct, OpenProduct, Upload, Release
    <2> QED BY <2>1, <2>2, OutsideCleanup DEF TypeOK
  <1>4. ASSUME NEW w \in Workers, GateStep(w)
        PROVE  EvictionInv'
    <2>1. UNCHANGED <<bronze, silver, committedAt, lifecycle>>
      BY <1>4 DEF GateStep, CancelWait, RejectOversize, Preflight, Admit, Grant, Pressure
    <2>2. \/ UNCHANGED check
          \/ candidates' = {} /\ phase' \in {"free", "preflight", "decide"}
          \/ UNCHANGED <<candidates, victim>> /\ phase' \in {"preflight", "decide"}
      BY <1>4 DEF GateStep, CancelWait, RejectOversize, Preflight, Admit, Grant,
                  Pressure, Unlock
    <2> QED BY <2>1, <2>2, OutsideCleanup DEF TypeOK
  <1>5. ASSUME NEW w \in Workers, CleanupStep(w)
        PROVE  EvictionInv'
    BY <1>5, CleanupStepEviction
  <1>6. ASSUME NEW p \in Products, StoreSilver(p) \/ CommitLineage(p)
        PROVE  EvictionInv'
    <2>1. UNCHANGED <<bronze, lifecycle, check>> /\ silver \subseteq silver'
      BY <1>6 DEF StoreSilver, CommitLineage
    <2>2. \A q \in Products : committedAt'[q] > 0 =>
             committedAt[q] > 0 \/ bronze[q] > 0
      BY <1>6 DEF StoreSilver, CommitLineage, TypeOK
    <2>3. \A q \in Products : committedAt[q] > 0 => committedAt'[q] > 0
      <3>1. CASE StoreSilver(p)
        BY <3>1 DEF StoreSilver
      <3>2. CASE CommitLineage(p)
        BY <3>2 DEF CommitLineage, TypeOK
      <3> QED BY <1>6, <3>1, <3>2
    <2>4. EvictionLeavesTrace'
      BY <2>1, <2>2 DEF EvictionInv, EvictionLeavesTrace, TypeOK
    <2> QED BY <2>1, <2>3, <2>4 DEF EvictionInv, Purgeable, TypeOK
  <1> QED BY <1>1, <1>2, <1>3, <1>4, <1>5, <1>6 DEF Next

(* The eviction invariant, of every reachable state. *)
THEOREM EvictionInvariant == Spec => [](TypeOK /\ WindowInv /\ EvictionInv)
  <1>1. Init => TypeOK /\ WindowInv /\ EvictionInv
    BY InitType, InitWindow, InitEviction
  <1>2. TypeOK /\ WindowInv /\ EvictionInv /\ [Next]_vars
          => (TypeOK /\ WindowInv /\ EvictionInv)'
    BY NextType, NextWindow, NextEviction DEF WindowInv
  <1> QED BY <1>1, <1>2, PTL DEF Spec

(* No Bronze object whose lineage is committed disappears without a          *)
(* lifecycle checkpoint, whatever call of evict fails and wherever it stops. *)
THEOREM EvictionIsTraced == Spec => []EvictionLeavesTrace
  <1>1. EvictionInv => EvictionLeavesTrace
    BY DEF EvictionInv
  <1> QED BY <1>1, EvictionInvariant, PTL

(* Bronze is purged only once Silver and eligible lineage are durable, and   *)
(* after EVICTING is (evict, revalidate, discoverCandidates).                *)
THEOREM EvictionIsSafe == Spec => SafeEviction
  <1> DEFINE Safe == \A p \in Products :
                        bronze[p] > 0 /\ bronze'[p] = 0 =>
                          /\ p \in silver /\ committedAt[p] > 0 /\ p \notin Ineligible
                          /\ lifecycle[p] = "EVICTING"
  <1>1. TypeOK /\ WindowInv /\ EvictionInv /\ [Next]_vars => [Safe]_vars
    <2> SUFFICES ASSUME TypeOK, WindowInv, EvictionInv, [Next]_vars PROVE Safe
      OBVIOUS
    <2> USE DEF store, workers, check, bounds
    <2>1. ASSUME NEW w \in Workers, DeleteBronze(w) PROVE Safe
      <3>1. \A p \in Products : bronze'[p] # bronze[p] => p = victim
        BY <2>1 DEF DeleteBronze, MaybeWritten, TypeOK
      <3> QED BY <2>1, <3>1 DEF DeleteBronze, EvictionInv
    <2>2. ASSUME NEW w \in Workers, Upload(w) PROVE Safe
      <3>1. UploadSize(job[w]) > 0
        BY <2>2 DEF Upload, WindowInv, HeldCovers
      <3> QED BY <2>2, <3>1 DEF Upload, MaybeWritten, TypeOK
    <2>3. CASE UNCHANGED bronze
      BY <2>3
    <2>4. UNCHANGED bronze \/ \E w \in Workers : DeleteBronze(w) \/ Upload(w)
      BY DEF Next, StartRun, StopRun, Crash, WorkerStep, StartProduct, OpenProduct,
             Release, GateStep, CancelWait, RejectOversize, Preflight, Admit, Grant,
             Pressure, CleanupStep, StartCleanup, SkipCandidate, MarkEvicting,
             VerifyAbsent, MarkFailed, MarkDeleted, PersistOutcome, EndCleanup,
             StoreSilver, CommitLineage, vars
    <2> QED BY <2>1, <2>2, <2>3, <2>4
  <1> QED BY <1>1, EvictionInvariant, PTL DEF Spec, SafeEviction

-----------------------------------------------------------------------------
(* A deletion is begun only for objects that exist and an outcome recorded   *)
(* only for a deletion that was begun, across faults, runs and crashes.      *)
THEOREM LifecycleIsOrdered == Spec => LifecycleOrder
  <1> DEFINE Ordered == \A p \in Products :
          lifecycle'[p] # lifecycle[p] =>
            IF lifecycle'[p] = "EVICTING"
            THEN bronze[p] > 0 /\ p \in silver
            ELSE lifecycle[p] = "EVICTING" /\ lifecycle'[p] # "NONE"
  <1>1. TypeOK /\ WindowInv /\ EvictionInv /\ [Next]_vars => [Ordered]_vars
    <2> SUFFICES ASSUME TypeOK, WindowInv, EvictionInv, [Next]_vars PROVE Ordered
      OBVIOUS
    <2> USE DEF store, workers, check, bounds
    <2>1. CASE \E p \in candidates : /\ Evictable(p)
                  /\ lifecycle' = [lifecycle EXCEPT ![p] = "EVICTING"]
      BY <2>1 DEF Evictable, TypeOK
    <2>2. CASE /\ phase \in {"markFailed", "markDeleted"}
               /\ \/ lifecycle' = [lifecycle EXCEPT ![victim] = "EVICTION_FAILED"]
                  \/ lifecycle' = [lifecycle EXCEPT ![victim] = "RAW_DELETED"]
      BY <2>2 DEF EvictionInv, TypeOK
    <2>3. CASE UNCHANGED lifecycle
      BY <2>3
    <2>4. \/ UNCHANGED lifecycle
          \/ \E p \in candidates : /\ Evictable(p)
                /\ lifecycle' = [lifecycle EXCEPT ![p] = "EVICTING"]
          \/ /\ phase \in {"markFailed", "markDeleted"}
             /\ \/ lifecycle' = [lifecycle EXCEPT ![victim] = "EVICTION_FAILED"]
                \/ lifecycle' = [lifecycle EXCEPT ![victim] = "RAW_DELETED"]
      BY DEF Next, StartRun, StopRun, Crash, WorkerStep, StartProduct, OpenProduct,
             Upload, Release, GateStep, CancelWait, RejectOversize, Preflight,
             Admit, Grant, Pressure, CleanupStep, StartCleanup, SkipCandidate,
             MarkEvicting, DeleteBronze, VerifyAbsent, MarkFailed, MarkDeleted,
             PersistOutcome, EndCleanup, StoreSilver, CommitLineage, MaybeWritten,
             vars
    <2> QED BY <2>1, <2>2, <2>3, <2>4
  <1> QED BY <1>1, EvictionInvariant, PTL DEF Spec, LifecycleOrder

(* The ingester implements the pipeline's contract: it purges a product only *)
(* when its Silver object and its eligible lineage record are durable, from  *)
(* whatever state a crash or a failed call has left (evict, revalidate).     *)
THEOREM WindowKeepsContract == Spec => ImplementsMedallion
  <1> DEFINE Raw == {p \in Products : bronze[p] > 0}
             Committed == {p \in Products : committedAt[p] > 0}
  <1>1. Init => Contract!Init
    BY DEF Init, Contract!Init
  <1>2. TypeOK /\ WindowInv /\ EvictionInv /\ [Next]_vars
          => [Contract!Next]_(Contract!vars)
    <2> SUFFICES ASSUME TypeOK, WindowInv, EvictionInv, [Next]_vars
                 PROVE  [Contract!Next]_(Contract!vars)
      OBVIOUS
    <2> USE DEF store, workers, check, bounds
    <2>1. CASE UNCHANGED <<bronze, silver, committedAt>>
      BY <2>1 DEF Contract!vars
    <2>2. ASSUME NEW w \in Workers, Upload(w) PROVE [Contract!Next]_(Contract!vars)
      <3>1. job[w] \in Products /\ UploadSize(job[w]) > 0
        BY <2>2 DEF Upload, WindowInv, HeldCovers
      <3>2. /\ bronze' \in {bronze, [bronze EXCEPT ![job[w]] = UploadSize(job[w])]}
            /\ UNCHANGED <<silver, committedAt>>
        BY <2>2 DEF Upload, MaybeWritten
      <3>3. Raw' \in {Raw, Raw \cup {job[w]}}
        BY <3>1, <3>2 DEF TypeOK
      <3> QED BY <3>1, <3>2, <3>3 DEF Contract!Next, Contract!Ingest, Contract!vars
    <2>3. ASSUME NEW w \in Workers, DeleteBronze(w)
          PROVE  [Contract!Next]_(Contract!vars)
      <3>1. /\ victim \in Products /\ victim \in silver /\ victim \in Committed
            /\ victim \notin Ineligible
        BY <2>3 DEF DeleteBronze, EvictionInv
      <3>2. /\ bronze' \in {bronze, [bronze EXCEPT ![victim] = 0]}
            /\ UNCHANGED <<silver, committedAt>>
        BY <2>3 DEF DeleteBronze, MaybeWritten
      <3>3. Raw' \in {Raw, Raw \ {victim}}
        BY <3>1, <3>2 DEF TypeOK
      <3> QED BY <3>1, <3>2, <3>3 DEF Contract!Next, Contract!Purge, Contract!vars
    <2>4. ASSUME NEW p \in Products, StoreSilver(p)
          PROVE  [Contract!Next]_(Contract!vars)
      BY <2>4 DEF StoreSilver, Contract!Next, Contract!StoreSilver
    <2>5. ASSUME NEW p \in Products, CommitLineage(p)
          PROVE  [Contract!Next]_(Contract!vars)
      <3>1. IsFiniteSet({q \in Products : committedAt[q] > 0})
        BY ConstantsValid, FS_Subset
      <3>2. 1 + Cardinality({q \in Products : committedAt[q] > 0}) > 0
        BY <3>1, FS_CardinalityType
      <3>3. Committed' = Committed \cup {p}
        BY <2>5, <3>2 DEF CommitLineage, TypeOK
      <3> QED
        BY <2>5, <3>3 DEF CommitLineage, Contract!Next, Contract!CommitLineage
    <2>6. \/ UNCHANGED <<bronze, silver, committedAt>>
          \/ \E w \in Workers : Upload(w) \/ DeleteBronze(w)
          \/ \E p \in Products : StoreSilver(p) \/ CommitLineage(p)
      BY DEF Next, StartRun, StopRun, Crash, WorkerStep, StartProduct, OpenProduct,
             Release, GateStep, CancelWait, RejectOversize, Preflight, Admit, Grant,
             Pressure, CleanupStep, StartCleanup, SkipCandidate, MarkEvicting,
             VerifyAbsent, MarkFailed, MarkDeleted, PersistOutcome, EndCleanup, vars
    <2> QED BY <2>1, <2>2, <2>3, <2>4, <2>5, <2>6
  <1> QED
    BY <1>1, <1>2, EvictionInvariant, PTL
    DEF Spec, ImplementsMedallion, Contract!Spec

=============================================================================
