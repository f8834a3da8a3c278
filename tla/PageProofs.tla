----------------------------- MODULE PageProofs -----------------------------
(***************************************************************************)
(* Further invariants of the pages of the workbench, for any catalog, lake *)
(* and ledger, any page sizes and any number of requests on their way:     *)
(* what target discovery, the lakehouse, the lineage explorer, the         *)
(* labeling studio, the training lab and the model pages show belongs to   *)
(* what they claim to show, and a page that waits has a request to wait    *)
(* for.                                                                    *)
(***************************************************************************)
EXTENDS WorkbenchProofs, PanelTheorems, TotalsTheorems, SequenceTheorems

LEMMA SequenceOf ==
    ASSUME NEW S, NEW n \in Nat, NEW t \in [1 .. n -> S]
    PROVE  t \in Seq(S) /\ Len(t) = n /\ DOMAIN t = 1 .. n
  OBVIOUS

(* The indices that a server keeps of its table, in order. *)
LEMMA KeptIndices ==
    ASSUME NEW S, NEW s \in Seq(S), NEW I \in SUBSET (DOMAIN s)
    PROVE  /\ InOrder(I) \in Seq(I) /\ Len(InOrder(I)) \in Nat
           /\ DOMAIN InOrder(I) = 1 .. Len(InOrder(I))
           /\ \A k \in 1 .. Len(InOrder(I)) : InOrder(I)[k] \in I /\ s[InOrder(I)[k]] \in S
           /\ \A k, m \in 1 .. Len(InOrder(I)) : InOrder(I)[k] = InOrder(I)[m] => k = m
  <1>1. I \in SUBSET Int /\ IsFiniteSet(I)
    <2>1. DOMAIN s = 1 .. Len(s) /\ Len(s) \in Nat
      OBVIOUS
    <2>2. IsFiniteSet(1 .. Len(s))
      BY <2>1, FS_Interval
    <2> QED BY <2>1, <2>2, FS_Subset
  <1> DEFINE n == Cardinality(I)
             t == InOrder(I)
  <1>2. /\ n \in Nat /\ t \in [1 .. n -> I]
        /\ \A k, m \in 1 .. n : k < m => t[k] < t[m]
    BY <1>1, InOrderEnumerates
  <1> HIDE DEF n, t
  <1>3. t \in Seq(I) /\ Len(t) = n /\ DOMAIN t = 1 .. n
    BY <1>2
  <1>4. \A k \in 1 .. n : t[k] \in I /\ t[k] \in Int
    BY <1>1, <1>2
  <1>5. \A k \in 1 .. n : s[t[k]] \in S
    BY <1>4
  <1>6. ASSUME NEW k \in 1 .. n, NEW m \in 1 .. n, t[k] = t[m] PROVE k = m
    BY <1>2, <1>4, <1>6
  <1> QED BY <1>2, <1>3, <1>4, <1>5, <1>6 DEF t

-----------------------------------------------------------------------------
(* Target discovery: the latest request asks what was asked last, a served   *)
(* page fits the filters and the offset of its request, and the page on      *)
(* screen those that stand above it.                                         *)
Targets == [tic : STRING, lightcurve : BOOLEAN, candidate : BOOLEAN, toi : BOOLEAN]
TargetBodies == [targets : Seq(Targets), total : Nat, more : BOOLEAN]
TargetQuestions == [filters : TargetFilters, offset : Nat]
TargetReads ==
    [filters : TargetFilters, offset : Nat, phase : {"sent", "served"}, body : TargetBodies,
     latest : BOOLEAN]
DiscoveryRecords ==
    [draft : TargetFilters, applied : TargetFilters, targets : Seq(Targets), total : Nat,
     offset : Nat, more : BOOLEAN, loading : BOOLEAN, updating : BOOLEAN, error : BOOLEAN,
     reads : SUBSET TargetReads, asked : TargetQuestions]

PageFits(filters, offset, targets, total) ==
    /\ targets # <<>> => offset + Len(targets) <= total
    /\ filters = "scored" => \A i \in DOMAIN targets : targets[i].candidate

LatestAsks(d) == \A r \in d.reads : r.latest => d.asked = [filters |-> r.filters, offset |-> r.offset]
ServedFit(reads) ==
    \A r \in reads : r.phase = "served" => PageFits(r.filters, r.offset, r.body.targets, r.body.total)
ShownFit(d) == PageFits(d.applied, d.offset, d.targets, d.total)
ShownAsked(d) ==
    ~d.loading /\ ~d.updating /\ ~d.error => d.asked = [filters |-> d.applied, offset |-> d.offset]
TargetsAwaited(d) == d.loading \/ d.updating => \E r \in d.reads : r.latest
DiscoveryFits(d) ==
    /\ d \in DiscoveryRecords /\ LatestAsks(d) /\ ServedFit(d.reads)
    /\ ShownFit(d) /\ ShownAsked(d) /\ TargetsAwaited(d)
DiscoveryInv == DiscoveryFits(discovery) /\ catalog \in SUBSET (DOMAIN CatalogOrder)

LEMMA DiscoveryMoves ==
    ASSUME [Next]_vars
    PROVE  \/ /\ discovery' = MountedDiscovery
              /\ \E open \in BOOLEAN : catalog' \in CatalogServers(open)
           \/ UNCHANGED discoveryVars
           \/ DiscoveryNext
  <1>1. CASE Leave \/ \E p \in WorkPages : Open(p)
    <2>1. \E p : Mounts(p)
      BY <1>1 DEF Leave, Open
    <2> QED BY <2>1 DEF Mounts
  <1>2. CASE InFactory \/ InObservatory \/ InStore \/ UNCHANGED vars
    BY <1>2 DEF InFactory, InObservatory, InStore, vars, observatoryVars, discoveryVars
  <1> QED BY <1>1, <1>2 DEF Next

LEMMA NoTargetsTyped == NoTargets \in TargetBodies
  BY DEF NoTargets, TargetBodies

(* A new question: every request before it is an old one. *)
LEMMA TargetsAsked ==
    ASSUME NEW p \in DiscoveryRecords, NEW filters \in TargetFilters, NEW offset \in Nat,
           NEW mode \in {"initial", "query", "refresh"},
           NEW d, d = LoadTargets(p, filters, offset, mode), ServedFit(p.reads), ShownFit(p)
    PROVE  DiscoveryFits(d)
  <1> DEFINE question == [filters |-> filters, offset |-> offset]
             asked == [filters |-> filters, offset |-> offset, phase |-> "sent",
                       body |-> NoTargets, latest |-> TRUE]
             old == {[r EXCEPT !.latest = FALSE] : r \in p.reads}
             first == mode = "initial"
  <1>1. asked \in TargetReads /\ question \in TargetQuestions
    BY NoTargetsTyped DEF TargetReads, TargetQuestions
  <1>2. ASSUME NEW r \in old
        PROVE  /\ r \in TargetReads /\ ~r.latest
               /\ r.phase = "served" => PageFits(r.filters, r.offset, r.body.targets, r.body.total)
    <2>1. PICK q \in p.reads : r = [q EXCEPT !.latest = FALSE]
      OBVIOUS
    <2>2. q \in TargetReads
      BY DEF DiscoveryRecords
    <2>3. r \in TargetReads
      BY <2>1, <2>2 DEF TargetReads
    <2>4. /\ ~r.latest /\ r.phase = q.phase /\ r.body = q.body
          /\ r.filters = q.filters /\ r.offset = q.offset
      BY <2>1, <2>2 DEF TargetReads
    <2> QED BY <2>3, <2>4 DEF ServedFit
  <1>3. d = [p EXCEPT !.reads = old \cup {asked}, !.error = FALSE,
                               !.loading = p.loading \/ first, !.updating = p.updating \/ ~first,
                               !.asked = question]
    BY DEF LoadTargets
  <1>4. /\ asked.latest /\ asked.filters = filters /\ asked.offset = offset /\ asked.phase = "sent"
    OBVIOUS
  <1>5. first \in BOOLEAN
    OBVIOUS
  <1> HIDE DEF asked, old, first
  <1>6. old \cup {asked} \in SUBSET TargetReads
    BY <1>1, <1>2
  <1>7. /\ d.reads = old \cup {asked} /\ d.asked = question
        /\ d.applied = p.applied /\ d.offset = p.offset
        /\ d.targets = p.targets /\ d.total = p.total
        /\ d.loading \/ d.updating
    BY <1>3, <1>5 DEF DiscoveryRecords
  <1>8. d \in DiscoveryRecords
    <2>1. (p.loading \/ first) \in BOOLEAN /\ (p.updating \/ ~first) \in BOOLEAN
      BY <1>5 DEF DiscoveryRecords
    <2> HIDE DEF question
    <2> QED BY <1>1, <1>3, <1>6, <2>1 DEF DiscoveryRecords
  <1>9. LatestAsks(d)
    BY <1>2, <1>4, <1>7 DEF LatestAsks
  <1>10. ServedFit(d.reads)
    BY <1>2, <1>4, <1>7 DEF ServedFit
  <1>11. ShownFit(d) /\ ShownAsked(d) /\ TargetsAwaited(d)
    BY <1>4, <1>7 DEF ShownFit, ShownAsked, TargetsAwaited
  <1> QED BY <1>8, <1>9, <1>10, <1>11 DEF DiscoveryFits

LEMMA DiscoveryMounted == DiscoveryFits(MountedDiscovery)
  <1> DEFINE question == [filters |-> "all", offset |-> 0]
             p == [draft |-> "all", applied |-> "all", targets |-> <<>>, total |-> 0,
                   offset |-> 0, more |-> FALSE, loading |-> FALSE, updating |-> FALSE,
                   error |-> FALSE, reads |-> {}, asked |-> question]
  <1>1. question \in TargetQuestions
    BY DEF TargetQuestions, TargetFilters
  <1>2. p \in DiscoveryRecords
    <2> HIDE DEF question
    <2> QED BY <1>1 DEF DiscoveryRecords, TargetFilters
  <1>3. ServedFit(p.reads) /\ ShownFit(p)
    BY DEF ServedFit, ShownFit, PageFits
  <1>4. MountedDiscovery = LoadTargets(p, "all", 0, "initial")
    BY DEF MountedDiscovery
  <1> HIDE DEF p
  <1> QED BY <1>2, <1>3, <1>4, TargetsAsked DEF TargetFilters

LEMMA CatalogServersTyped ==
    ASSUME NEW open \in BOOLEAN, NEW c \in CatalogServers(open)
    PROVE  c \in SUBSET (DOMAIN CatalogOrder)
  BY DEF CatalogServers

(* What go-api answers lies inside the total and matches the filter. *)
LEMMA ServedPage ==
    ASSUME NEW I \in SUBSET (DOMAIN CatalogOrder), NEW offset \in Nat, NEW filters \in TargetFilters,
           filters = "scored" => \A i \in I : CatalogOrder[i].candidate,
           NEW last, last = IF offset + TargetPageSize < Len(InOrder(I)) THEN offset + TargetPageSize
                            ELSE Len(InOrder(I)),
           NEW targets,
           targets = [i \in 1 .. (IF last > offset THEN last - offset ELSE 0)
                        |-> CatalogOrder[InOrder(I)[offset + i]]]
    PROVE  /\ targets \in Seq(Targets) /\ Len(InOrder(I)) \in Nat
           /\ (last < Len(InOrder(I))) \in BOOLEAN
           /\ PageFits(filters, offset, targets, Len(InOrder(I)))
  <1> DEFINE n == Len(InOrder(I))
             count == IF last > offset THEN last - offset ELSE 0
  <1>1. CatalogOrder \in Seq(Targets)
    BY DiscoveryConstants DEF Targets
  <1>2. n \in Nat /\ \A k \in 1 .. n : InOrder(I)[k] \in I /\ CatalogOrder[InOrder(I)[k]] \in Targets
    BY <1>1, KeptIndices
  <1>3. last \in Nat /\ last <= n
    <2> HIDE DEF n
    <2> QED BY <1>2, DiscoveryConstants DEF n
  <1>4. count \in Nat /\ (count > 0 => offset + count = last)
    BY <1>3
  <1>5. targets = [i \in 1 .. count |-> CatalogOrder[InOrder(I)[offset + i]]]
    OBVIOUS
  <1> HIDE DEF n, count
  <1>6. ASSUME NEW i \in 1 .. count PROVE offset + i \in 1 .. n
    BY <1>2, <1>3, <1>4
  <1>7. \A i \in 1 .. count : CatalogOrder[InOrder(I)[offset + i]] \in Targets
    BY <1>2, <1>6
  <1>8. targets \in Seq(Targets) /\ Len(targets) = count /\ DOMAIN targets = 1 .. count
    <2>1. targets \in [1 .. count -> Targets]
      BY <1>5, <1>7
    <2>2. count \in Nat
      BY <1>4
    <2> QED BY ONLY <2>1, <2>2, SequenceOf
  <1>9. targets # <<>> => offset + Len(targets) <= n
    <2>1. targets # <<>> => count > 0
      BY <1>4, <1>8
    <2> QED BY <1>2, <1>3, <1>4, <1>8, <2>1
  <1>10. filters = "scored" => \A i \in DOMAIN targets : targets[i].candidate
    BY <1>2, <1>5, <1>6, <1>8
  <1> QED BY <1>2, <1>8, <1>9, <1>10 DEF PageFits, n

LEMMA TargetsServed ==
    ASSUME DiscoveryInv, NEW r \in discovery.reads, ServeTargets(r)
    PROVE  DiscoveryInv'
  <1> DEFINE I == {i \in catalog : r.filters = "scored" => CatalogOrder[i].candidate}
             rows == InOrder(I)
             last == IF r.offset + TargetPageSize < Len(rows) THEN r.offset + TargetPageSize
                     ELSE Len(rows)
             targets == [i \in 1 .. (IF last > r.offset THEN last - r.offset ELSE 0)
                           |-> CatalogOrder[rows[r.offset + i]]]
             more == last < Len(rows)
             body == [targets |-> targets, total |-> Len(rows), more |-> more]
             served == [r EXCEPT !.phase = "served", !.body = body]
  <1>1. r \in TargetReads /\ discovery \in DiscoveryRecords
    BY DEF DiscoveryInv, DiscoveryFits, DiscoveryRecords
  <1>2. I \in SUBSET (DOMAIN CatalogOrder) /\ r.offset \in Nat /\ r.filters \in TargetFilters
    BY <1>1 DEF DiscoveryInv, TargetReads
  <1>3. r.filters = "scored" => \A i \in I : CatalogOrder[i].candidate
    OBVIOUS
  <1>4. discovery' = [discovery EXCEPT !.reads = (@ \ {r}) \cup {served}] /\ catalog' = catalog
    BY DEF ServeTargets
  <1>5. /\ targets \in Seq(Targets) /\ Len(rows) \in Nat /\ more \in BOOLEAN
        /\ PageFits(r.filters, r.offset, targets, Len(rows))
    <2> HIDE DEF I
    <2> QED BY <1>2, <1>3, ServedPage
  <1> HIDE DEF targets, rows, more
  <1>6. body \in TargetBodies /\ body.targets = targets /\ body.total = Len(rows)
    BY <1>5 DEF TargetBodies
  <1> HIDE DEF body
  <1>7. served \in TargetReads
    BY <1>1, <1>6 DEF TargetReads
  <1>8. /\ served.latest = r.latest /\ served.filters = r.filters /\ served.offset = r.offset
        /\ served.body = body
    BY <1>1 DEF TargetReads
  <1> HIDE DEF served
  <1>9. /\ discovery' \in DiscoveryRecords
        /\ discovery'.reads = (discovery.reads \ {r}) \cup {served}
        /\ discovery'.asked = discovery.asked
        /\ discovery'.applied = discovery.applied /\ discovery'.offset = discovery.offset
        /\ discovery'.targets = discovery.targets /\ discovery'.total = discovery.total
        /\ discovery'.loading = discovery.loading /\ discovery'.updating = discovery.updating
        /\ discovery'.error = discovery.error
    BY <1>1, <1>4, <1>7 DEF DiscoveryRecords
  <1>10. LatestAsks(discovery') /\ TargetsAwaited(discovery')
    BY <1>8, <1>9 DEF DiscoveryInv, DiscoveryFits, LatestAsks, TargetsAwaited
  <1>11. ServedFit(discovery'.reads)
    BY <1>5, <1>6, <1>8, <1>9 DEF DiscoveryInv, DiscoveryFits, ServedFit
  <1>12. ShownFit(discovery') /\ ShownAsked(discovery')
    BY <1>9 DEF DiscoveryInv, DiscoveryFits, ShownFit, ShownAsked
  <1> QED BY <1>4, <1>9, <1>10, <1>11, <1>12 DEF DiscoveryInv, DiscoveryFits

(* An answer or a failure of an older request only leaves. *)
LEMMA OldTargets ==
    ASSUME DiscoveryInv, NEW r \in discovery.reads, ~r.latest, UNCHANGED catalog,
           discovery' = [discovery EXCEPT !.reads = @ \ {r}]
    PROVE  DiscoveryInv'
  <1>1. /\ discovery' \in DiscoveryRecords
        /\ discovery'.reads = discovery.reads \ {r}
        /\ discovery'.asked = discovery.asked
        /\ discovery'.applied = discovery.applied /\ discovery'.offset = discovery.offset
        /\ discovery'.targets = discovery.targets /\ discovery'.total = discovery.total
        /\ discovery'.loading = discovery.loading /\ discovery'.updating = discovery.updating
        /\ discovery'.error = discovery.error
    BY DEF DiscoveryInv, DiscoveryFits, DiscoveryRecords
  <1>2. LatestAsks(discovery') /\ TargetsAwaited(discovery') /\ ServedFit(discovery'.reads)
    BY <1>1 DEF DiscoveryInv, DiscoveryFits, LatestAsks, TargetsAwaited, ServedFit
  <1>3. ShownFit(discovery') /\ ShownAsked(discovery')
    BY <1>1 DEF DiscoveryInv, DiscoveryFits, ShownFit, ShownAsked
  <1> QED BY <1>1, <1>2, <1>3 DEF DiscoveryInv, DiscoveryFits

LEMMA LatestTargets ==
    ASSUME DiscoveryInv, NEW r \in discovery.reads, r.latest, TargetsAnswered(r)
    PROVE  DiscoveryInv'
  <1> DEFINE p == [discovery EXCEPT !.reads = @ \ {r}]
  <1>1. /\ r \in TargetReads /\ r.phase = "served" /\ catalog' = catalog
        /\ discovery \in DiscoveryRecords
    BY DEF DiscoveryInv, DiscoveryFits, DiscoveryRecords, TargetsAnswered
  <1>2. r.body \in TargetBodies /\ r.offset \in Nat /\ r.filters \in TargetFilters
    BY <1>1 DEF TargetReads
  <1>3. r.body.targets \in Seq(Targets) /\ r.body.total \in Nat /\ r.body.more \in BOOLEAN
    BY <1>2 DEF TargetBodies
  <1>4. p \in DiscoveryRecords /\ p.reads = discovery.reads \ {r} /\ p.asked = discovery.asked
    BY <1>1 DEF DiscoveryRecords
  <1>5. discovery' = [p EXCEPT !.targets = r.body.targets, !.total = r.body.total,
                               !.more = r.body.more, !.offset = r.offset, !.applied = r.filters,
                               !.loading = FALSE, !.updating = FALSE]
    BY DEF TargetsAnswered, LatestRequest
  <1> HIDE DEF p
  <1>6. /\ discovery' \in DiscoveryRecords
        /\ discovery'.reads = p.reads /\ discovery'.asked = p.asked
        /\ discovery'.applied = r.filters /\ discovery'.offset = r.offset
        /\ discovery'.targets = r.body.targets /\ discovery'.total = r.body.total
        /\ ~discovery'.loading /\ ~discovery'.updating
    BY <1>2, <1>3, <1>4, <1>5 DEF DiscoveryRecords
  <1>7. LatestAsks(discovery') /\ TargetsAwaited(discovery') /\ ServedFit(discovery'.reads)
    BY <1>4, <1>6 DEF DiscoveryInv, DiscoveryFits, LatestAsks, TargetsAwaited, ServedFit
  <1>8. ShownFit(discovery')
    BY <1>1, <1>6 DEF DiscoveryInv, DiscoveryFits, ServedFit, ShownFit
  <1>9. ShownAsked(discovery')
    BY <1>4, <1>6 DEF DiscoveryInv, DiscoveryFits, LatestAsks, ShownAsked
  <1> QED BY <1>1, <1>6, <1>7, <1>8, <1>9 DEF DiscoveryInv, DiscoveryFits

LEMMA LatestTargetsFail ==
    ASSUME DiscoveryInv, NEW r \in discovery.reads, r.latest, TargetsFailed(r)
    PROVE  DiscoveryInv'
  <1> DEFINE p == [discovery EXCEPT !.reads = @ \ {r}]
  <1>1. catalog' = catalog /\ discovery \in DiscoveryRecords
    BY DEF DiscoveryInv, DiscoveryFits, TargetsFailed
  <1>2. /\ p \in DiscoveryRecords /\ p.reads = discovery.reads \ {r} /\ p.asked = discovery.asked
        /\ p.applied = discovery.applied /\ p.offset = discovery.offset
        /\ p.targets = discovery.targets /\ p.total = discovery.total
    BY <1>1 DEF DiscoveryRecords
  <1>3. discovery' = [p EXCEPT !.error = TRUE, !.loading = FALSE, !.updating = FALSE]
    BY DEF TargetsFailed, LatestRequest
  <1> HIDE DEF p
  <1>4. /\ discovery' \in DiscoveryRecords
        /\ discovery'.reads = p.reads /\ discovery'.asked = p.asked
        /\ discovery'.applied = p.applied /\ discovery'.offset = p.offset
        /\ discovery'.targets = p.targets /\ discovery'.total = p.total
        /\ discovery'.error /\ ~discovery'.loading /\ ~discovery'.updating
    BY <1>2, <1>3 DEF DiscoveryRecords
  <1>5. LatestAsks(discovery') /\ TargetsAwaited(discovery') /\ ServedFit(discovery'.reads)
    BY <1>2, <1>4 DEF DiscoveryInv, DiscoveryFits, LatestAsks, TargetsAwaited, ServedFit
  <1>6. ShownFit(discovery') /\ ShownAsked(discovery')
    BY <1>2, <1>4 DEF DiscoveryInv, DiscoveryFits, ShownFit, ShownAsked
  <1> QED BY <1>1, <1>4, <1>5, <1>6 DEF DiscoveryInv, DiscoveryFits

LEMMA DiscoveryStep ==
    ASSUME DiscoveryInv, DiscoveryNext
    PROVE  DiscoveryInv'
  <1>1. discovery \in DiscoveryRecords /\ ServedFit(discovery.reads) /\ ShownFit(discovery)
    BY DEF DiscoveryInv, DiscoveryFits
  <1>2. ASSUME NEW p \in DiscoveryRecords, NEW filters \in TargetFilters, NEW offset \in Nat,
               NEW mode \in {"initial", "query", "refresh"},
               ServedFit(p.reads), ShownFit(p), Asks(LoadTargets(p, filters, offset, mode))
        PROVE  DiscoveryInv'
    <2>1. discovery' = LoadTargets(p, filters, offset, mode) /\ catalog' = catalog
      BY <1>2 DEF Asks
    <2>2. DiscoveryFits(discovery')
      BY <1>2, <2>1, TargetsAsked
    <2> QED BY <2>1, <2>2 DEF DiscoveryInv
  <1>3. ASSUME NEW r \in discovery.reads, ServeTargets(r) \/ TargetsAnswered(r) \/ TargetsFailed(r)
        PROVE  DiscoveryInv'
    <2>1. CASE ServeTargets(r)
      BY <2>1, TargetsServed
    <2>2. CASE ~r.latest /\ (TargetsAnswered(r) \/ TargetsFailed(r))
      BY <2>2, OldTargets DEF TargetsAnswered, TargetsFailed, LatestRequest
    <2>3. CASE r.latest /\ (TargetsAnswered(r) \/ TargetsFailed(r))
      BY <2>3, LatestTargets, LatestTargetsFail
    <2> QED BY <1>3, <2>1, <2>2, <2>3
  <1>4. ASSUME NEW i \in 1 .. Len(CatalogOrder), TargetIndexed(i) PROVE DiscoveryInv'
    <2>1. i \in DOMAIN CatalogOrder
      BY DiscoveryConstants
    <2> QED BY <1>4, <2>1 DEF TargetIndexed, DiscoveryInv
  <1>5. ASSUME NEW f \in TargetFilters, SetFilter(f) PROVE DiscoveryInv'
    <2>1. discovery' = [discovery EXCEPT !.draft = f] /\ catalog' = catalog
      BY <1>5 DEF SetFilter
    <2>2. /\ discovery' \in DiscoveryRecords
          /\ discovery'.reads = discovery.reads /\ discovery'.asked = discovery.asked
          /\ discovery'.applied = discovery.applied /\ discovery'.offset = discovery.offset
          /\ discovery'.targets = discovery.targets /\ discovery'.total = discovery.total
          /\ discovery'.loading = discovery.loading /\ discovery'.updating = discovery.updating
          /\ discovery'.error = discovery.error
      BY <1>1, <2>1 DEF DiscoveryRecords
    <2> QED BY <2>1, <2>2 DEF DiscoveryInv, DiscoveryFits, LatestAsks, TargetsAwaited, ShownFit,
                              ShownAsked
  <1>6. discovery.draft \in TargetFilters /\ discovery.applied \in TargetFilters /\ discovery.offset \in Nat
    BY <1>1 DEF DiscoveryRecords
  <1>7. CASE SubmitQuery
    BY <1>1, <1>2, <1>6, <1>7 DEF SubmitQuery
  <1>8. CASE ClearFilters
    <2> DEFINE p == [discovery EXCEPT !.draft = "all"]
    <2>1. /\ p \in DiscoveryRecords
          /\ p.reads = discovery.reads /\ p.applied = discovery.applied
          /\ p.offset = discovery.offset /\ p.targets = discovery.targets /\ p.total = discovery.total
      BY <1>1 DEF DiscoveryRecords, TargetFilters
    <2>2. Asks(LoadTargets(p, "all", 0, "query"))
      BY <1>8 DEF ClearFilters
    <2> HIDE DEF p
    <2>3. ServedFit(p.reads) /\ ShownFit(p)
      BY <1>1, <2>1 DEF ShownFit
    <2> QED BY <1>2, <2>1, <2>2, <2>3 DEF TargetFilters
  <1>9. CASE RefreshTargets
    BY <1>1, <1>2, <1>6, <1>9 DEF RefreshTargets
  <1>10. ASSUME NEW b \in {"previous", "next"}, TurnTargetPage(b) PROVE DiscoveryInv'
    <2> DEFINE o == discovery.offset
               to == IF b = "next" THEN o + TargetPageSize
                     ELSE IF o < TargetPageSize THEN 0 ELSE o - TargetPageSize
    <2>1. to \in Nat
      BY <1>6, DiscoveryConstants
    <2>2. Asks(LoadTargets(discovery, discovery.applied, to, "query"))
      BY <1>10 DEF TurnTargetPage
    <2> HIDE DEF to
    <2> QED BY <1>1, <1>2, <1>6, <2>1, <2>2
  <1> QED BY <1>3, <1>4, <1>5, <1>7, <1>8, <1>9, <1>10 DEF DiscoveryNext

LEMMA DiscoveryAlways == Spec => []DiscoveryInv
  <1>1. Init => DiscoveryInv
    BY DiscoveryMounted, CatalogServersTyped DEF Init, DiscoveryInv
  <1>2. DiscoveryInv /\ [Next]_vars => DiscoveryInv'
    <2> SUFFICES ASSUME DiscoveryInv, [Next]_vars PROVE DiscoveryInv'
      OBVIOUS
    <2>1. CASE UNCHANGED discoveryVars
      BY <2>1 DEF discoveryVars, DiscoveryInv
    <2>2. CASE /\ discovery' = MountedDiscovery
               /\ \E open \in BOOLEAN : catalog' \in CatalogServers(open)
      BY <2>2, DiscoveryMounted, CatalogServersTyped DEF DiscoveryInv
    <2>3. CASE DiscoveryNext
      BY <2>3, DiscoveryStep
    <2> QED BY <2>1, <2>2, <2>3, DiscoveryMoves
  <1> QED BY <1>1, <1>2, PTL DEF Spec

(* Whatever order the answers come in, the catalog shows what was asked      *)
(* last, inside the total above it: only the answer whose number is the      *)
(* current one is applied (target-discovery/page.tsx, requestSequence).      *)
THEOREM CatalogShowsLatest == Spec => []LatestTargetsWin
  <1>1. DiscoveryInv => LatestTargetsWin
    <2> SUFFICES ASSUME DiscoveryInv PROVE LatestTargetsWin
      OBVIOUS
    <2>1. discovery \in DiscoveryRecords /\ ShownFit(discovery) /\ ShownAsked(discovery)
      BY DEF DiscoveryInv, DiscoveryFits
    <2>2. /\ discovery.targets \in Seq(Targets) /\ discovery.total \in Nat
          /\ discovery.offset \in Nat
      BY <2>1 DEF DiscoveryRecords
    <2>3. ASSUME discovery.targets # <<>>
          PROVE  LET r == ShownRange(discovery) IN r.first <= r.last /\ r.last <= discovery.total
      <3> DEFINE n == Len(discovery.targets)
      <3>1. n \in Nat /\ n > 0 /\ discovery.offset + n <= discovery.total
        BY <2>1, <2>2, <2>3 DEF ShownFit, PageFits
      <3>2. ShownRange(discovery).first = discovery.offset + 1
        <4> HIDE DEF n
        <4> QED BY <2>2, <3>1 DEF ShownRange
      <3>3. ShownRange(discovery).last = discovery.offset + n
        BY <2>2, <3>1 DEF ShownRange
      <3> QED BY <2>2, <3>1, <3>2, <3>3
    <2>4. ASSUME discovery.applied = "scored", NEW row \in CatalogRows(discovery)
          PROVE  row.transit = "score"
      <3>1. PICK i \in DOMAIN discovery.targets :
                row \in {TargetTableRow(discovery.targets[i]), TargetCard(discovery.targets[i])}
        BY <2>4 DEF CatalogRows
      <3>2. discovery.targets[i].candidate
        BY <2>1, <2>4 DEF ShownFit, PageFits
      <3> QED BY <3>1, <3>2 DEF TargetTableRow, TargetCard, TransitEvidence
    <2> QED BY <2>1, <2>3, <2>4 DEF LatestTargetsWin, ShownAsked
  <1> QED BY <1>1, DiscoveryAlways, PTL

-----------------------------------------------------------------------------
(* The lakehouse: a served listing is of the tier that its query names, the  *)
(* listing kept for a tier is of that tier, and the queries held back are    *)
(* those on their way, each of which is there once.                          *)
LakePrefixes ==
    [tier : {"bronze", "silver", "gold", "other"}, sub : {"all", "lightcurve", "target-pixel", "ffi"}]
Listings ==
    [prefix : LakePrefixes \cup {TierRoot("none")}, total : Nat, rows : Seq(DOMAIN LakeObjects)]
LakeQueries == [prefix : LakePrefixes, page : Nat \ {0}, search : BOOLEAN]
LakeReads == [query : LakeQueries, phase : {"sent", "served"}, body : Listings]
LakehouseRecords ==
    [tab : LakeTiers, slot : [LakeTiers -> Listings], summary : BOOLEAN, counts : [LakeTiers -> Nat],
     summaryAsked : BOOLEAN, prefix : LakePrefixes, page : Nat \ {0}, search : BOOLEAN,
     loading : BOOLEAN, inFlight : SUBSET LakeQueries, reads : SUBSET LakeReads]

ListingFits(b, t) ==
    /\ b.prefix.tier = t /\ Len(b.rows) <= b.total
    /\ \A i \in DOMAIN b.rows : LakeObjects[b.rows[i]].tier = t
ListingsServed(d) == \A r \in d.reads : r.phase = "served" => ListingFits(r.body, r.query.prefix.tier)
SlotsFit(d) == \A t \in LakeTiers : d.slot[t] = NoListing \/ ListingFits(d.slot[t], t)
AskedOnce(d) ==
    /\ \A r, q \in d.reads : r.query = q.query => r = q
    /\ d.inFlight = {r.query : r \in d.reads}
ListingAwaited(d) == d.loading => d.reads # {}
LakehouseFits(d) ==
    d \in LakehouseRecords /\ ListingsServed(d) /\ SlotsFit(d) /\ AskedOnce(d) /\ ListingAwaited(d)
LakehouseInv == LakehouseFits(desk) /\ lake \in SUBSET (DOMAIN LakeObjects)

LEMMA LakehouseMoves ==
    ASSUME [Next]_vars
    PROVE  \/ desk' = MountedDesk /\ \E open \in BOOLEAN : lake' \in LakeServers(open)
           \/ UNCHANGED lakeVars
           \/ LakeNext
  <1>1. CASE Leave \/ \E p \in WorkPages : Open(p)
    <2>1. \E p : Mounts(p)
      BY <1>1 DEF Leave, Open
    <2> QED BY <2>1 DEF Mounts
  <1>2. CASE InFactory \/ InObservatory \/ InStore \/ UNCHANGED vars
    BY <1>2 DEF InFactory, InObservatory, InStore, vars, storeVars, lakeVars
  <1> QED BY <1>1, <1>2 DEF Next

LEMMA NoListingTyped == NoListing \in Listings
  BY DEF NoListing, Listings

LEMMA RootTyped ==
    ASSUME NEW t \in {"bronze", "silver", "gold", "other"}
    PROVE  TierRoot(t) \in LakePrefixes
  BY DEF TierRoot, LakePrefixes

(* A query is sent, unless it is on its way already. *)
LEMMA ListingAsked ==
    ASSUME NEW p, LakehouseFits(p), NEW prefix \in LakePrefixes, NEW page \in Nat \ {0},
           NEW search \in BOOLEAN, NEW d, d = LoadTier(p, prefix, page, search)
    PROVE  LakehouseFits(d)
  <1> DEFINE query == [prefix |-> prefix, page |-> page, search |-> search]
             asked == [query |-> query, phase |-> "sent", body |-> NoListing]
  <1>1. CASE query \in p.inFlight
    <2>1. d = p
      BY <1>1 DEF LoadTier
    <2> QED BY <2>1
  <1>2. CASE query \notin p.inFlight
    <2>1. d = [p EXCEPT !.inFlight = @ \cup {query}, !.loading = TRUE, !.reads = @ \cup {asked}]
      BY <1>2 DEF LoadTier
    <2>2. query \in LakeQueries
      BY DEF LakeQueries
    <2> HIDE DEF query
    <2>3. asked \in LakeReads /\ asked.query = query /\ asked.phase = "sent"
      BY <2>2, NoListingTyped DEF LakeReads
    <2> HIDE DEF asked
    <2>4. /\ d \in LakehouseRecords
          /\ d.inFlight = p.inFlight \cup {query} /\ d.reads = p.reads \cup {asked}
          /\ d.slot = p.slot
      <3> DEFINE flying == p.inFlight \cup {query}
                 reads == p.reads \cup {asked}
      <3>1. p \in LakehouseRecords
        BY DEF LakehouseFits
      <3>2. flying \in SUBSET LakeQueries /\ reads \in SUBSET LakeReads
        BY <2>2, <2>3, <3>1 DEF LakehouseRecords
      <3>3. d = [p EXCEPT !.inFlight = flying, !.loading = TRUE, !.reads = reads]
        BY <2>1, <3>1 DEF LakehouseRecords
      <3> HIDE DEF flying, reads
      <3>4. /\ d \in LakehouseRecords /\ d.inFlight = flying /\ d.reads = reads /\ d.slot = p.slot
        BY <3>1, <3>2, <3>3 DEF LakehouseRecords
      <3> QED BY <3>4 DEF flying, reads
    <2>5. ListingsServed(d)
      BY <2>3, <2>4 DEF LakehouseFits, ListingsServed
    <2>6. SlotsFit(d) /\ ListingAwaited(d)
      BY <2>4 DEF LakehouseFits, SlotsFit, ListingAwaited
    <2>7. AskedOnce(d)
      <3>1. /\ \A r, q \in p.reads : r.query = q.query => r = q
            /\ p.inFlight = {r.query : r \in p.reads}
        BY DEF LakehouseFits, AskedOnce
      <3>2. \A r \in p.reads : r.query # query
        BY <1>2, <3>1
      <3>3. \A r, q \in d.reads : r.query = q.query => r = q
        BY <2>3, <2>4, <3>1, <3>2
      <3>4. {r.query : r \in d.reads} = {r.query : r \in p.reads} \cup {query}
        BY <2>3, <2>4
      <3> QED BY <2>4, <3>1, <3>3, <3>4 DEF AskedOnce
    <2> QED BY <2>4, <2>5, <2>6, <2>7 DEF LakehouseFits
  <1> QED BY <1>1, <1>2

(* A change of the tab, the page, the prefix or the search. *)
LEMMA ChoiceChanged ==
    ASSUME NEW p, LakehouseFits(p), NEW tab \in LakeTiers, NEW page \in Nat \ {0},
           NEW search \in BOOLEAN, NEW prefix \in LakePrefixes, NEW d,
           d = [p EXCEPT !.tab = tab, !.page = page, !.search = search, !.prefix = prefix]
    PROVE  LakehouseFits(d)
  <1>1. /\ d \in LakehouseRecords
        /\ d.reads = p.reads /\ d.inFlight = p.inFlight /\ d.slot = p.slot /\ d.loading = p.loading
    BY DEF LakehouseFits, LakehouseRecords
  <1>2. ListingsServed(d) /\ SlotsFit(d) /\ AskedOnce(d) /\ ListingAwaited(d)
    BY <1>1 DEF LakehouseFits, ListingsServed, SlotsFit, AskedOnce, ListingAwaited
  <1> QED BY <1>1, <1>2 DEF LakehouseFits

LEMMA LakehouseMounted == LakehouseFits(MountedDesk)
  <1> DEFINE p == [tab |-> "gold", slot |-> [t \in LakeTiers |-> NoListing], summary |-> FALSE,
                   counts |-> [t \in LakeTiers |-> 0], summaryAsked |-> TRUE,
                   prefix |-> TierRoot("gold"), page |-> 1, search |-> FALSE, loading |-> FALSE,
                   inFlight |-> {}, reads |-> {}]
  <1>1. TierRoot("gold") \in LakePrefixes
    BY RootTyped
  <1>2. p \in LakehouseRecords
    BY <1>1, NoListingTyped DEF LakehouseRecords, LakeTiers
  <1>3. /\ p.reads = {} /\ p.inFlight = {} /\ ~p.loading
        /\ \A t \in LakeTiers : p.slot[t] = NoListing
    OBVIOUS
  <1>4. MountedDesk = LoadTier(p, TierRoot("gold"), 1, FALSE)
    BY DEF MountedDesk
  <1> HIDE DEF p
  <1>5. LakehouseFits(p)
    BY <1>2, <1>3 DEF LakehouseFits, ListingsServed, SlotsFit, AskedOnce, ListingAwaited
  <1>6. 1 \in Nat \ {0} /\ FALSE \in BOOLEAN
    OBVIOUS
  <1> QED BY ONLY <1>1, <1>4, <1>5, <1>6, ListingAsked

LEMMA LakeServersTyped ==
    ASSUME NEW open \in BOOLEAN, NEW c \in LakeServers(open)
    PROVE  c \in SUBSET (DOMAIN LakeObjects)
  BY DEF LakeServers

(* What is stored under a prefix. *)
LEMMA StoredFits ==
    ASSUME lake \in SUBSET (DOMAIN LakeObjects), NEW prefix \in LakePrefixes, NEW search \in BOOLEAN
    PROVE  /\ Stored(prefix, search) \in Seq(DOMAIN LakeObjects) /\ Len(Stored(prefix, search)) \in Nat
           /\ \A k \in 1 .. Len(Stored(prefix, search)) :
                 /\ Stored(prefix, search)[k] \in DOMAIN LakeObjects
                 /\ LakeObjects[Stored(prefix, search)[k]].tier = prefix.tier
  <1> DEFINE S == [tier : STRING, sub : STRING, named : BOOLEAN]
             I == {i \in lake : /\ LakeObjects[i].tier = prefix.tier
                                /\ prefix.sub \in {"all", LakeObjects[i].sub}
                                /\ search => LakeObjects[i].named}
  <1>1. LakeObjects \in Seq(S)
    BY LakehouseConstants
  <1>2. I \in SUBSET (DOMAIN LakeObjects) /\ \A i \in I : LakeObjects[i].tier = prefix.tier
    OBVIOUS
  <1>3. Stored(prefix, search) = InOrder(I)
    BY DEF Stored
  <1> HIDE DEF I, S
  <1>4. /\ InOrder(I) \in Seq(I) /\ Len(InOrder(I)) \in Nat
        /\ \A k \in 1 .. Len(InOrder(I)) : InOrder(I)[k] \in I
    BY <1>1, <1>2, KeptIndices
  <1>5. InOrder(I) \in Seq(DOMAIN LakeObjects)
    BY <1>2, <1>4
  <1> QED BY <1>2, <1>3, <1>4, <1>5

(* A page that is cut out of what is stored. *)
LEMMA CutPage ==
    ASSUME NEW S, NEW all \in Seq(S), NEW lo \in Nat, NEW hi \in Nat,
           1 <= lo, lo <= hi, hi <= Len(all)
    PROVE  /\ SubSeq(all, lo, hi) \in Seq(S)
           /\ Len(SubSeq(all, lo, hi)) <= Len(all)
           /\ \A i \in 1 .. Len(SubSeq(all, lo, hi)) :
                 \E k \in 1 .. Len(all) : SubSeq(all, lo, hi)[i] = all[k]
  <1> DEFINE part == SubSeq(all, lo, hi)
  <1>1. Len(all) \in Nat
    OBVIOUS
  <1>2. \A i \in lo .. hi : all[i] \in S
    BY <1>1
  <1>3. lo \in Int /\ hi \in Int
    OBVIOUS
  <1>4. /\ part \in Seq(S)
        /\ Len(part) = IF lo <= hi THEN hi - lo + 1 ELSE 0
        /\ \A i \in 1 .. hi - lo + 1 : part[i] = all[lo + i - 1]
    BY ONLY <1>2, <1>3, SubSeqProperties
  <1> HIDE DEF part
  <1>5. Len(part) = hi - lo + 1 /\ Len(part) <= Len(all)
    BY <1>1, <1>4
  <1>6. ASSUME NEW i \in 1 .. Len(part) PROVE \E k \in 1 .. Len(all) : part[i] = all[k]
    <2>1. i \in 1 .. hi - lo + 1
      BY <1>1, <1>4, <1>5
    <2>2. part[i] = all[lo + i - 1]
      BY <1>4, <2>1
    <2>3. lo + i - 1 \in 1 .. Len(all)
      BY <1>1, <2>1
    <2> QED BY <2>2, <2>3
  <1> QED BY <1>4, <1>5, <1>6 DEF part

LEMMA ListingServed ==
    ASSUME LakehouseInv, NEW r \in desk.reads, ServeListing(r)
    PROVE  LakehouseInv'
  <1> DEFINE all == Stored(r.query.prefix, r.query.search)
             start == (r.query.page - 1) * LakePageSize
             end == IF start + LakePageSize > Len(all) THEN Len(all) ELSE start + LakePageSize
             rows == IF start < Len(all) THEN SubSeq(all, start + 1, end) ELSE <<>>
             body == [prefix |-> r.query.prefix, total |-> Len(all), rows |-> rows]
             served == [r EXCEPT !.phase = "served", !.body = body]
             reads == (desk.reads \ {r}) \cup {served}
             tier == r.query.prefix.tier
  <1>1. desk \in LakehouseRecords /\ r \in LakeReads
    BY DEF LakehouseInv, LakehouseFits, LakehouseRecords
  <1>2. r.query \in LakeQueries
    BY <1>1 DEF LakeReads
  <1>3. /\ r.query.prefix \in LakePrefixes /\ r.query.search \in BOOLEAN
        /\ r.query.page \in Nat \ {0}
    BY <1>2 DEF LakeQueries
  <1>4. desk' = [desk EXCEPT !.reads = (@ \ {r}) \cup {served}] /\ lake' = lake
    BY DEF ServeListing
  <1>5. /\ all \in Seq(DOMAIN LakeObjects) /\ Len(all) \in Nat
        /\ \A k \in 1 .. Len(all) : LakeObjects[all[k]].tier = tier
    BY <1>3, StoredFits DEF LakehouseInv
  <1>6. start \in Nat /\ LakePageSize \in Nat \ {0}
    BY <1>3, LakehouseConstants
  <1> HIDE DEF all, start, tier
  <1>7. /\ rows \in Seq(DOMAIN LakeObjects) /\ Len(rows) <= Len(all)
        /\ \A i \in DOMAIN rows : LakeObjects[rows[i]].tier = tier
    <2>1. CASE start < Len(all)
      <3> DEFINE part == SubSeq(all, start + 1, end)
      <3>1. /\ part \in Seq(DOMAIN LakeObjects) /\ Len(part) <= Len(all)
            /\ \A i \in 1 .. Len(part) : \E k \in 1 .. Len(all) : part[i] = all[k]
        <4> DEFINE lo == start + 1
        <4>1. lo \in Nat /\ end \in Nat /\ 1 <= lo /\ lo <= end /\ end <= Len(all)
          BY <1>5, <1>6, <2>1
        <4>2. all \in Seq(DOMAIN LakeObjects)
          BY <1>5
        <4> HIDE DEF end, lo
        <4>3. /\ SubSeq(all, lo, end) \in Seq(DOMAIN LakeObjects)
              /\ Len(SubSeq(all, lo, end)) <= Len(all)
              /\ \A i \in 1 .. Len(SubSeq(all, lo, end)) :
                    \E k \in 1 .. Len(all) : SubSeq(all, lo, end)[i] = all[k]
          BY ONLY <4>1, <4>2, CutPage
        <4> QED BY <4>3 DEF lo
      <3>2. rows = part
        BY <2>1
      <3> HIDE DEF part, rows
      <3>3. DOMAIN part = 1 .. Len(part)
        BY <3>1
      <3> QED BY <1>5, <3>1, <3>2, <3>3
    <2>2. CASE ~(start < Len(all))
      <3>1. rows = <<>>
        BY <2>2
      <3> HIDE DEF rows
      <3> QED BY <1>5, <3>1
    <2> QED BY <2>1, <2>2
  <1> HIDE DEF rows
  <1>8. /\ body \in Listings /\ body.prefix = r.query.prefix /\ body.total = Len(all)
        /\ body.rows = rows
    BY <1>3, <1>5, <1>7 DEF Listings
  <1> HIDE DEF body
  <1>9. /\ served \in LakeReads /\ served.query = r.query /\ served.body = body
    BY <1>1, <1>8 DEF LakeReads
  <1> HIDE DEF served
  <1>10. reads \in SUBSET LakeReads /\ desk' = [desk EXCEPT !.reads = reads]
    BY <1>1, <1>4, <1>9 DEF LakehouseRecords
  <1>11. reads = (desk.reads \ {r}) \cup {served}
    OBVIOUS
  <1> HIDE DEF reads
  <1>12. /\ desk' \in LakehouseRecords /\ desk'.reads = reads /\ desk'.slot = desk.slot
         /\ desk'.inFlight = desk.inFlight /\ desk'.loading = desk.loading
    BY <1>1, <1>10 DEF LakehouseRecords
  <1>13. ListingFits(served.body, served.query.prefix.tier)
    BY <1>7, <1>8, <1>9 DEF ListingFits, tier
  <1>14. ListingsServed(desk') /\ SlotsFit(desk') /\ ListingAwaited(desk')
    BY <1>11, <1>12, <1>13 DEF LakehouseInv, LakehouseFits, ListingsServed, SlotsFit, ListingAwaited
  <1>15. AskedOnce(desk')
    <2>1. /\ \A q, s \in desk.reads : q.query = s.query => q = s
          /\ desk.inFlight = {q.query : q \in desk.reads}
      BY DEF LakehouseInv, LakehouseFits, AskedOnce
    <2>2. \A q, s \in reads : q.query = s.query => q = s
      BY <1>9, <1>11, <2>1
    <2>3. {q.query : q \in reads} = {q.query : q \in desk.reads}
      BY <1>9, <1>11
    <2> QED BY <1>12, <2>1, <2>2, <2>3 DEF AskedOnce
  <1> QED BY <1>4, <1>12, <1>14, <1>15 DEF LakehouseInv, LakehouseFits

(* A request ends: its query may be asked again, and nothing is loading. *)
LEMMA ListingEnded ==
    ASSUME LakehouseFits(desk), NEW r \in desk.reads, NEW d,
           d = [desk EXCEPT !.reads = @ \ {r}, !.inFlight = @ \ {r.query}, !.loading = FALSE]
    PROVE  LakehouseFits(d) /\ d.slot = desk.slot
  <1> DEFINE reads == desk.reads \ {r}
             flying == desk.inFlight \ {r.query}
  <1>1. desk \in LakehouseRecords
    BY DEF LakehouseFits
  <1>2. d = [desk EXCEPT !.reads = reads, !.inFlight = flying, !.loading = FALSE]
    BY <1>1 DEF LakehouseRecords
  <1>3. reads \in SUBSET LakeReads /\ flying \in SUBSET LakeQueries
    BY <1>1 DEF LakehouseRecords
  <1>4. reads = desk.reads \ {r} /\ flying = desk.inFlight \ {r.query}
    OBVIOUS
  <1> HIDE DEF reads, flying
  <1>5. /\ d \in LakehouseRecords /\ d.reads = reads /\ d.slot = desk.slot
        /\ d.inFlight = flying /\ ~d.loading
    BY <1>1, <1>2, <1>3 DEF LakehouseRecords
  <1>6. ListingsServed(d) /\ SlotsFit(d) /\ ListingAwaited(d)
    BY <1>4, <1>5 DEF LakehouseFits, ListingsServed, SlotsFit, ListingAwaited
  <1>7. AskedOnce(d)
    <2>1. /\ \A q, s \in desk.reads : q.query = s.query => q = s
          /\ desk.inFlight = {q.query : q \in desk.reads}
      BY DEF LakehouseFits, AskedOnce
    <2>2. \A q, s \in reads : q.query = s.query => q = s
      BY <1>4, <2>1
    <2>3. {q.query : q \in reads} = flying
      BY <1>4, <2>1
    <2> QED BY <1>5, <2>2, <2>3 DEF AskedOnce
  <1> QED BY <1>5, <1>6, <1>7 DEF LakehouseFits

LEMMA TierListed ==
    ASSUME LakehouseInv, NEW r \in desk.reads, TierAnswered(r)
    PROVE  LakehouseInv'
  <1> DEFINE t == r.query.prefix.tier
             p == [desk EXCEPT !.reads = @ \ {r}, !.inFlight = @ \ {r.query}, !.loading = FALSE]
  <1>1. LakehouseFits(p) /\ p.slot = desk.slot
    BY ListingEnded DEF LakehouseInv
  <1>2. /\ lake' = lake /\ r.phase = "served"
        /\ desk' = IF t \in LakeTiers THEN [p EXCEPT !.slot[t] = r.body] ELSE p
    BY DEF TierAnswered, SlotOfAnswer
  <1>3. r.body \in Listings /\ ListingFits(r.body, t)
    BY <1>2 DEF LakehouseInv, LakehouseFits, LakehouseRecords, LakeReads, ListingsServed
  <1> HIDE DEF p, t
  <1>4. CASE t \in LakeTiers
    <2>1. desk' = [p EXCEPT !.slot[t] = r.body]
      BY <1>2, <1>4
    <2>2. p \in LakehouseRecords
      BY <1>1 DEF LakehouseFits
    <2>3. p.slot \in [LakeTiers -> Listings]
      BY <2>2 DEF LakehouseRecords
    <2> DEFINE slot == [p.slot EXCEPT ![t] = r.body]
    <2>4. /\ slot \in [LakeTiers -> Listings] /\ slot[t] = r.body
          /\ \A u \in LakeTiers \ {t} : slot[u] = p.slot[u]
      BY <1>3, <1>4, <2>3
    <2>5. desk' = [p EXCEPT !.slot = slot]
      BY <2>1, <2>2 DEF LakehouseRecords
    <2> HIDE DEF slot
    <2>6. /\ desk' \in LakehouseRecords /\ desk'.slot = slot /\ desk'.reads = p.reads
          /\ desk'.inFlight = p.inFlight /\ desk'.loading = p.loading
      BY <2>2, <2>4, <2>5 DEF LakehouseRecords
    <2>7. SlotsFit(desk')
      BY <1>1, <1>3, <2>4, <2>6 DEF LakehouseFits, SlotsFit
    <2>8. ListingsServed(desk') /\ AskedOnce(desk') /\ ListingAwaited(desk')
      BY <1>1, <2>6 DEF LakehouseFits, ListingsServed, AskedOnce, ListingAwaited
    <2> QED BY <1>2, <2>6, <2>7, <2>8 DEF LakehouseInv, LakehouseFits
  <1>5. CASE t \notin LakeTiers
    BY <1>1, <1>2, <1>5 DEF LakehouseInv
  <1> QED BY <1>4, <1>5

LEMMA LakehouseStep ==
    ASSUME LakehouseInv, LakeNext
    PROVE  LakehouseInv'
  <1>1. LakehouseFits(desk) /\ desk \in LakehouseRecords
    BY DEF LakehouseInv, LakehouseFits
  <1>2. desk.prefix \in LakePrefixes /\ desk.search \in BOOLEAN /\ desk.page \in Nat \ {0} /\ desk.tab \in LakeTiers
    BY <1>1 DEF LakehouseRecords
  <1>3. ASSUME NEW d, LakehouseFits(d), Lists(d) PROVE LakehouseInv'
    BY <1>3 DEF Lists, LakehouseInv
  <1>4. ASSUME NEW r \in desk.reads, ServeListing(r) \/ TierAnswered(r) \/ TierFailed(r)
        PROVE  LakehouseInv'
    <2>1. CASE ServeListing(r) \/ TierAnswered(r)
      BY <2>1, ListingServed, TierListed
    <2>2. CASE TierFailed(r)
      BY <2>2, ListingEnded DEF TierFailed, LakehouseInv
    <2> QED BY <1>4, <2>1, <2>2
  <1>5. CASE SummaryAnswered
    <2>1. PICK ok \in BOOLEAN : desk' =
             [desk EXCEPT !.summaryAsked = FALSE, !.summary = ok,
                          !.counts = IF ok THEN [t \in LakeTiers |-> Len(Stored(TierRoot(t), FALSE))]
                                     ELSE @]
      BY <1>5 DEF SummaryAnswered
    <2> DEFINE counts == IF ok THEN [t \in LakeTiers |-> Len(Stored(TierRoot(t), FALSE))]
                         ELSE desk.counts
    <2>2. \A t \in LakeTiers : Len(Stored(TierRoot(t), FALSE)) \in Nat
      <3>1. ASSUME NEW t \in LakeTiers PROVE TierRoot(t) \in LakePrefixes
        BY RootTyped DEF LakeTiers
      <3> QED BY <3>1, StoredFits DEF LakehouseInv
    <2>3. counts \in [LakeTiers -> Nat]
      BY <1>1, <2>2 DEF LakehouseRecords
    <2>4. desk' = [desk EXCEPT !.summaryAsked = FALSE, !.summary = ok, !.counts = counts]
      BY <1>1, <2>1 DEF LakehouseRecords
    <2> HIDE DEF counts
    <2>5. /\ desk' \in LakehouseRecords /\ desk'.slot = desk.slot /\ desk'.reads = desk.reads
          /\ desk'.inFlight = desk.inFlight /\ desk'.loading = desk.loading
      BY <1>1, <2>3, <2>4 DEF LakehouseRecords
    <2>6. LakehouseFits(desk')
      BY <1>1, <2>5 DEF LakehouseFits, ListingsServed, SlotsFit, AskedOnce, ListingAwaited
    <2> QED BY <1>5, <2>6 DEF LakehouseInv, SummaryAnswered
  <1>6. ASSUME NEW i \in 1 .. Len(LakeObjects), ObjectStored(i) PROVE LakehouseInv'
    <2>1. i \in DOMAIN LakeObjects
      BY LakehouseConstants
    <2> QED BY <1>6, <2>1 DEF ObjectStored, LakehouseInv
  <1>7. ASSUME NEW t \in LakeTiers, TabChange(t) PROVE LakehouseInv'
    <2> DEFINE p == [desk EXCEPT !.tab = t, !.page = 1, !.search = FALSE, !.prefix = TierRoot(t)]
               d == LoadTier(p, TierRoot(t), 1, FALSE)
    <2>1. TierRoot(t) \in LakePrefixes /\ 1 \in Nat \ {0} /\ FALSE \in BOOLEAN
      BY RootTyped DEF LakeTiers
    <2>2. LakehouseFits(p)
      BY <1>1, <2>1, ChoiceChanged
    <2>3. Lists(IF desk.slot[t] # NoListing THEN p ELSE d)
      BY <1>7 DEF TabChange
    <2> HIDE DEF p
    <2>4. LakehouseFits(d)
      BY ONLY <2>1, <2>2, ListingAsked
    <2> HIDE DEF d
    <2> QED BY <1>3, <2>2, <2>3, <2>4
  <1>8. ASSUME NEW q \in TabQueries(desk.tab), SearchOrFilter(q) PROVE LakehouseInv'
    <2> DEFINE p == [desk EXCEPT !.page = 1, !.prefix = q.prefix, !.search = q.search]
               d == LoadTier(p, q.prefix, 1, q.search)
    <2>1. q.prefix \in LakePrefixes /\ q.search \in BOOLEAN
      <3>1. CASE desk.tab = "silver"
        <4>1. PICK s \in SilverPresets : q = [prefix |-> [tier |-> "silver", sub |-> s], search |-> FALSE]
          BY <3>1 DEF TabQueries
        <4>2. s \in {"lightcurve", "target-pixel", "ffi"}
          BY LakehouseConstants
        <4> QED BY <4>1, <4>2 DEF LakePrefixes
      <3>2. CASE desk.tab # "silver"
        <4>1. \E t \in {"bronze", "silver", "gold", "other"}, s \in BOOLEAN :
                  q = [prefix |-> TierRoot(t), search |-> s]
          BY <1>2, <3>2 DEF TabQueries, LakeTiers
        <4> QED BY <4>1, RootTyped
      <3> QED BY <3>1, <3>2
    <2>2. 1 \in Nat \ {0}
      OBVIOUS
    <2>3. p = [desk EXCEPT !.tab = desk.tab, !.page = 1, !.search = q.search, !.prefix = q.prefix]
      BY <1>1 DEF LakehouseRecords
    <2>4. Lists(d)
      BY <1>8 DEF SearchOrFilter
    <2> HIDE DEF p
    <2>5. LakehouseFits(p)
      BY ONLY <1>1, <1>2, <2>1, <2>2, <2>3, ChoiceChanged
    <2>6. LakehouseFits(d)
      BY ONLY <2>1, <2>2, <2>5, ListingAsked
    <2> HIDE DEF d
    <2> QED BY <1>3, <2>4, <2>6
  <1>9. ASSUME NEW n \in 1 .. Len(LakeObjects), PageChange(n) PROVE LakehouseInv'
    <2> DEFINE p == [desk EXCEPT !.page = n]
               d == LoadTier(p, desk.prefix, n, desk.search)
    <2>1. n \in Nat \ {0}
      BY LakehouseConstants
    <2>2. p = [desk EXCEPT !.tab = desk.tab, !.page = n, !.search = desk.search, !.prefix = desk.prefix]
      BY <1>1 DEF LakehouseRecords
    <2>3. Lists(d)
      BY <1>9 DEF PageChange
    <2> HIDE DEF p
    <2>4. LakehouseFits(p)
      BY ONLY <1>1, <1>2, <2>1, <2>2, ChoiceChanged
    <2>5. LakehouseFits(d)
      BY ONLY <1>2, <2>1, <2>4, ListingAsked
    <2> HIDE DEF d
    <2> QED BY <1>3, <2>3, <2>5
  <1> QED BY <1>4, <1>5, <1>6, <1>7, <1>8, <1>9 DEF LakeNext

LEMMA LakehouseAlways == Spec => []LakehouseInv
  <1>1. Init => LakehouseInv
    BY LakehouseMounted, LakeServersTyped DEF Init, LakehouseInv
  <1>2. LakehouseInv /\ [Next]_vars => LakehouseInv'
    <2> SUFFICES ASSUME LakehouseInv, [Next]_vars PROVE LakehouseInv'
      OBVIOUS
    <2>1. CASE UNCHANGED lakeVars
      BY <2>1 DEF lakeVars, LakehouseInv
    <2>2. CASE desk' = MountedDesk /\ \E open \in BOOLEAN : lake' \in LakeServers(open)
      BY <2>2, LakehouseMounted, LakeServersTyped DEF LakehouseInv
    <2>3. CASE LakeNext
      BY <2>3, LakehouseStep
    <2> QED BY <2>1, <2>2, <2>3, LakehouseMoves
  <1> QED BY <1>1, <1>2, PTL DEF Spec

(* The listing of a tab is of its own tier, whichever tab is open when the   *)
(* answer arrives: the answer goes where the prefix of its query points      *)
(* (lakehouse/page.tsx, loadTier).                                           *)
THEOREM TabsKeepTheirTier == Spec => []ListingOfTier
  <1>1. LakehouseInv => ListingOfTier
    <2> SUFFICES ASSUME LakehouseInv PROVE ListingOfTier
      OBVIOUS
    <2>1. desk \in LakehouseRecords /\ SlotsFit(desk)
      BY DEF LakehouseInv, LakehouseFits
    <2>2. desk.slot \in [LakeTiers -> Listings] /\ desk.tab \in LakeTiers
      BY <2>1 DEF LakehouseRecords
    <2>3. ASSUME NEW t \in LakeTiers, desk.slot[t] # NoListing
          PROVE  desk.slot[t].prefix.tier = t /\ TierCard(desk, t) >= Len(desk.slot[t].rows)
      <3>1. /\ desk.slot[t].prefix.tier = t /\ Len(desk.slot[t].rows) <= desk.slot[t].total
        BY <2>1, <2>3 DEF SlotsFit, ListingFits
      <3>2. desk.slot[t].rows \in Seq(DOMAIN LakeObjects) /\ desk.slot[t].total \in Nat
        BY <2>2 DEF Listings
      <3>3. Len(desk.slot[t].rows) \in Nat
        BY <3>2
      <3>4. TierCard(desk, t) = desk.slot[t].total
        BY <2>3 DEF TierCard
      <3> QED BY <3>1, <3>2, <3>3, <3>4
    <2>4. ASSUME NEW i \in ObjectRows(desk) PROVE LakeObjects[i].tier = desk.tab
      <3>1. PICK k \in DOMAIN desk.slot[desk.tab].rows : i = desk.slot[desk.tab].rows[k]
        BY <2>4 DEF ObjectRows, ActiveListing
      <3>2. desk.slot[desk.tab] # NoListing
        BY <3>1 DEF NoListing
      <3> QED BY <2>1, <2>2, <3>1, <3>2 DEF SlotsFit, ListingFits
    <2> QED BY <2>3, <2>4 DEF ListingOfTier
  <1> QED BY <1>1, LakehouseAlways, PTL

-----------------------------------------------------------------------------
(* The lineage explorer: no identity occurs twice among the records, on the  *)
(* page or on their way to it, and the selection is one of those on it.      *)
Products == {LedgerOrder[i] : i \in DOMAIN LedgerOrder}
SelectedIds == {r.id : r \in Products} \cup {NoIdentity}
LedgerReads ==
    [kind : ProductKinds, stage : StageFilters, search : BOOLEAN, page : Nat \ {0},
     size : LedgerSizes, phase : {"sent", "served"}, rows : Seq(Products), total : Nat]
ExplorerRecords ==
    [kind : ProductKinds, stage : StageFilters, search : BOOLEAN, page : Nat \ {0},
     size : LedgerSizes, total : Nat, records : Seq(Products), selected : SelectedIds,
     loading : BOOLEAN, reads : SUBSET LedgerReads]

DistinctIds(rows) == \A i, j \in DOMAIN rows : rows[i].id = rows[j].id => i = j
RowsDistinct(e) == DistinctIds(e.records) /\ \A r \in e.reads : DistinctIds(r.rows)
SelectionShown(e) == e.records # <<>> => e.selected \in Identities(e.records)
RecordsAwaited(e) == e.loading => e.reads # {}
ExplorerFits(e) == e \in ExplorerRecords /\ RowsDistinct(e) /\ SelectionShown(e) /\ RecordsAwaited(e)
ExplorerInv == ExplorerFits(explorer) /\ ledger \in SUBSET (DOMAIN LedgerOrder)

LEMMA ExplorerMoves ==
    ASSUME [Next]_vars
    PROVE  \/ explorer' = MountedExplorer /\ \E open \in BOOLEAN : ledger' \in LedgerServers(open)
           \/ UNCHANGED ledgerVars
           \/ LineageNext
  <1>1. CASE Leave \/ \E p \in WorkPages : Open(p)
    <2>1. \E p : Mounts(p)
      BY <1>1 DEF Leave, Open
    <2> QED BY <2>1 DEF Mounts
  <1>2. CASE InFactory \/ InObservatory \/ InStore \/ UNCHANGED vars
    BY <1>2 DEF InFactory, InObservatory, InStore, vars, storeVars, ledgerVars
  <1> QED BY <1>1, <1>2 DEF Next

(* A read is sent, after a change of the filters or without one. *)
LEMMA RecordsAsked ==
    ASSUME NEW p \in ExplorerRecords, RowsDistinct(p), SelectionShown(p),
           NEW e, e = LoadLineage(p)
    PROVE  ExplorerFits(e)
  <1> DEFINE asked == [kind |-> p.kind, stage |-> p.stage, search |-> p.search, page |-> p.page,
                       size |-> p.size, phase |-> "sent", rows |-> <<>>, total |-> 0]
             reads == p.reads \cup {asked}
  <1>1. asked \in LedgerReads
    BY DEF LedgerReads, ExplorerRecords
  <1>2. DistinctIds(asked.rows)
    BY DEF DistinctIds
  <1> HIDE DEF asked
  <1>3. reads \in SUBSET LedgerReads /\ reads # {} /\ \A r \in reads : DistinctIds(r.rows)
    BY <1>1, <1>2 DEF ExplorerRecords, RowsDistinct
  <1>4. e = [p EXCEPT !.loading = TRUE, !.reads = reads]
    BY DEF LoadLineage, ExplorerRecords, asked
  <1> HIDE DEF reads
  <1>5. /\ e \in ExplorerRecords /\ e.reads = reads /\ e.records = p.records
        /\ e.selected = p.selected
    BY <1>3, <1>4 DEF ExplorerRecords
  <1> QED BY <1>3, <1>5 DEF ExplorerFits, RowsDistinct, SelectionShown, RecordsAwaited

LEMMA ExplorerMounted == ExplorerFits(MountedExplorer)
  <1> DEFINE p == [kind |-> "lightcurve", stage |-> "all", search |-> FALSE, page |-> 1,
                   size |-> FirstLedgerSize, total |-> 0, records |-> <<>>, selected |-> NoIdentity,
                   loading |-> TRUE, reads |-> {}]
  <1>1. p \in ExplorerRecords
    BY LedgerConstants DEF ExplorerRecords, ProductKinds, StageFilters, SelectedIds
  <1>2. RowsDistinct(p) /\ SelectionShown(p)
    BY DEF RowsDistinct, DistinctIds, SelectionShown
  <1>3. MountedExplorer = LoadLineage(p)
    BY DEF MountedExplorer
  <1> HIDE DEF p
  <1> QED BY <1>1, <1>2, <1>3, RecordsAsked

LEMMA LedgerServersTyped ==
    ASSUME NEW open \in BOOLEAN, NEW c \in LedgerServers(open)
    PROVE  c \in SUBSET (DOMAIN LedgerOrder)
  BY DEF LedgerServers

(* What go-api answers names no product twice. *)
LEMMA ServedRows ==
    ASSUME NEW I \in SUBSET (DOMAIN LedgerOrder), NEW start \in Nat, NEW end \in Nat,
           start < Len(InOrder(I)), end <= Len(InOrder(I)), start <= end,
           NEW rows, rows = [i \in 1 .. end - start |-> LedgerOrder[InOrder(I)[start + i]]]
    PROVE  rows \in Seq(Products) /\ DistinctIds(rows)
  <1> DEFINE all == InOrder(I)
             n == Len(all)
             count == end - start
  <1>1. /\ n \in Nat
        /\ \A k \in 1 .. n : all[k] \in I
        /\ \A k, m \in 1 .. n : all[k] = all[m] => k = m
    BY KeptIndices, LedgerConstants
  <1>2. count \in Nat /\ \A i \in 1 .. count : start + i \in 1 .. n
    <2> HIDE DEF n
    <2> QED BY <1>1 DEF n
  <1>3. rows = [i \in 1 .. count |-> LedgerOrder[all[start + i]]]
    OBVIOUS
  <1> HIDE DEF count, n, all
  <1>4. \A i \in 1 .. count : LedgerOrder[all[start + i]] \in Products
    BY <1>1, <1>2 DEF Products
  <1>5. rows \in [1 .. count -> Products]
    BY <1>3, <1>4
  <1>6. rows \in Seq(Products) /\ DOMAIN rows = 1 .. count
    BY ONLY <1>2, <1>5, SequenceOf
  <1>7. ASSUME NEW i \in 1 .. count, NEW j \in 1 .. count, rows[i].id = rows[j].id
        PROVE  i = j
    <2>1. all[start + i] \in DOMAIN LedgerOrder /\ all[start + j] \in DOMAIN LedgerOrder
      BY <1>1, <1>2
    <2>2. LedgerOrder[all[start + i]].id = LedgerOrder[all[start + j]].id
      BY <1>3, <1>7
    <2>3. all[start + i] = all[start + j]
      BY <2>1, <2>2, LedgerConstants
    <2>4. start + i = start + j
      BY <1>1, <1>2, <2>3
    <2> QED BY <2>4
  <1> QED BY <1>6, <1>7 DEF DistinctIds

LEMMA LedgerServed ==
    ASSUME ExplorerInv, NEW r \in explorer.reads, ServeLedger(r)
    PROVE  ExplorerInv'
  <1> DEFINE I == {i \in ledger : /\ LedgerOrder[i].kind = r.kind
                                  /\ r.stage \in {"all", RecordStage(LedgerOrder[i])}
                                  /\ r.search => LedgerOrder[i].named}
             all == Recorded(r)
             start == (r.page - 1) * r.size
             end == IF start + r.size > Len(all) THEN Len(all) ELSE start + r.size
             rows == IF start >= Len(all) THEN <<>>
                     ELSE [i \in 1 .. end - start |-> LedgerOrder[all[start + i]]]
             served == [r EXCEPT !.phase = "served", !.total = Len(all), !.rows = rows]
             reads == (explorer.reads \ {r}) \cup {served}
  <1>1. explorer \in ExplorerRecords /\ r \in LedgerReads
    BY DEF ExplorerInv, ExplorerFits, ExplorerRecords
  <1>2. r.page \in Nat \ {0} /\ r.size \in Nat \ {0}
    BY <1>1, LedgerConstants DEF LedgerReads
  <1>3. explorer' = [explorer EXCEPT !.reads = (@ \ {r}) \cup {served}] /\ ledger' = ledger
    BY DEF ServeLedger
  <1>4. I \in SUBSET (DOMAIN LedgerOrder)
    BY DEF ExplorerInv
  <1>5. start \in Nat
    BY <1>2
  <1>6. all = InOrder(I)
    BY DEF Recorded
  <1> HIDE DEF I, start, all
  <1>7. Len(all) \in Nat
    BY <1>4, <1>6, KeptIndices, LedgerConstants
  <1>8. rows \in Seq(Products) /\ DistinctIds(rows)
    <2>1. CASE start >= Len(all)
      <3>1. rows = <<>>
        BY <2>1
      <3> HIDE DEF rows
      <3> QED BY <3>1 DEF DistinctIds
    <2>2. CASE ~(start >= Len(all))
      <3>1. end \in Nat /\ start < Len(all) /\ end <= Len(all) /\ start <= end
        BY <1>2, <1>5, <1>7, <2>2
      <3>2. rows = [i \in 1 .. end - start |-> LedgerOrder[InOrder(I)[start + i]]]
        BY <1>6, <2>2
      <3>3. start < Len(InOrder(I)) /\ end <= Len(InOrder(I))
        BY <1>6, <3>1
      <3> HIDE DEF rows, end
      <3> QED BY ONLY <1>4, <1>5, <3>1, <3>2, <3>3, ServedRows
    <2> QED BY <2>1, <2>2
  <1> HIDE DEF rows
  <1>9. served \in LedgerReads /\ served.rows = rows
    BY <1>1, <1>7, <1>8 DEF LedgerReads
  <1> HIDE DEF served
  <1>10. reads \in SUBSET LedgerReads /\ reads # {} /\ \A q \in reads : DistinctIds(q.rows)
    BY <1>1, <1>8, <1>9 DEF ExplorerInv, ExplorerFits, ExplorerRecords, RowsDistinct
  <1>11. explorer' = [explorer EXCEPT !.reads = reads]
    BY <1>1, <1>3 DEF ExplorerRecords
  <1> HIDE DEF reads
  <1>12. /\ explorer' \in ExplorerRecords /\ explorer'.reads = reads
         /\ explorer'.records = explorer.records /\ explorer'.selected = explorer.selected
    BY <1>1, <1>10, <1>11 DEF ExplorerRecords
  <1>13. RowsDistinct(explorer') /\ SelectionShown(explorer') /\ RecordsAwaited(explorer')
    BY <1>10, <1>12 DEF ExplorerInv, ExplorerFits, RowsDistinct, SelectionShown, RecordsAwaited
  <1> QED BY <1>3, <1>12, <1>13 DEF ExplorerInv, ExplorerFits

(* The selection after an answer is one of the new records. *)
LEMMA SelectionRetained ==
    ASSUME NEW rows \in Seq(Products), NEW current \in SelectedIds
    PROVE  /\ RetainSelection(current, rows) \in SelectedIds
           /\ rows # <<>> => RetainSelection(current, rows) \in Identities(rows)
  <1>1. CASE current \in Identities(rows)
    BY <1>1 DEF RetainSelection
  <1>2. CASE current \notin Identities(rows) /\ rows = <<>>
    BY <1>2 DEF RetainSelection, SelectedIds
  <1>3. CASE current \notin Identities(rows) /\ rows # <<>>
    <2>1. RetainSelection(current, rows) = rows[1].id
      BY <1>3 DEF RetainSelection
    <2>2. 1 \in DOMAIN rows /\ rows[1] \in Products
      BY <1>3
    <2> QED BY <2>1, <2>2 DEF SelectedIds, Identities
  <1> QED BY <1>1, <1>2, <1>3

LEMMA LineageStep ==
    ASSUME ExplorerInv, LineageNext
    PROVE  ExplorerInv'
  <1>1. /\ explorer \in ExplorerRecords /\ RowsDistinct(explorer)
        /\ SelectionShown(explorer) /\ RecordsAwaited(explorer)
    BY DEF ExplorerInv, ExplorerFits
  <1>2. ASSUME NEW p \in ExplorerRecords, p.records = explorer.records,
               p.selected = explorer.selected, p.reads = explorer.reads, Reads(LoadLineage(p))
        PROVE  ExplorerInv'
    <2>1. RowsDistinct(p) /\ SelectionShown(p)
      BY <1>1, <1>2 DEF RowsDistinct, SelectionShown
    <2>2. explorer' = LoadLineage(p) /\ ledger' = ledger
      BY <1>2 DEF Reads
    <2> QED BY <2>1, <2>2, RecordsAsked DEF ExplorerInv
  <1>3. 1 \in Nat \ {0}
    OBVIOUS
  <1>4. ASSUME NEW r \in explorer.reads, LedgerAnswered(r) PROVE ExplorerInv'
    <2> DEFINE kept == RetainSelection(explorer.selected, r.rows)
               reads == explorer.reads \ {r}
    <2>1. r \in LedgerReads /\ DistinctIds(r.rows)
      BY <1>1 DEF ExplorerRecords, RowsDistinct
    <2>2. r.rows \in Seq(Products) /\ r.total \in Nat
      BY <2>1 DEF LedgerReads
    <2>3. kept \in SelectedIds /\ (r.rows # <<>> => kept \in Identities(r.rows))
      BY <1>1, <2>2, SelectionRetained DEF ExplorerRecords
    <2>4. reads \in SUBSET LedgerReads /\ \A q \in reads : DistinctIds(q.rows)
      BY <1>1 DEF ExplorerRecords, RowsDistinct
    <2>5. /\ ledger' = ledger
          /\ explorer' = [explorer EXCEPT !.reads = reads, !.records = r.rows, !.total = r.total,
                                          !.selected = kept, !.loading = FALSE]
      BY <1>1, <1>4 DEF LedgerAnswered, ExplorerRecords
    <2> HIDE DEF kept, reads
    <2>6. /\ explorer' \in ExplorerRecords /\ explorer'.reads = reads /\ ~explorer'.loading
          /\ explorer'.records = r.rows /\ explorer'.selected = kept
      BY <1>1, <2>2, <2>3, <2>4, <2>5 DEF ExplorerRecords
    <2>7. RowsDistinct(explorer') /\ SelectionShown(explorer') /\ RecordsAwaited(explorer')
      BY <2>1, <2>3, <2>4, <2>6 DEF RowsDistinct, SelectionShown, RecordsAwaited
    <2> QED BY <2>5, <2>6, <2>7 DEF ExplorerInv, ExplorerFits
  <1>5. ASSUME NEW r \in explorer.reads, LedgerFailed(r) PROVE ExplorerInv'
    <2> DEFINE reads == explorer.reads \ {r}
    <2>1. reads \in SUBSET LedgerReads /\ \A q \in reads : DistinctIds(q.rows)
      BY <1>1 DEF ExplorerRecords, RowsDistinct
    <2>2. /\ ledger' = ledger
          /\ explorer' = [explorer EXCEPT !.reads = reads, !.records = <<>>, !.total = 0,
                                          !.selected = NoIdentity, !.loading = FALSE]
      BY <1>1, <1>5 DEF LedgerFailed, ExplorerRecords
    <2>3. NoIdentity \in SelectedIds /\ <<>> \in Seq(Products)
      BY DEF SelectedIds
    <2> HIDE DEF reads
    <2>4. /\ explorer' \in ExplorerRecords /\ explorer'.reads = reads /\ ~explorer'.loading
          /\ explorer'.records = <<>>
      BY <1>1, <2>1, <2>2, <2>3 DEF ExplorerRecords
    <2>5. RowsDistinct(explorer') /\ SelectionShown(explorer') /\ RecordsAwaited(explorer')
      BY <2>1, <2>4 DEF RowsDistinct, DistinctIds, SelectionShown, RecordsAwaited
    <2> QED BY <2>2, <2>4, <2>5 DEF ExplorerInv, ExplorerFits
  <1>6. ASSUME NEW i \in 1 .. Len(LedgerOrder), ProductRecorded(i) PROVE ExplorerInv'
    <2>1. i \in DOMAIN LedgerOrder
      BY LedgerConstants
    <2> QED BY <1>6, <2>1 DEF ProductRecorded, ExplorerInv
  <1>7. ASSUME NEW i \in 1 .. Len(LedgerOrder), SelectRecord(i) PROVE ExplorerInv'
    <2> DEFINE id == explorer.records[i].id
    <2>1. /\ i \in DOMAIN explorer.records /\ ledger' = ledger
          /\ explorer' = [explorer EXCEPT !.selected = id]
      BY <1>7 DEF SelectRecord
    <2>2. explorer.records \in Seq(Products)
      BY <1>1 DEF ExplorerRecords
    <2>3. id \in SelectedIds /\ id \in Identities(explorer.records)
      BY <2>1, <2>2 DEF SelectedIds, Identities
    <2> HIDE DEF id
    <2>4. /\ explorer' \in ExplorerRecords /\ explorer'.reads = explorer.reads
          /\ explorer'.loading = explorer.loading
          /\ explorer'.records = explorer.records /\ explorer'.selected = id
      BY <1>1, <2>1, <2>3 DEF ExplorerRecords
    <2>5. RowsDistinct(explorer') /\ SelectionShown(explorer') /\ RecordsAwaited(explorer')
      BY <1>1, <2>3, <2>4 DEF RowsDistinct, SelectionShown, RecordsAwaited
    <2> QED BY <2>1, <2>4, <2>5 DEF ExplorerInv, ExplorerFits
  <1>8. ASSUME NEW k \in ProductKinds, ProductKindChange(k) PROVE ExplorerInv'
    <2> DEFINE p == [explorer EXCEPT !.kind = k, !.page = 1, !.stage = "all"]
    <2>1. /\ p \in ExplorerRecords /\ p.records = explorer.records
          /\ p.selected = explorer.selected /\ p.reads = explorer.reads
      BY <1>1, <1>3 DEF ExplorerRecords, StageFilters
    <2>2. Reads(LoadLineage(p))
      BY <1>8 DEF ProductKindChange
    <2> HIDE DEF p
    <2> QED BY <1>2, <2>1, <2>2
  <1>9. ASSUME NEW s \in StageFilters, StageFilterChange(s) PROVE ExplorerInv'
    <2> DEFINE p == [explorer EXCEPT !.stage = s, !.page = 1]
    <2>1. /\ p \in ExplorerRecords /\ p.records = explorer.records
          /\ p.selected = explorer.selected /\ p.reads = explorer.reads
      BY <1>1, <1>3 DEF ExplorerRecords
    <2>2. Reads(LoadLineage(p))
      BY <1>9 DEF StageFilterChange
    <2> HIDE DEF p
    <2> QED BY <1>2, <2>1, <2>2
  <1>10. ASSUME NEW s \in BOOLEAN, LineageSearch(s) PROVE ExplorerInv'
    <2> DEFINE p == [explorer EXCEPT !.search = s]
    <2>1. /\ p \in ExplorerRecords /\ p.records = explorer.records
          /\ p.selected = explorer.selected /\ p.reads = explorer.reads
      BY <1>1 DEF ExplorerRecords
    <2>2. Reads(LoadLineage(p))
      BY <1>10 DEF LineageSearch
    <2> HIDE DEF p
    <2> QED BY <1>2, <2>1, <2>2
  <1>11. ASSUME NEW n \in LedgerSizes, PageSizeChange(n) PROVE ExplorerInv'
    <2> DEFINE p == [explorer EXCEPT !.size = n, !.page = 1]
    <2>1. /\ p \in ExplorerRecords /\ p.records = explorer.records
          /\ p.selected = explorer.selected /\ p.reads = explorer.reads
      BY <1>1, <1>3 DEF ExplorerRecords
    <2>2. Reads(LoadLineage(p))
      BY <1>11 DEF PageSizeChange
    <2> HIDE DEF p
    <2> QED BY <1>2, <2>1, <2>2
  <1>12. ASSUME NEW n \in 1 .. Len(LedgerOrder), TurnLedgerPage(n) PROVE ExplorerInv'
    <2> DEFINE p == [explorer EXCEPT !.page = n]
    <2>1. n \in Nat \ {0}
      BY LedgerConstants
    <2>2. /\ p \in ExplorerRecords /\ p.records = explorer.records
          /\ p.selected = explorer.selected /\ p.reads = explorer.reads
      BY <1>1, <2>1 DEF ExplorerRecords
    <2>3. Reads(LoadLineage(p))
      BY <1>12 DEF TurnLedgerPage
    <2> HIDE DEF p
    <2> QED BY <1>2, <2>2, <2>3
  <1>13. CASE RefreshLineage
    BY <1>1, <1>2, <1>13 DEF RefreshLineage
  <1>14. ASSUME NEW r \in explorer.reads, ServeLedger(r) PROVE ExplorerInv'
    BY <1>14, LedgerServed
  <1> QED BY <1>4, <1>5, <1>6, <1>7, <1>8, <1>9, <1>10, <1>11, <1>12, <1>13, <1>14 DEF LineageNext

LEMMA ExplorerAlways == Spec => []ExplorerInv
  <1>1. Init => ExplorerInv
    BY ExplorerMounted, LedgerServersTyped DEF Init, ExplorerInv
  <1>2. ExplorerInv /\ [Next]_vars => ExplorerInv'
    <2> SUFFICES ASSUME ExplorerInv, [Next]_vars PROVE ExplorerInv'
      OBVIOUS
    <2>1. CASE UNCHANGED ledgerVars
      BY <2>1 DEF ledgerVars, ExplorerInv
    <2>2. CASE explorer' = MountedExplorer /\ \E open \in BOOLEAN : ledger' \in LedgerServers(open)
      BY <2>2, ExplorerMounted, LedgerServersTyped DEF ExplorerInv
    <2>3. CASE LineageNext
      BY <2>3, LineageStep
    <2> QED BY <2>1, <2>2, <2>3, ExplorerMoves
  <1> QED BY <1>1, <1>2, PTL DEF Spec

(* The evidence beside the ledger is that of its marked row, and exactly one *)
(* row is marked while there are records: an answer that drops the selected  *)
(* product moves the mark with the evidence (lineage-explorer/page.tsx,      *)
(* loadLineage).                                                             *)
THEOREM EvidenceFitsRow == Spec => []EvidenceOfMarkedRow
  <1>1. ExplorerInv => EvidenceOfMarkedRow
    <2> SUFFICES ASSUME ExplorerInv PROVE EvidenceOfMarkedRow
      OBVIOUS
    <2> DEFINE rows == explorer.records
    <2>1. rows \in Seq(Products) /\ DistinctIds(rows) /\ SelectionShown(explorer)
      BY DEF ExplorerInv, ExplorerFits, ExplorerRecords, RowsDistinct
    <2>2. Inspected(explorer) = MarkedRow(explorer)
      <3>1. CASE rows = <<>>
        BY <3>1 DEF Inspected, MarkedRow
      <3>2. CASE rows # <<>>
        <4>1. PICK k \in DOMAIN rows : explorer.selected = rows[k].id
          BY <2>1, <3>2 DEF SelectionShown, Identities
        <4>2. MarkedRow(explorer) = {k}
          BY <2>1, <4>1 DEF MarkedRow, DistinctIds
        <4>3. k \in Nat
          BY <2>1
        <4>4. (CHOOSE i \in {k} : \A j \in {k} : i <= j) = k
          BY <4>3
        <4> QED BY <3>2, <4>2, <4>4 DEF Inspected
      <3> QED BY <3>1, <3>2
    <2>3. ASSUME NEW i \in DOMAIN rows
          PROVE  EvidencePath(rows[i])[5] = "gold" <=> RecordStage(rows[i]) = "gold"
      BY DEF EvidencePath, RecordStage
    <2>4. {i \in DOMAIN rows : EvidencePath(rows[i])[5] = "gold"}
            = {i \in DOMAIN rows : RecordStage(rows[i]) = "gold"}
      BY <2>3
    <2>5. Counts(explorer)["gold"] = Cardinality({i \in DOMAIN rows : RecordStage(rows[i]) = "gold"})
      BY DEF Counts, StageFilters
    <2> QED BY <2>2, <2>4, <2>5 DEF EvidenceOfMarkedRow
  <1> QED BY <1>1, ExplorerAlways, PTL

-----------------------------------------------------------------------------
(* The labeling studio: the request for evidence that counts is the one of   *)
(* the selected row, the basis of the form was filled in for the evidence    *)
(* that is shown, and while the queue is loading its latest request is       *)
(* under way.                                                                *)
AnyRow == Rows \cup {NoRow}
QueuePages == [items : Seq(Rows), more : BOOLEAN]
WorkspaceReads ==
    [scope : SUBSET Snapshots, offset : Nat, phase : {"sent", "served"}, body : QueuePages,
     latest : BOOLEAN, saving : BOOLEAN]
Saves ==
    [phase : {"none", "sent", "served", "reloading"}, row : AnyRow, resolves : BOOLEAN,
     scope : SUBSET Snapshots, offset : Nat]
StudioRecords ==
    [available : SUBSET Snapshots, listing : BOOLEAN, scope : SUBSET Snapshots, offset : Nat,
     items : Seq(Rows), more : BOOLEAN, loading : BOOLEAN, reads : SUBSET WorkspaceReads,
     key : AnyRow, detail : AnyRow, detailLoading : BOOLEAN, wanted : AnyRow,
     evidenceReads : SUBSET Rows, basis : BOOLEAN, basisFor : AnyRow, save : Saves]
Cohorts == [committed : SUBSET Snapshots, unresolved : SUBSET Rows]

QueueAwaited(p) == p.loading => \E r \in p.reads : r.latest
WantsSelection(p) == SelectedItem(p) # NoRow => p.wanted = p.key
EvidenceFits(p) == SelectedItem(p) # NoRow /\ ~p.detailLoading => p.detail \in {NoRow, p.key}
BasisFits(p) == p.detail # NoRow /\ AdviceFor(p.detail) # NoAdvice => p.basisFor = p.detail
StudioFits(p) ==
    p \in StudioRecords /\ QueueAwaited(p) /\ WantsSelection(p) /\ EvidenceFits(p) /\ BasisFits(p)
StudioInv == StudioFits(studio) /\ cohort \in Cohorts

(* The state that a handler leaves to the effects of the next render. *)
BeforeEffects(old, p) ==
    /\ p \in StudioRecords /\ QueueAwaited(p)
    /\ p.basisFor = old.basisFor /\ p.wanted = old.wanted
    /\ \/ p.detail \in {NoRow, old.detail} /\ p.detailLoading = old.detailLoading
       \/ p.detail \in {NoRow, p.wanted}

LEMMA StudioMoves ==
    ASSUME [Next]_vars
    PROVE  \/ /\ \E stored \in (SUBSET Snapshots) \cup {NoScope} : studio' = MountedStudio(stored)
              /\ \E open \in BOOLEAN : cohort' \in LabelServers(open)
           \/ UNCHANGED labelVars
           \/ LabelNext
  <1>1. CASE Leave \/ \E p \in WorkPages : Open(p)
    <2>1. PICK p : Mounts(p)
      BY <1>1 DEF Leave, Open
    <2>2. PICK stored \in (IF p = "labeling" THEN SUBSET Snapshots ELSE {}) \cup {NoScope} :
              studio' = MountedStudio(stored)
      BY <2>1 DEF Mounts
    <2>3. stored \in (SUBSET Snapshots) \cup {NoScope}
      OBVIOUS
    <2>4. \E open \in BOOLEAN : cohort' \in LabelServers(open)
      BY <2>1 DEF Mounts
    <2> QED BY <2>2, <2>3, <2>4
  <1>2. CASE InFactory \/ InObservatory \/ InStore \/ UNCHANGED vars
    BY <1>2 DEF InFactory, InObservatory, InStore, vars, factoryVars, labelVars
  <1> QED BY <1>1, <1>2 DEF Next

LEMMA NoPageTyped == NoPage \in QueuePages
  BY DEF NoPage, QueuePages

LEMMA NoSaveTyped == NoSave \in Saves
  BY DEF NoSave, Saves, AnyRow

LEMMA QueueCleared ==
    ASSUME NEW old, NEW p, BeforeEffects(old, p)
    PROVE  BeforeEffects(old, ClearedQueue(p))
  <1> DEFINE q == ClearedQueue(p)
  <1>1. p \in StudioRecords
    BY DEF BeforeEffects
  <1>2. q = [p EXCEPT !.items = <<>>, !.more = FALSE, !.key = NoRow, !.detail = NoRow]
    BY DEF ClearedQueue
  <1>3. NoRow \in AnyRow /\ <<>> \in Seq(Rows)
    BY DEF AnyRow
  <1> HIDE DEF q
  <1>4. /\ q \in StudioRecords /\ q.loading = p.loading /\ q.reads = p.reads
        /\ q.basisFor = p.basisFor /\ q.wanted = p.wanted /\ q.detail = NoRow
    BY <1>1, <1>2, <1>3 DEF StudioRecords
  <1>5. BeforeEffects(old, q)
    BY <1>4 DEF BeforeEffects, QueueAwaited
  <1> QED BY <1>5 DEF q

LEMMA WorkspaceLoaded ==
    ASSUME NEW old, NEW p, BeforeEffects(old, p), NEW scope \in SUBSET Snapshots,
           NEW offset \in Nat, NEW saving \in BOOLEAN
    PROVE  /\ BeforeEffects(old, LoadWorkspace(p, scope, offset, saving))
           /\ LoadWorkspace(p, scope, offset, saving).scope = p.scope
           /\ LoadWorkspace(p, scope, offset, saving).offset = p.offset
  <1> DEFINE asked == [scope |-> scope, offset |-> offset, phase |-> "sent", body |-> NoPage,
                       latest |-> TRUE, saving |-> saving]
             old2 == {[r EXCEPT !.latest = FALSE] : r \in p.reads}
             reads == old2 \cup {asked}
             q == LoadWorkspace(p, scope, offset, saving)
  <1>1. p \in StudioRecords
    BY DEF BeforeEffects
  <1>2. CASE scope = {}
    <2>1. q = ClearedQueue(p)
      BY <1>2 DEF LoadWorkspace
    <2>2. ClearedQueue(p).scope = p.scope /\ ClearedQueue(p).offset = p.offset
      BY <1>1 DEF ClearedQueue, StudioRecords
    <2> QED BY <2>1, <2>2, QueueCleared
  <1>3. CASE scope # {}
    <2>1. q = [p EXCEPT !.reads = reads, !.loading = TRUE]
      BY <1>1, <1>3 DEF LoadWorkspace, StudioRecords
    <2>2. asked \in WorkspaceReads /\ asked.latest
      BY NoPageTyped DEF WorkspaceReads
    <2>3. old2 \in SUBSET WorkspaceReads
      <3> SUFFICES ASSUME NEW s \in p.reads PROVE [s EXCEPT !.latest = FALSE] \in WorkspaceReads
        OBVIOUS
      <3>1. s \in WorkspaceReads
        BY <1>1 DEF StudioRecords
      <3> QED BY <3>1 DEF WorkspaceReads
    <2> HIDE DEF old2, asked, q
    <2>4. reads \in SUBSET WorkspaceReads /\ \E r \in reads : r.latest
      BY <2>2, <2>3
    <2> HIDE DEF reads
    <2>5. /\ q \in StudioRecords /\ q.loading /\ q.reads = reads /\ q.detail = p.detail
          /\ q.basisFor = p.basisFor /\ q.wanted = p.wanted /\ q.detailLoading = p.detailLoading
          /\ q.scope = p.scope /\ q.offset = p.offset
      BY <1>1, <2>1, <2>4 DEF StudioRecords
    <2>6. BeforeEffects(old, q)
      BY <2>4, <2>5 DEF BeforeEffects, QueueAwaited
    <2> QED BY <2>5, <2>6 DEF q
  <1> QED BY <1>2, <1>3

LEMMA ScopeSettles ==
    ASSUME NEW old, NEW p, BeforeEffects(old, p)
    PROVE  BeforeEffects(old, ScopeEffects(old, p))
  <1>1. p \in StudioRecords
    BY DEF BeforeEffects
  <1>2. p.scope \in SUBSET Snapshots /\ p.offset \in Nat /\ FALSE \in BOOLEAN /\ 0 \in Nat
    BY <1>1 DEF StudioRecords
  <1> DEFINE first == LoadWorkspace(p, p.scope, p.offset, FALSE)
             reset == [first EXCEPT !.offset = 0]
  <1>3. BeforeEffects(old, first)
    BY ONLY <1>2, BeforeEffects(old, p), WorkspaceLoaded
  <1>4. ScopeEffects(old, p) \in {p, first, LoadWorkspace(reset, p.scope, 0, FALSE)}
    BY DEF ScopeEffects
  <1> HIDE DEF first
  <1>5. BeforeEffects(old, reset)
    <2>1. first \in StudioRecords
      BY <1>3 DEF BeforeEffects
    <2>2. /\ reset \in StudioRecords /\ reset.loading = first.loading /\ reset.reads = first.reads
          /\ reset.basisFor = first.basisFor /\ reset.wanted = first.wanted
          /\ reset.detail = first.detail /\ reset.detailLoading = first.detailLoading
      BY <2>1 DEF StudioRecords
    <2> HIDE DEF reset
    <2> QED BY <1>3, <2>2 DEF BeforeEffects, QueueAwaited
  <1> HIDE DEF reset
  <1>6. BeforeEffects(old, LoadWorkspace(reset, p.scope, 0, FALSE))
    BY ONLY <1>2, <1>5, WorkspaceLoaded
  <1> QED BY <1>3, <1>4, <1>6

(* The effects of the selection and of the evidence restore what the page    *)
(* promises.                                                                 *)
LEMMA SelectionSettles ==
    ASSUME NEW old, StudioFits(old), NEW p, BeforeEffects(old, p),
           NEW q, q = SelectionEffects(old, p)
    PROVE  /\ q \in StudioRecords /\ QueueAwaited(q) /\ WantsSelection(q) /\ EvidenceFits(q)
           /\ q.basisFor = old.basisFor
  <1>1. p \in StudioRecords /\ old \in StudioRecords
    BY DEF BeforeEffects, StudioFits
  <1>2. CASE SelectedItem(p) = SelectedItem(old) /\ p.key = old.key
    <2>1. q = p
      BY <1>2 DEF SelectionEffects
    <2>2. WantsSelection(p) /\ EvidenceFits(p)
      BY <1>2 DEF BeforeEffects, StudioFits, WantsSelection, EvidenceFits
    <2> QED BY <2>1, <2>2 DEF BeforeEffects
  <1>3. CASE ~(SelectedItem(p) = SelectedItem(old) /\ p.key = old.key) /\ SelectedItem(p) = NoRow
    <2>1. q = [p EXCEPT !.detail = NoRow, !.wanted = NoRow]
      BY <1>3 DEF SelectionEffects
    <2>2. /\ q \in StudioRecords /\ q.loading = p.loading /\ q.reads = p.reads
          /\ q.key = p.key /\ q.items = p.items /\ q.basisFor = p.basisFor
      BY <1>1, <2>1 DEF StudioRecords, AnyRow
    <2>3. SelectedItem(q) = NoRow
      BY <1>3, <2>2 DEF SelectedItem
    <2> QED BY <2>2, <2>3 DEF BeforeEffects, QueueAwaited, WantsSelection, EvidenceFits
  <1>4. CASE ~(SelectedItem(p) = SelectedItem(old) /\ p.key = old.key) /\ SelectedItem(p) # NoRow
    <2> DEFINE asked == p.evidenceReads \cup {p.key}
    <2>1. q = [p EXCEPT !.wanted = p.key, !.evidenceReads = asked, !.detailLoading = TRUE]
      BY <1>1, <1>4 DEF SelectionEffects, StudioRecords
    <2>2. p.key \in Rows
      BY <1>1, <1>4 DEF SelectedItem, StudioRecords, AnyRow
    <2>3. asked \in SUBSET Rows /\ p.key \in AnyRow
      BY <1>1, <2>2 DEF StudioRecords
    <2> HIDE DEF asked
    <2>4. /\ q \in StudioRecords /\ q.loading = p.loading /\ q.reads = p.reads
          /\ q.key = p.key /\ q.wanted = p.key /\ q.basisFor = p.basisFor /\ q.detailLoading
      BY <1>1, <2>1, <2>3 DEF StudioRecords
    <2> QED BY <2>4 DEF BeforeEffects, QueueAwaited, WantsSelection, EvidenceFits
  <1> QED BY <1>2, <1>3, <1>4

LEMMA EvidenceSettles ==
    ASSUME NEW old, StudioFits(old), NEW p \in StudioRecords, QueueAwaited(p), WantsSelection(p),
           EvidenceFits(p), p.basisFor = old.basisFor
    PROVE  StudioFits(EvidenceEffects(old, p))
  <1> DEFINE advice == AdviceFor(p.detail)
             filled == p.key # old.key \/ advice # AdviceFor(old.detail)
                       \/ (p.detail # old.detail /\ advice # NoAdvice)
                       \/ (p.detail = NoRow) # (old.detail = NoRow)
             basis == advice # NoAdvice
             q == EvidenceEffects(old, p)
  <1>1. q = IF filled THEN [p EXCEPT !.basis = basis, !.basisFor = p.detail] ELSE p
    BY DEF EvidenceEffects
  <1>2. basis \in BOOLEAN
    OBVIOUS
  <1>3. CASE filled
    <2>1. q = [p EXCEPT !.basis = basis, !.basisFor = p.detail]
      BY <1>1, <1>3
    <2> HIDE DEF q, basis, filled
    <2>2. /\ q \in StudioRecords /\ q.loading = p.loading /\ q.reads = p.reads /\ q.items = p.items
          /\ q.key = p.key /\ q.wanted = p.wanted /\ q.detail = p.detail
          /\ q.detailLoading = p.detailLoading /\ q.basisFor = p.detail
      BY <1>2, <2>1 DEF StudioRecords
    <2>3. SelectedItem(q) = SelectedItem(p)
      BY <2>2 DEF SelectedItem
    <2>4. QueueAwaited(q) /\ WantsSelection(q) /\ EvidenceFits(q) /\ BasisFits(q)
      BY <2>2, <2>3 DEF QueueAwaited, WantsSelection, EvidenceFits, BasisFits
    <2>5. StudioFits(q)
      BY <2>2, <2>4 DEF StudioFits
    <2> QED BY <2>5 DEF q
  <1>4. CASE ~filled
    <2>1. q = p
      BY <1>1, <1>4
    <2>2. BasisFits(p)
      BY <1>4 DEF StudioFits, BasisFits
    <2> QED BY <2>1, <2>2 DEF StudioFits
  <1> QED BY <1>3, <1>4

LEMMA Rendered ==
    ASSUME StudioInv, NEW p, BeforeEffects(studio, p), StudioRenders(p), cohort' \in Cohorts
    PROVE  StudioInv'
  <1> DEFINE scoped == ScopeEffects(studio, p)
             chosen == SelectionEffects(studio, scoped)
  <1>1. StudioFits(studio)
    BY DEF StudioInv
  <1>2. BeforeEffects(studio, scoped)
    BY ScopeSettles
  <1>3. studio' = EvidenceEffects(studio, chosen)
    BY DEF StudioRenders
  <1> HIDE DEF scoped
  <1>4. /\ chosen \in StudioRecords /\ QueueAwaited(chosen) /\ WantsSelection(chosen)
        /\ EvidenceFits(chosen) /\ chosen.basisFor = studio.basisFor
    BY ONLY <1>1, <1>2, SelectionSettles
  <1> HIDE DEF chosen
  <1>5. StudioFits(EvidenceEffects(studio, chosen))
    BY <1>1, <1>4, EvidenceSettles
  <1> QED BY <1>3, <1>5 DEF StudioInv

LEMMA StudioMounted ==
    ASSUME NEW stored \in (SUBSET Snapshots) \cup {NoScope}
    PROVE  StudioFits(MountedStudio(stored))
  <1> DEFINE scope == IF stored = NoScope THEN {} ELSE stored
             atMount == ScopeAtMount(stored)
             blank == [available |-> {}, listing |-> TRUE, scope |-> atMount, offset |-> 0,
                       items |-> <<>>, more |-> FALSE, loading |-> FALSE, reads |-> {},
                       key |-> NoRow, detail |-> NoRow, detailLoading |-> FALSE, wanted |-> NoRow,
                       evidenceReads |-> {}, basis |-> FALSE, basisFor |-> NoRow, save |-> NoSave]
             q == MountedStudio(stored)
  <1>1. q = LoadWorkspace(blank, scope, 0, FALSE)
    BY DEF MountedStudio
  <1>2. scope \in SUBSET Snapshots /\ 0 \in Nat /\ FALSE \in BOOLEAN
    OBVIOUS
  <1>3. atMount \in SUBSET Snapshots
    BY DEF ScopeAtMount, SyncScope
  <1> HIDE DEF scope, atMount
  <1>4. blank \in StudioRecords
    BY <1>3, NoSaveTyped DEF StudioRecords, AnyRow
  <1>5. /\ ~blank.loading /\ blank.detail = NoRow /\ blank.items = <<>> /\ blank.key = NoRow
    OBVIOUS
  <1> HIDE DEF blank
  <1>6. BeforeEffects(blank, blank)
    BY <1>4, <1>5 DEF BeforeEffects, QueueAwaited
  <1>7. BeforeEffects(blank, LoadWorkspace(blank, scope, 0, FALSE))
    BY ONLY <1>2, <1>6, WorkspaceLoaded
  <1>8. q.detail = NoRow /\ q.key = NoRow
    <2>1. CASE scope = {}
      <3>1. q = [blank EXCEPT !.items = <<>>, !.more = FALSE, !.key = NoRow, !.detail = NoRow]
        BY <1>1, <2>1 DEF LoadWorkspace, ClearedQueue
      <3> QED BY <1>4, <3>1 DEF StudioRecords
    <2>2. CASE scope # {}
      <3>1. \E reads : q = [blank EXCEPT !.reads = reads, !.loading = TRUE]
        BY <1>1, <1>4, <2>2 DEF LoadWorkspace, StudioRecords
      <3> QED BY <1>4, <1>5, <3>1 DEF StudioRecords
    <2> QED BY <2>1, <2>2
  <1> HIDE DEF q
  <1>9. SelectedItem(q) = NoRow
    BY <1>8 DEF SelectedItem
  <1>10. WantsSelection(q) /\ EvidenceFits(q) /\ BasisFits(q)
    BY <1>8, <1>9 DEF WantsSelection, EvidenceFits, BasisFits
  <1>11. StudioFits(q)
    BY <1>1, <1>7, <1>10 DEF BeforeEffects, StudioFits
  <1> QED BY <1>11 DEF q

LEMMA LabelServersTyped ==
    ASSUME NEW open \in BOOLEAN, NEW c \in LabelServers(open)
    PROVE  c \in Cohorts
  BY DEF LabelServers, Cohorts

(* A handler that leaves the requests and the evidence alone. *)
LEMMA QuietHandler ==
    ASSUME StudioInv, NEW p \in StudioRecords,
           p.loading = studio.loading, p.reads = studio.reads, p.basisFor = studio.basisFor,
           p.wanted = studio.wanted, p.detail = studio.detail,
           p.detailLoading = studio.detailLoading
    PROVE  BeforeEffects(studio, p)
  BY DEF StudioInv, StudioFits, BeforeEffects, QueueAwaited

LEMMA ListEnded ==
    ASSUME StudioInv, ListingAnswered \/ ListingFailed
    PROVE  StudioInv'
  <1>1. studio \in StudioRecords /\ cohort \in Cohorts /\ cohort' = cohort
    BY DEF StudioInv, StudioFits, ListingAnswered, ListingFailed
  <1>2. /\ \A S \in SUBSET Snapshots : SyncScope(studio.scope, S, TRUE) \in SUBSET Snapshots
        /\ cohort.committed \in SUBSET Snapshots
    BY <1>1 DEF SyncScope, StudioRecords, Cohorts
  <1>3. CASE ListingAnswered
    <2> DEFINE scope == SyncScope(studio.scope, cohort.committed, TRUE)
               p == [studio EXCEPT !.listing = FALSE, !.available = cohort.committed, !.scope = scope]
    <2>1. StudioRenders(p)
      BY <1>1, <1>3 DEF ListingAnswered, StudioRecords
    <2>2. scope \in SUBSET Snapshots
      BY <1>2
    <2> HIDE DEF scope
    <2>3. /\ p \in StudioRecords /\ p.loading = studio.loading /\ p.reads = studio.reads
          /\ p.basisFor = studio.basisFor /\ p.wanted = studio.wanted
          /\ p.detail = studio.detail /\ p.detailLoading = studio.detailLoading
      BY <1>1, <1>2, <2>2 DEF StudioRecords
    <2> HIDE DEF p
    <2> QED BY <1>1, <2>1, <2>3, QuietHandler, Rendered
  <1>4. CASE ListingFailed
    <2> DEFINE scope == SyncScope(studio.scope, {}, TRUE)
               p == [studio EXCEPT !.listing = FALSE, !.scope = scope]
    <2>1. StudioRenders(p)
      BY <1>1, <1>4 DEF ListingFailed, StudioRecords
    <2>2. scope \in SUBSET Snapshots
      BY <1>2
    <2> HIDE DEF scope
    <2>3. /\ p \in StudioRecords /\ p.loading = studio.loading /\ p.reads = studio.reads
          /\ p.basisFor = studio.basisFor /\ p.wanted = studio.wanted
          /\ p.detail = studio.detail /\ p.detailLoading = studio.detailLoading
      BY <1>1, <2>2 DEF StudioRecords
    <2> HIDE DEF p
    <2> QED BY <1>1, <2>1, <2>3, QuietHandler, Rendered
  <1> QED BY <1>3, <1>4

(* The page of the queue that the server cuts out. *)
LEMMA QueuePage ==
    ASSUME NEW I \in SUBSET (DOMAIN QueueOrder), NEW offset \in Nat
    PROVE  LET rows == ElementsAt(QueueOrder, I)
           IN /\ SubSeq(rows, offset + 1, IF offset + PageSize < Len(rows)
                                          THEN offset + PageSize ELSE Len(rows)) \in Seq(Rows)
              /\ (offset + PageSize < Len(rows)) \in BOOLEAN
  <1> DEFINE rows == ElementsAt(QueueOrder, I)
             last == IF offset + PageSize < Len(rows) THEN offset + PageSize ELSE Len(rows)
  <1>1. QueueOrder \in Seq(Rows)
    BY LabelingConstants DEF Rows, ToSet
  <1>2. rows \in Seq(Rows)
    BY <1>1, ElementsAtSeq
  <1> HIDE DEF rows
  <1>3. last \in Nat /\ last <= Len(rows) /\ Len(rows) \in Nat
    BY <1>2, LabelingConstants
  <1> HIDE DEF last
  <1>4. \A i \in offset + 1 .. last : rows[i] \in Rows
    BY <1>2, <1>3
  <1>5. offset + 1 \in Int /\ last \in Int
    BY <1>3
  <1>6. SubSeq(rows, offset + 1, last) \in Seq(Rows)
    BY ONLY <1>4, <1>5, SubSeqProperties
  <1> QED BY <1>6 DEF rows, last

LEMMA WorkspaceServed ==
    ASSUME StudioInv, NEW r \in studio.reads, ServeWorkspace(r)
    PROVE  StudioInv'
  <1> DEFINE I == {i \in DOMAIN QueueOrder :
                     QueueOrder[i].snapshot \in r.scope /\ QueueOrder[i] \in cohort.unresolved}
             rows == ElementsAt(QueueOrder, I)
             items == SubSeq(rows, r.offset + 1, IF r.offset + PageSize < Len(rows)
                                                 THEN r.offset + PageSize ELSE Len(rows))
             more == r.offset + PageSize < Len(rows)
             page == [items |-> items, more |-> more]
             served == [r EXCEPT !.scope = {}, !.offset = 0, !.phase = "served", !.body = page]
             reads == (studio.reads \ {r}) \cup {served}
  <1>1. studio \in StudioRecords /\ r \in WorkspaceReads
    BY DEF StudioInv, StudioFits, StudioRecords
  <1>2. /\ studio' = [studio EXCEPT !.reads = (@ \ {r}) \cup {served}]
        /\ cohort' = cohort
    BY DEF ServeWorkspace
  <1>3. items \in Seq(Rows) /\ more \in BOOLEAN
    <2>1. I \in SUBSET (DOMAIN QueueOrder)
      OBVIOUS
    <2>2. r.offset \in Nat
      BY <1>1 DEF WorkspaceReads
    <2> HIDE DEF I
    <2> QED BY <2>1, <2>2, QueuePage
  <1> HIDE DEF items, more
  <1>4. page \in QueuePages
    BY <1>3 DEF QueuePages
  <1> HIDE DEF page
  <1>5. served \in WorkspaceReads /\ served.latest = r.latest
    BY <1>1, <1>4 DEF WorkspaceReads
  <1> HIDE DEF served
  <1>6. /\ reads \in SUBSET WorkspaceReads
        /\ (\E q \in studio.reads : q.latest) => \E q \in reads : q.latest
        /\ studio' = [studio EXCEPT !.reads = reads]
    BY <1>1, <1>2, <1>5 DEF StudioRecords
  <1> HIDE DEF reads
  <1>7. /\ studio' \in StudioRecords /\ studio'.loading = studio.loading /\ studio'.reads = reads
        /\ studio'.items = studio.items /\ studio'.key = studio.key
        /\ studio'.basisFor = studio.basisFor /\ studio'.wanted = studio.wanted
        /\ studio'.detail = studio.detail /\ studio'.detailLoading = studio.detailLoading
    BY <1>1, <1>6 DEF StudioRecords
  <1>8. SelectedItem(studio') = SelectedItem(studio)
    BY <1>7 DEF SelectedItem
  <1>9. QueueAwaited(studio') /\ WantsSelection(studio') /\ EvidenceFits(studio') /\ BasisFits(studio')
    BY <1>6, <1>7, <1>8 DEF StudioInv, StudioFits, QueueAwaited, WantsSelection, EvidenceFits, BasisFits
  <1> QED BY <1>2, <1>7, <1>9 DEF StudioInv, StudioFits

(* A request of the queue ends.  When it was the latest one the loading ends *)
(* with it.                                                                  *)
LEMMA QueueReadEnds ==
    ASSUME StudioInv, NEW r \in studio.reads
    PROVE  LET p == ReadEnded(studio, r)
           IN /\ p \in StudioRecords /\ p.reads = studio.reads \ {r} /\ p.loading = studio.loading
              /\ p.basisFor = studio.basisFor /\ p.wanted = studio.wanted /\ p.key = studio.key
              /\ p.detail = studio.detail /\ p.detailLoading = studio.detailLoading
  <1> DEFINE reads == studio.reads \ {r}
             save == IF r.saving THEN NoSave ELSE studio.save
             p == ReadEnded(studio, r)
  <1>1. studio \in StudioRecords
    BY DEF StudioInv, StudioFits
  <1>2. p = [studio EXCEPT !.reads = reads, !.save = save]
    BY <1>1 DEF ReadEnded, StudioRecords
  <1>3. reads \in SUBSET WorkspaceReads /\ save \in Saves
    BY <1>1, NoSaveTyped DEF StudioRecords
  <1> HIDE DEF save, p
  <1>4. reads = studio.reads \ {r}
    OBVIOUS
  <1> HIDE DEF reads
  <1>5. /\ p \in StudioRecords /\ p.reads = reads /\ p.loading = studio.loading
        /\ p.basisFor = studio.basisFor /\ p.wanted = studio.wanted /\ p.key = studio.key
        /\ p.detail = studio.detail /\ p.detailLoading = studio.detailLoading
    BY <1>1, <1>2, <1>3 DEF StudioRecords
  <1> QED BY <1>4, <1>5 DEF p

LEMMA WorkspaceEnded ==
    ASSUME StudioInv, NEW r \in studio.reads, WorkspaceAnswered(r) \/ WorkspaceFailed(r)
    PROVE  StudioInv'
  <1> DEFINE p == ReadEnded(studio, r)
  <1>1. /\ p \in StudioRecords /\ p.reads = studio.reads \ {r} /\ p.loading = studio.loading
        /\ p.basisFor = studio.basisFor /\ p.wanted = studio.wanted /\ p.key = studio.key
        /\ p.detail = studio.detail /\ p.detailLoading = studio.detailLoading
    BY QueueReadEnds
  <1>2. studio \in StudioRecords /\ cohort \in Cohorts /\ cohort' = cohort /\ r \in WorkspaceReads
    BY DEF StudioInv, StudioFits, StudioRecords, WorkspaceAnswered, WorkspaceFailed
  <1>3. CASE ~r.latest
    <2>1. StudioRenders(p)
      BY <1>3 DEF WorkspaceAnswered, WorkspaceFailed, Newest
    <2> HIDE DEF p
    <2>2. BeforeEffects(studio, p)
      BY <1>1, <1>3 DEF StudioInv, StudioFits, BeforeEffects, QueueAwaited
    <2> QED BY <1>2, <2>1, <2>2, Rendered
  <1>4. CASE r.latest /\ WorkspaceAnswered(r)
    <2> DEFINE key == IF r.body.items = <<>> THEN NoRow
                      ELSE IF p.key \in ToSet(r.body.items) THEN p.key ELSE Head(r.body.items)
               q == [p EXCEPT !.items = r.body.items, !.more = r.body.more, !.key = key, !.loading = FALSE]
    <2>1. StudioRenders(q)
      BY <1>4 DEF WorkspaceAnswered, Newest
    <2>2. r.body.items \in Seq(Rows) /\ r.body.more \in BOOLEAN
      BY <1>2 DEF WorkspaceReads, QueuePages
    <2> HIDE DEF p
    <2>3. key \in AnyRow
      <3>1. p.key \in AnyRow
        BY <1>1 DEF StudioRecords
      <3>2. r.body.items # <<>> => Head(r.body.items) \in Rows
        BY <2>2
      <3> QED BY <3>1, <3>2 DEF AnyRow
    <2> HIDE DEF key
    <2>4. /\ q \in StudioRecords /\ ~q.loading
          /\ q.basisFor = p.basisFor /\ q.wanted = p.wanted
          /\ q.detail = p.detail /\ q.detailLoading = p.detailLoading
      BY <1>1, <2>2, <2>3 DEF StudioRecords
    <2> HIDE DEF q
    <2>5. BeforeEffects(studio, q)
      BY <1>1, <2>4 DEF BeforeEffects, QueueAwaited
    <2> QED BY <1>2, <2>1, <2>5, Rendered
  <1>5. CASE r.latest /\ WorkspaceFailed(r)
    <2> DEFINE c == ClearedQueue(p)
               q == [c EXCEPT !.loading = FALSE]
    <2>1. StudioRenders(q)
      BY <1>5 DEF WorkspaceFailed, Newest
    <2> HIDE DEF p
    <2>2. c = [p EXCEPT !.items = <<>>, !.more = FALSE, !.key = NoRow, !.detail = NoRow]
      BY DEF ClearedQueue
    <2>3. NoRow \in AnyRow /\ <<>> \in Seq(Rows)
      BY DEF AnyRow
    <2> HIDE DEF c
    <2>4. /\ c \in StudioRecords /\ c.basisFor = p.basisFor /\ c.wanted = p.wanted
          /\ c.detail = NoRow /\ c.detailLoading = p.detailLoading
      BY <1>1, <2>2, <2>3 DEF StudioRecords
    <2>5. /\ q \in StudioRecords /\ ~q.loading
          /\ q.basisFor = c.basisFor /\ q.wanted = c.wanted
          /\ q.detail = c.detail /\ q.detailLoading = c.detailLoading
      BY <2>4 DEF StudioRecords
    <2> HIDE DEF q
    <2>6. BeforeEffects(studio, q)
      BY <1>1, <2>4, <2>5 DEF BeforeEffects, QueueAwaited
    <2> QED BY <1>2, <2>1, <2>6, Rendered
  <1> QED BY <1>3, <1>4, <1>5

LEMMA RowAnswered ==
    ASSUME StudioInv, NEW row \in Rows, EvidenceAnswered(row)
    PROVE  StudioInv'
  <1> DEFINE asked == studio.evidenceReads \ {row}
             p == [studio EXCEPT !.evidenceReads = asked]
  <1>1. studio \in StudioRecords /\ cohort \in Cohorts /\ cohort' = cohort
    BY DEF StudioInv, StudioFits, EvidenceAnswered
  <1>2. p = [studio EXCEPT !.evidenceReads = @ \ {row}]
    BY <1>1 DEF StudioRecords
  <1>3. PICK answer \in {row, NoRow} :
            StudioRenders(IF Wanted(row) THEN [p EXCEPT !.detail = answer, !.detailLoading = FALSE] ELSE p)
    BY <1>2 DEF EvidenceAnswered
  <1>4. asked \in SUBSET Rows
    BY <1>1 DEF StudioRecords
  <1> HIDE DEF asked
  <1>5. /\ p \in StudioRecords /\ p.loading = studio.loading /\ p.reads = studio.reads
        /\ p.basisFor = studio.basisFor /\ p.wanted = studio.wanted
        /\ p.detail = studio.detail /\ p.detailLoading = studio.detailLoading
    BY <1>1, <1>4 DEF StudioRecords
  <1> HIDE DEF p
  <1>6. CASE ~Wanted(row)
    <2>1. StudioRenders(p)
      BY <1>3, <1>6
    <2> QED BY <1>1, <1>5, <2>1, QuietHandler, Rendered
  <1>7. CASE Wanted(row)
    <2> DEFINE q == [p EXCEPT !.detail = answer, !.detailLoading = FALSE]
    <2>1. StudioRenders(q)
      BY <1>3, <1>7
    <2>2. answer \in AnyRow
      BY DEF AnyRow
    <2>3. /\ q \in StudioRecords /\ q.loading = p.loading /\ q.reads = p.reads
          /\ q.basisFor = p.basisFor /\ q.wanted = p.wanted /\ q.detail = answer
      BY <1>5, <2>2 DEF StudioRecords
    <2> HIDE DEF q
    <2>4. q.detail \in {NoRow, q.wanted}
      BY <1>5, <1>7, <2>3 DEF Wanted
    <2>5. BeforeEffects(studio, q)
      BY <1>5, <2>3, <2>4 DEF StudioInv, StudioFits, BeforeEffects, QueueAwaited
    <2> QED BY <1>1, <2>1, <2>5, Rendered
  <1> QED BY <1>6, <1>7

(* The operator moves to another row, page or scope. *)
LEMMA Moved ==
    ASSUME StudioInv, cohort' = cohort, NEW p, StudioRenders(p),
           \/ p = studio
           \/ \E key \in Rows : p = [studio EXCEPT !.key = key]
           \/ \E offset \in Nat : p = [studio EXCEPT !.offset = offset]
           \/ \E scope \in SUBSET Snapshots : p = [studio EXCEPT !.scope = scope]
    PROVE  StudioInv'
  <1>1. studio \in StudioRecords /\ cohort' \in Cohorts
    BY DEF StudioInv, StudioFits
  <1> DEFINE quiet == /\ p \in StudioRecords /\ p.loading = studio.loading /\ p.reads = studio.reads
                      /\ p.basisFor = studio.basisFor /\ p.wanted = studio.wanted
                      /\ p.detail = studio.detail /\ p.detailLoading = studio.detailLoading
  <1>2. CASE p = studio
    BY <1>1, <1>2, QuietHandler, Rendered
  <1>3. ASSUME NEW key \in Rows, p = [studio EXCEPT !.key = key] PROVE quiet
    BY <1>1, <1>3 DEF StudioRecords, AnyRow
  <1>4. ASSUME NEW offset \in Nat, p = [studio EXCEPT !.offset = offset] PROVE quiet
    BY <1>1, <1>4 DEF StudioRecords
  <1>5. ASSUME NEW scope \in SUBSET Snapshots, p = [studio EXCEPT !.scope = scope] PROVE quiet
    BY <1>1, <1>5 DEF StudioRecords
  <1>6. CASE quiet
    BY <1>1, <1>6, QuietHandler, Rendered
  <1> HIDE DEF quiet
  <1> QED BY <1>2, <1>3, <1>4, <1>5, <1>6

LEMMA ArrowPressed ==
    ASSUME StudioInv, NEW down \in BOOLEAN, PressArrow(down)
    PROVE  StudioInv'
  <1> DEFINE i == IF studio.key \in ToSet(studio.items)
                  THEN CHOOSE j \in DOMAIN studio.items : studio.items[j] = studio.key ELSE 0
             n == Len(studio.items)
             back == IF studio.offset < PageSize THEN 0 ELSE studio.offset - PageSize
             below == [studio EXCEPT !.key = studio.items[i + 1]]
             above == [studio EXCEPT !.key = studio.items[i - 1]]
             after == [studio EXCEPT !.offset = studio.offset + PageSize]
             before == [studio EXCEPT !.offset = back]
             p == IF down /\ i > 0 /\ i < n THEN below
                  ELSE IF down /\ studio.more /\ ~studio.loading THEN after
                  ELSE IF ~down /\ i > 1 THEN above
                  ELSE IF ~down /\ studio.offset > 0 /\ ~studio.loading THEN before
                  ELSE studio
  <1>1. studio \in StudioRecords /\ cohort' = cohort
    BY DEF StudioInv, StudioFits, PressArrow
  <1>2. studio.items \in Seq(Rows) /\ studio.offset \in Nat
    BY <1>1 DEF StudioRecords
  <1>3. i \in Nat /\ i <= n /\ n \in Nat
    <2>1. CASE studio.key \in ToSet(studio.items)
      <3>1. \E j \in DOMAIN studio.items : studio.items[j] = studio.key
        BY <2>1 DEF ToSet
      <3>2. i \in DOMAIN studio.items
        BY <2>1, <3>1
      <3> HIDE DEF i
      <3> QED BY <1>2, <3>2
    <2>2. CASE studio.key \notin ToSet(studio.items)
      BY <1>2, <2>2
    <2> QED BY <2>1, <2>2
  <1>4. StudioRenders(p)
    BY <1>1 DEF PressArrow, StudioRecords
  <1> HIDE DEF i, n
  <1>5. studio.offset + PageSize \in Nat /\ back \in Nat
    BY <1>2, LabelingConstants
  <1>6. /\ i > 0 /\ i < n => studio.items[i + 1] \in Rows
        /\ i > 1 => studio.items[i - 1] \in Rows
    <2>1. DOMAIN studio.items = 1 .. n
      BY <1>2 DEF n
    <2> QED BY <1>2, <1>3, <2>1
  <1> HIDE DEF back
  <1>7. CASE down /\ i > 0 /\ i < n
    <2>1. p = below
      BY <1>7
    <2> HIDE DEF p
    <2> QED BY <1>1, <1>4, <1>6, <1>7, <2>1, Moved
  <1>8. CASE ~down /\ i > 1
    <2>1. p = above
      BY <1>8
    <2> HIDE DEF p
    <2> QED BY <1>1, <1>4, <1>6, <1>8, <2>1, Moved
  <1>9. CASE ~(down /\ i > 0 /\ i < n) /\ ~(~down /\ i > 1)
    <2>1. p \in {after, before, studio}
      BY <1>9
    <2> HIDE DEF p
    <2> QED BY <1>1, <1>4, <1>5, <2>1, Moved
  <1> QED BY <1>7, <1>8, <1>9

(* The steps of a label that is saved, up to the reload of the queue. *)
LEMMA FormChanged ==
    ASSUME StudioInv, cohort' \in Cohorts, NEW save \in Saves, NEW basis \in BOOLEAN,
           NEW basisFor \in {studio.basisFor, studio.detail},
           studio' = [studio EXCEPT !.save = save, !.basis = basis, !.basisFor = basisFor]
    PROVE  StudioInv'
  <1>1. studio \in StudioRecords
    BY DEF StudioInv, StudioFits
  <1>2. basisFor \in AnyRow
    BY <1>1 DEF StudioRecords
  <1>3. /\ studio' \in StudioRecords /\ studio'.loading = studio.loading /\ studio'.reads = studio.reads
        /\ studio'.items = studio.items /\ studio'.key = studio.key
        /\ studio'.basisFor = basisFor /\ studio'.wanted = studio.wanted
        /\ studio'.detail = studio.detail /\ studio'.detailLoading = studio.detailLoading
    BY <1>1, <1>2 DEF StudioRecords
  <1>4. SelectedItem(studio') = SelectedItem(studio)
    BY <1>3 DEF SelectedItem
  <1>5. QueueAwaited(studio') /\ WantsSelection(studio') /\ EvidenceFits(studio')
    BY <1>3, <1>4 DEF StudioInv, StudioFits, QueueAwaited, WantsSelection, EvidenceFits
  <1>6. BasisFits(studio')
    BY <1>3 DEF StudioInv, StudioFits, BasisFits
  <1> QED BY <1>3, <1>5, <1>6 DEF StudioInv, StudioFits

LEMMA LabelSaved ==
    ASSUME StudioInv,
           \/ \E chosen \in BOOLEAN : ChooseBasis(chosen)
           \/ \E c \in Labels \cup {"accept"} : SaveLabel(c)
           \/ ServeSave \/ SaveFailed
    PROVE  StudioInv'
  <1>1. studio \in StudioRecords /\ cohort \in Cohorts
    BY DEF StudioInv, StudioFits
  <1>2. /\ studio.save \in Saves /\ studio.basis \in BOOLEAN /\ studio.detail \in AnyRow
        /\ studio.scope \in SUBSET Snapshots /\ studio.offset \in Nat
    BY <1>1 DEF StudioRecords
  <1>3. ASSUME NEW save \in Saves, studio' = [studio EXCEPT !.save = save], cohort' \in Cohorts
        PROVE  StudioInv'
    <2>1. studio' = [studio EXCEPT !.save = save, !.basis = studio.basis,
                                   !.basisFor = studio.basisFor]
      BY <1>1, <1>3 DEF StudioRecords
    <2> QED BY <1>2, <1>3, <2>1, FormChanged
  <1>4. ASSUME NEW chosen \in BOOLEAN, ChooseBasis(chosen) PROVE StudioInv'
    <2>1. /\ studio' = [studio EXCEPT !.save = studio.save, !.basis = chosen,
                                      !.basisFor = studio.detail]
          /\ cohort' = cohort
      BY <1>1, <1>4 DEF ChooseBasis, StudioRecords
    <2> QED BY <1>1, <1>2, <2>1, FormChanged
  <1>5. ASSUME NEW c \in Labels \cup {"accept"}, SaveLabel(c) PROVE StudioInv'
    <2> DEFINE resolves == "UNRESOLVED" # IF c = "accept" THEN AdviceFor(studio.detail).label ELSE c
               save == [phase |-> "sent", row |-> studio.detail, scope |-> studio.scope,
                        offset |-> studio.offset, resolves |-> resolves]
    <2>1. studio' = [studio EXCEPT !.save = save] /\ cohort' = cohort
      BY <1>5 DEF SaveLabel
    <2>2. resolves \in BOOLEAN
      OBVIOUS
    <2> HIDE DEF resolves
    <2>3. save \in Saves
      BY <1>2, <2>2 DEF Saves
    <2> HIDE DEF save
    <2> QED BY <1>1, <1>3, <2>1, <2>3
  <1>6. CASE ServeSave
    <2> DEFINE save == [studio.save EXCEPT !.phase = "served", !.row = NoRow, !.resolves = FALSE]
               left == IF studio.save.resolves THEN cohort.unresolved \ {studio.save.row}
                       ELSE cohort.unresolved
    <2>1. studio' = [studio EXCEPT !.save = save]
      BY <1>1, <1>2, <1>6 DEF ServeSave, StudioRecords, Saves
    <2>2. save \in Saves
      BY <1>2 DEF Saves, AnyRow
    <2>3. cohort' = [cohort EXCEPT !.unresolved = left]
      BY <1>1, <1>6 DEF ServeSave, Cohorts
    <2>4. left \in SUBSET Rows
      BY <1>1 DEF Cohorts
    <2> HIDE DEF save, left
    <2>5. cohort' \in Cohorts
      BY <1>1, <2>3, <2>4 DEF Cohorts
    <2> QED BY <1>3, <2>1, <2>2, <2>5
  <1>7. CASE SaveFailed
    BY <1>1, <1>3, <1>7, NoSaveTyped DEF SaveFailed
  <1> QED BY <1>4, <1>5, <1>6, <1>7

LEMMA Reloaded ==
    ASSUME StudioInv, SaveAnswered \/ MlEvent
    PROVE  StudioInv'
  <1>1. studio \in StudioRecords /\ cohort \in Cohorts
    BY DEF StudioInv, StudioFits
  <1>2. /\ studio.save \in Saves
        /\ studio.scope \in SUBSET Snapshots /\ studio.offset \in Nat
    BY <1>1 DEF StudioRecords
  <1>3. BeforeEffects(studio, studio)
    BY <1>1, QuietHandler
  <1>4. ASSUME NEW save \in Saves, NEW p, BeforeEffects(studio, p)
        PROVE  BeforeEffects(studio, [p EXCEPT !.save = save])
    <2> DEFINE q == [p EXCEPT !.save = save]
    <2>1. p \in StudioRecords
      BY <1>4 DEF BeforeEffects
    <2>2. /\ q \in StudioRecords /\ q.loading = p.loading /\ q.reads = p.reads
          /\ q.basisFor = p.basisFor /\ q.wanted = p.wanted
          /\ q.detail = p.detail /\ q.detailLoading = p.detailLoading
      BY <2>1 DEF StudioRecords
    <2> HIDE DEF q
    <2>3. BeforeEffects(studio, q)
      BY <1>4, <2>2 DEF BeforeEffects, QueueAwaited
    <2> QED BY <2>3 DEF q
  <1>5. CASE SaveAnswered
    <2> DEFINE reloading == [NoSave EXCEPT !.phase = "reloading"]
               p == [studio EXCEPT !.save = reloading]
               cleared == [ClearedQueue(studio) EXCEPT !.save = NoSave]
               q == LoadWorkspace(p, studio.save.scope, studio.save.offset, TRUE)
    <2>1. StudioRenders(IF studio.save.scope = {} THEN cleared ELSE q) /\ cohort' = cohort
      BY <1>5 DEF SaveAnswered
    <2>2. reloading \in Saves
      BY NoSaveTyped DEF Saves
    <2>3. studio.save.scope \in SUBSET Snapshots /\ studio.save.offset \in Nat /\ TRUE \in BOOLEAN
      BY <1>2 DEF Saves
    <2> HIDE DEF reloading
    <2>4. BeforeEffects(studio, p)
      BY <1>3, <1>4, <2>2
    <2> HIDE DEF p
    <2>5. BeforeEffects(studio, q)
      BY ONLY <2>3, <2>4, WorkspaceLoaded
    <2>6. BeforeEffects(studio, cleared)
      BY <1>3, <1>4, NoSaveTyped, QueueCleared
    <2> HIDE DEF q, cleared
    <2> QED BY <1>1, <2>1, <2>5, <2>6, Rendered
  <1>6. CASE MlEvent
    <2> DEFINE q == LoadWorkspace(studio, studio.scope, studio.offset, FALSE)
    <2>1. StudioRenders(q)
      BY <1>6 DEF MlEvent
    <2>2. FALSE \in BOOLEAN
      OBVIOUS
    <2>3. BeforeEffects(studio, q)
      BY ONLY <1>2, <1>3, <2>2, WorkspaceLoaded
    <2>4. cohort' \in Cohorts
      <3>1. ASSUME NEW r \in cohort.unresolved
            PROVE  [cohort EXCEPT !.unresolved = @ \ {r}] \in Cohorts
        BY <1>1 DEF Cohorts
      <3> QED BY <1>1, <1>6, <3>1 DEF MlEvent
    <2> HIDE DEF q
    <2> QED BY <2>1, <2>3, <2>4, Rendered
  <1> QED BY <1>5, <1>6

LEMMA LabelStep ==
    ASSUME StudioInv, LabelNext
    PROVE  StudioInv'
  <1>1. studio \in StudioRecords
    BY DEF StudioInv, StudioFits
  <1>2. ASSUME NEW row \in Rows, SelectRow(row) PROVE StudioInv'
    BY <1>2, Moved DEF SelectRow
  <1>3. ASSUME NEW S \in SUBSET Snapshots, ToggleSnapshots(S) PROVE StudioInv'
    BY <1>3, Moved DEF ToggleSnapshots
  <1>4. ASSUME NEW b \in {"previous", "next"}, TurnPage(b) PROVE StudioInv'
    <2> DEFINE offset == IF b = "next" THEN studio.offset + PageSize
                         ELSE IF studio.offset < PageSize THEN 0 ELSE studio.offset - PageSize
    <2>1. StudioRenders([studio EXCEPT !.offset = offset]) /\ cohort' = cohort
      BY <1>1, <1>4 DEF TurnPage, StudioRecords
    <2>2. offset \in Nat
      BY <1>1, LabelingConstants DEF StudioRecords
    <2> HIDE DEF offset
    <2> QED BY <2>1, <2>2, Moved
  <1>5. ASSUME NEW row \in Rows, EvidenceAnswered(row) PROVE StudioInv'
    BY <1>5, RowAnswered
  <1>6. ASSUME NEW r \in studio.reads,
               ServeWorkspace(r) \/ WorkspaceAnswered(r) \/ WorkspaceFailed(r)
        PROVE  StudioInv'
    BY <1>6, WorkspaceServed, WorkspaceEnded
  <1>7. ASSUME NEW down \in BOOLEAN, PressArrow(down) PROVE StudioInv'
    BY <1>7, ArrowPressed
  <1>8. CASE \/ \E chosen \in BOOLEAN : ChooseBasis(chosen)
             \/ \E c \in Labels \cup {"accept"} : SaveLabel(c)
             \/ ServeSave \/ SaveFailed
    BY <1>8, LabelSaved
  <1>9. CASE SaveAnswered \/ MlEvent
    BY <1>9, Reloaded
  <1>10. CASE ListingAnswered \/ ListingFailed
    BY <1>10, ListEnded
  <1> QED BY <1>2, <1>3, <1>4, <1>5, <1>6, <1>7, <1>8, <1>9, <1>10 DEF LabelNext

LEMMA StudioAlways == Spec => []StudioInv
  <1>1. Init => StudioInv
    BY StudioMounted, LabelServersTyped DEF Init, StudioInv
  <1>2. StudioInv /\ [Next]_vars => StudioInv'
    <2> SUFFICES ASSUME StudioInv, [Next]_vars PROVE StudioInv'
      OBVIOUS
    <2>1. CASE UNCHANGED labelVars
      BY <2>1 DEF labelVars, StudioInv
    <2>2. CASE /\ \E stored \in (SUBSET Snapshots) \cup {NoScope} : studio' = MountedStudio(stored)
               /\ \E open \in BOOLEAN : cohort' \in LabelServers(open)
      BY <2>2, StudioMounted, LabelServersTyped DEF StudioInv
    <2>3. CASE LabelNext
      BY <2>3, LabelStep
    <2> QED BY <2>1, <2>2, <2>3, StudioMoves
  <1> QED BY <1>1, <1>2, PTL DEF Spec

(* The evidence that the studio shows is that of the selected row: a request *)
(* that an earlier selection sent is not listened to any more                *)
(* (labeling-studio/page.tsx, the active flag of the evidence effect).       *)
THEOREM EvidenceFitsSelection == Spec => []EvidenceOfSelection
  <1>1. StudioInv => EvidenceOfSelection
    BY DEF StudioInv, StudioFits, EvidenceFits, EvidenceOfSelection
  <1> QED BY <1>1, StudioAlways, PTL

(* A label is saved with a basis for its own target, since new evidence      *)
(* fills the form again (labeling-studio/page.tsx, the recommendation        *)
(* effect).                                                                  *)
THEOREM BasisFitsTarget == Spec => []BasisOfTarget
  <1>1. StudioInv => BasisOfTarget
    BY DEF StudioInv, StudioFits, BasisFits, BasisOfTarget
  <1> QED BY <1>1, StudioAlways, PTL

-----------------------------------------------------------------------------
(* The training lab: the run it follows, the run that the server named and   *)
(* the events on their way to it are all behind the worker, which never goes *)
(* back and does not leave an end.                                           *)
Behind(f, t) ==
    /\ f.run \in TrainingRuns
    /\ f.status \in {"completed", "failed"} => t[f.run].status = f.status
    /\ PhaseIndex(f.phase) <= PhaseIndex(t[f.run].phase) \/ t[f.run].status \in Ended
FollowsBehind(p, t) ==
    /\ p.active # NoTraining => Behind(p.active, t)
    /\ p.rehydrate = "served" => Behind(p.found, t)
    /\ \A i \in DOMAIN p.stream : Behind(p.stream[i], t)
BeforeFirstStep(t) ==
    \A r \in TrainingRuns : t[r].status \in {"none", "queued"} => PhaseIndex(t[r].phase) = 0
FollowInv == LabInv /\ FollowsBehind(lab, trainer) /\ BeforeFirstStep(trainer)

Advances(t, u) ==
    \A r \in TrainingRuns :
        \/ u[r] = t[r]
        \/ /\ t[r].status \in {"none", "queued", "running"}
           /\ PhaseIndex(t[r].phase) <= PhaseIndex(u[r].phase) \/ u[r].status \in Ended

LEMMA PhaseNumbers ==
    /\ \A phase : PhaseIndex(phase) \in 0 .. 5
    /\ PhaseIndex("none") = 0 /\ PhaseIndex("queued") = 0 /\ PhaseIndex("cancelled") = 0
  <1>1. ASSUME NEW phase PROVE PhaseIndex(phase) \in 0 .. 5
    <2>1. CASE \E i \in Steps : phase \in StepPhases[i]
      <3>1. PhaseIndex(phase) = CHOOSE i \in Steps : phase \in StepPhases[i]
        BY <2>1 DEF PhaseIndex
      <3>2. PhaseIndex(phase) \in Steps
        BY <2>1, <3>1
      <3> QED BY <3>2 DEF Steps
    <2>2. CASE ~\E i \in Steps : phase \in StepPhases[i]
      BY <2>2 DEF PhaseIndex
    <2> QED BY <2>1, <2>2
  <1>2. ASSUME NEW phase \in {"none", "queued", "cancelled"} PROVE PhaseIndex(phase) = 0
    <2>1. ASSUME NEW i \in Steps PROVE phase \notin StepPhases[i]
      <3>1. i \in {1, 2, 3, 4, 5}
        BY DEF Steps
      <3> QED BY <3>1 DEF StepPhases
    <2> QED BY <2>1 DEF PhaseIndex
  <1> QED BY <1>1, <1>2

LEMMA StaysBehind ==
    ASSUME NEW t, NEW u, Advances(t, u), NEW f, Behind(f, t)
    PROVE  Behind(f, u)
  <1> DEFINE r == f.run
             n == PhaseIndex(f.phase)
             before == PhaseIndex(t[r].phase)
             after == PhaseIndex(u[r].phase)
  <1>1. /\ r \in TrainingRuns
        /\ f.status \in {"completed", "failed"} => t[r].status = f.status
        /\ n <= before \/ t[r].status \in Ended
    BY DEF Behind
  <1>2. \/ u[r] = t[r]
        \/ /\ t[r].status \in {"none", "queued", "running"}
           /\ before <= after \/ u[r].status \in Ended
    BY <1>1 DEF Advances
  <1>3. n \in 0 .. 5 /\ before \in 0 .. 5 /\ after \in 0 .. 5
    BY PhaseNumbers
  <1>4. CASE u[r] = t[r]
    BY <1>1, <1>4 DEF Behind
  <1>5. CASE /\ t[r].status \in {"none", "queued", "running"}
             /\ before <= after \/ u[r].status \in Ended
    <2>1. f.status \notin {"completed", "failed"} /\ t[r].status \notin Ended
      BY <1>1, <1>5 DEF Ended
    <2>2. n <= after \/ u[r].status \in Ended
      <3> HIDE DEF n, before, after
      <3> QED BY <1>1, <1>3, <1>5, <2>1
    <2> QED BY <1>1, <2>1, <2>2 DEF Behind
  <1> QED BY <1>2, <1>4, <1>5

LEMMA StayBehind ==
    ASSUME NEW t, NEW u, Advances(t, u), NEW p, FollowsBehind(p, t)
    PROVE  FollowsBehind(p, u)
  BY StaysBehind DEF FollowsBehind

(* Following another report of a run. *)
LEMMA TrackedBehind ==
    ASSUME NEW t, NEW p \in LabRecords, FollowsBehind(p, t), NEW run, Behind(run, t)
    PROVE  FollowsBehind(Tracking(p, run), t)
  <1>1. CASE run = p.active
    BY <1>1 DEF Tracking
  <1>2. CASE run # p.active
    <2> DEFINE shows == IF run.status \in UnderWay /\ run.status # p.active.status
                        THEN FALSE ELSE p.config
               q == Tracking(p, run)
    <2>1. q = [p EXCEPT !.active = run, !.connected = FALSE, !.stream = <<>>, !.config = shows]
      BY <1>2 DEF Tracking
    <2> HIDE DEF shows, q
    <2>2. q.active = run /\ q.stream = <<>> /\ q.rehydrate = p.rehydrate /\ q.found = p.found
      BY <2>1 DEF LabRecords
    <2>3. FollowsBehind(q, t)
      BY <2>2 DEF FollowsBehind
    <2> QED BY <2>3 DEF q
  <1> QED BY <1>1, <1>2

(* A step of the page that follows the same reports. *)
LEMMA SameReports ==
    ASSUME NEW t, NEW p, FollowsBehind(p, t), NEW q,
           q.active = p.active, q.stream = p.stream,
           q.rehydrate = "served" => p.rehydrate = "served" /\ q.found = p.found
    PROVE  FollowsBehind(q, t)
  BY DEF FollowsBehind

(* What the worker may do with a run. *)
LEMMA WorkerAdvances ==
    ASSUME LabInv, BeforeFirstStep(trainer), NEW run \in TrainingRuns, TrainerMoves(run)
    PROVE  \E next \in ServedRuns :
             /\ trainer' = [trainer EXCEPT ![run] = next]
             /\ lab' = [lab EXCEPT !.stream =
                            IF lab.connected
                            THEN Append(@, [run |-> run, status |-> next.status, phase |-> next.phase])
                            ELSE @]
             /\ trainer[run].status \in {"queued", "running"}
             /\ next.status \notin {"none", "queued"}
             /\ PhaseIndex(trainer[run].phase) <= PhaseIndex(next.phase) \/ next.status \in Ended
  <1> DEFINE at == trainer[run]
             n == Len(RunPhases)
             failing == {Run(o, o) : o \in RunOutcomes \ {"completed"}}
             passed == {j \in 1 .. n - 1 : RunPhases[j] = at.phase}
             further == failing \cup {Run("running", RunPhases[i + 1]) : i \in passed}
                        \cup (IF at.phase = RunPhases[n] THEN {Run(o, o) : o \in RunOutcomes} ELSE {})
             to == CASE at.status = "queued"  -> {Run("running", RunPhases[1])} \cup failing
                     [] at.status = "running" -> further
                     [] OTHER                 -> {}
             ok(next) == /\ next \in ServedRuns /\ next.status \notin {"none", "queued"}
                         /\ PhaseIndex(at.phase) <= PhaseIndex(next.phase) \/ next.status \in Ended
  <1>1. PICK next \in to :
          /\ trainer' = [trainer EXCEPT ![run] = next]
          /\ lab' = [lab EXCEPT !.stream =
                         IF lab.connected
                         THEN Append(@, [run |-> run, status |-> next.status, phase |-> next.phase])
                         ELSE @]
    BY DEF TrainerMoves
  <1>2. ASSUME NEW o \in RunOutcomes PROVE ok(Run(o, o))
    BY <1>2, TrainingConstants DEF Run, ServedRuns, Marks, Ended
  <1>3. 1 \in 1 .. n /\ DOMAIN RunPhases = 1 .. n /\ n \in Nat
    BY TrainingConstants
  <1>4. ASSUME NEW i \in 1 .. n PROVE /\ Run("running", RunPhases[i]) \in ServedRuns
                                      /\ Run("running", RunPhases[i]).status = "running"
                                      /\ Run("running", RunPhases[i]).phase = RunPhases[i]
    BY <1>3 DEF Run, ServedRuns, Marks
  <1>5. CASE at.status = "queued"
    <2>1. next \in {Run("running", RunPhases[1])} \cup failing
      BY <1>1, <1>5
    <2>2. PhaseIndex(at.phase) = 0
      BY <1>5 DEF BeforeFirstStep
    <2>3. ok(Run("running", RunPhases[1]))
      BY <1>3, <1>4, <2>2, PhaseNumbers
    <2>4. ok(next)
      <3> HIDE DEF ok
      <3> QED BY <1>2, <2>1, <2>3
    <2> QED BY <1>1, <1>5, <2>4
  <1>6. CASE at.status = "running"
    <2>1. next \in further
      BY <1>1, <1>6
    <2>2. ASSUME NEW i \in passed PROVE ok(Run("running", RunPhases[i + 1]))
      <3>1. i \in 1 .. n /\ i + 1 \in 1 .. n /\ i <= i + 1 /\ RunPhases[i] = at.phase
        BY <1>3
      <3>2. PhaseIndex(RunPhases[i]) <= PhaseIndex(RunPhases[i + 1])
        BY <1>3, <3>1, TrainingConstants
      <3> QED BY <1>4, <3>1, <3>2
    <2>3. ok(next)
      <3> HIDE DEF ok, passed
      <3> QED BY <1>2, <2>1, <2>2
    <2> QED BY <1>1, <1>6, <2>3
  <1>7. at.status \in {"queued", "running"}
    <2>1. CASE at.status \notin {"queued", "running"}
      <3>1. to = {}
        BY <2>1
      <3> HIDE DEF to
      <3> QED BY <1>1, <3>1
    <2> QED BY <2>1
  <1> QED BY <1>5, <1>6, <1>7

LEMMA FollowMounted ==
    /\ \A t : FollowsBehind(MountedLab, t)
    /\ \A open \in BOOLEAN : \A t \in TrainServers(open) : BeforeFirstStep(t)
  <1>1. ASSUME NEW t PROVE FollowsBehind(MountedLab, t)
    BY DEF FollowsBehind, MountedLab
  <1>2. ASSUME NEW open \in BOOLEAN, NEW t \in TrainServers(open), NEW r \in TrainingRuns,
               t[r].status \in {"none", "queued"}
        PROVE  PhaseIndex(t[r].phase) = 0
    <2>1. t[r] = Run("none", "none") \/ t[r] = Run("running", RunPhases[1])
      BY <1>2 DEF TrainServers
    <2>2. t[r].phase = "none"
      BY <1>2, <2>1 DEF Run
    <2> QED BY <2>2, PhaseNumbers
  <1> QED BY <1>1, <1>2 DEF BeforeFirstStep

(* What the server says of a run is what the worker does with it. *)
LEMMA ReportBehind ==
    ASSUME NEW t, NEW run \in TrainingRuns
    PROVE  Behind([run |-> run, status |-> t[run].status, phase |-> t[run].phase], t)
  <1>1. PhaseIndex(t[run].phase) <= PhaseIndex(t[run].phase)
    BY PhaseNumbers
  <1> QED BY <1>1 DEF Behind

LEMMA FollowsAnswers ==
    ASSUME FollowInv, ServeActive \/ Rehydrated \/ ControlAnswered
    PROVE  FollowsBehind(lab', trainer')
  <1>1. lab \in LabRecords /\ FollowsBehind(lab, trainer) /\ trainer' = trainer
    BY DEF FollowInv, LabInv, LabType, ServeActive, Rehydrated, ControlAnswered
  <1>2. CASE ServeActive
    <2> DEFINE report(run) == [run |-> run, status |-> trainer[run].status, phase |-> trainer[run].phase]
    <2>1. PICK run \in TrainingRuns : lab' = [lab EXCEPT !.rehydrate = "served", !.found = report(run)]
      BY <1>2 DEF ServeActive
    <2>2. Behind(report(run), trainer)
      BY ReportBehind
    <2> HIDE DEF report
    <2>3. lab'.active = lab.active /\ lab'.stream = lab.stream /\ lab'.found = report(run)
      BY <1>1, <2>1 DEF LabRecords
    <2> QED BY <1>1, <2>2, <2>3 DEF FollowsBehind
  <1>3. CASE Rehydrated
    <2> DEFINE p == IF lab.active.run = lab.found.run THEN lab ELSE Tracking(lab, lab.found)
    <2>1. Behind(lab.found, trainer) /\ lab.found \in Followed
      BY <1>1, <1>3 DEF Rehydrated, FollowsBehind, LabRecords
    <2>2. FollowsBehind(p, trainer) /\ p \in LabRecords
      BY <1>1, <2>1, TrackedBehind, Tracked
    <2>3. lab' = [p EXCEPT !.rehydrate = "done", !.found = NoTraining]
      BY <1>3 DEF Rehydrated
    <2> HIDE DEF p
    <2>4. lab'.active = p.active /\ lab'.stream = p.stream /\ lab'.rehydrate = "done"
      BY <2>2, <2>3 DEF LabRecords
    <2> QED BY <1>1, <2>2, <2>4 DEF FollowsBehind
  <1>4. CASE ControlAnswered
    <2> DEFINE run == [lab.active EXCEPT !.status = "cancelled", !.phase = "cancelled"]
               p == IF lab.control = "cancel" /\ lab.active # NoTraining THEN Tracking(lab, run) ELSE lab
    <2>1. /\ run \in Followed /\ run.run = lab.active.run
          /\ run.status = "cancelled" /\ run.phase = "cancelled"
      BY <1>1 DEF LabRecords, Followed, Marks
    <2> HIDE DEF run
    <2>2. ASSUME lab.active # NoTraining PROVE Behind(run, trainer)
      <3>1. run.run \in TrainingRuns
        BY <1>1, <2>1, <2>2 DEF FollowsBehind, Behind
      <3>2. PhaseIndex(run.phase) <= PhaseIndex(trainer[run.run].phase)
        BY <2>1, PhaseNumbers
      <3> QED BY <2>1, <3>1, <3>2 DEF Behind
    <2>3. FollowsBehind(p, trainer) /\ p \in LabRecords
      BY <1>1, <2>1, <2>2, TrackedBehind, Tracked
    <2>4. lab' = [p EXCEPT !.control = "none"]
      BY <1>4 DEF ControlAnswered, run
    <2> HIDE DEF p
    <2>5. /\ lab'.active = p.active /\ lab'.stream = p.stream
          /\ lab'.rehydrate = p.rehydrate /\ lab'.found = p.found
      BY <2>3, <2>4 DEF LabRecords
    <2>6. FollowsBehind(lab', trainer)
      BY <2>3, <2>5, SameReports
    <2> QED BY <1>1, <2>6
  <1> QED BY <1>2, <1>3, <1>4

(* An event of another run is dropped, one of the active run is adopted.     *)
LEMMA FollowsEvents ==
    ASSUME FollowInv, WorkflowUpdate
    PROVE  FollowsBehind(lab', trainer')
  <1> DEFINE e == Head(lab.stream)
             p == [lab EXCEPT !.stream = Tail(@)]
             run == [p.active EXCEPT !.status = e.status, !.phase = e.phase]
             q == Tracking(p, run)
  <1>1. /\ lab \in LabRecords /\ FollowsBehind(lab, trainer)
        /\ trainer' = trainer /\ lab.stream # <<>> /\ lab.stream \in Seq(Followed)
    BY DEF FollowInv, LabInv, LabType, LabRecords, WorkflowUpdate
  <1>2. /\ e = lab.stream[1] /\ 1 \in DOMAIN lab.stream /\ e \in Followed
        /\ Tail(lab.stream) \in Seq(Followed)
        /\ \A i \in DOMAIN Tail(lab.stream) :
              i + 1 \in DOMAIN lab.stream /\ Tail(lab.stream)[i] = lab.stream[i + 1]
    BY <1>1
  <1>3. Behind(e, trainer) /\ \A i \in DOMAIN Tail(lab.stream) : Behind(Tail(lab.stream)[i], trainer)
    <2> HIDE DEF e
    <2> QED BY <1>1, <1>2 DEF FollowsBehind
  <1>4. /\ p \in LabRecords /\ p.active = lab.active /\ p.active \in Followed
        /\ p.rehydrate = lab.rehydrate /\ p.found = lab.found /\ p.stream = Tail(lab.stream)
    BY <1>1, <1>2 DEF LabRecords
  <1>5. lab' = IF ~Concerns(p, e) THEN p
               ELSE [q EXCEPT !.listing = @ \/ e.status = "completed"]
    BY DEF WorkflowUpdate
  <1> HIDE DEF e, p
  <1>6. FollowsBehind(p, trainer)
    BY <1>1, <1>3, <1>4 DEF FollowsBehind
  <1>7. CASE ~Concerns(p, e)
    BY <1>1, <1>5, <1>6, <1>7
  <1>8. CASE Concerns(p, e)
    <2>1. run.run = e.run /\ run.status = e.status /\ run.phase = e.phase /\ run \in Followed
      BY <1>2, <1>4, <1>8 DEF Concerns, Followed
    <2>2. Behind(run, trainer)
      <3> HIDE DEF run
      <3> QED BY <1>3, <2>1 DEF Behind
    <2> DEFINE listing == q.listing \/ e.status = "completed"
    <2>3. lab' = [q EXCEPT !.listing = listing]
      BY <1>5, <1>8
    <2> HIDE DEF run, listing
    <2>4. FollowsBehind(q, trainer) /\ q \in LabRecords
      BY <1>4, <1>6, <2>1, <2>2, TrackedBehind, Tracked
    <2> HIDE DEF q
    <2>5. /\ lab'.active = q.active /\ lab'.stream = q.stream
          /\ lab'.rehydrate = q.rehydrate /\ lab'.found = q.found
      BY <2>3, <2>4 DEF LabRecords
    <2>6. FollowsBehind(lab', trainer)
      BY <2>4, <2>5, SameReports
    <2> QED BY <1>1, <2>6
  <1> QED BY <1>7, <1>8

LEMMA FollowsAccepted ==
    ASSUME FollowInv, NEW run \in TrainingRuns, TrainingAccepted(run)
    PROVE  FollowsBehind(lab', trainer') /\ BeforeFirstStep(trainer')
  <1> DEFINE new == [run |-> run, status |-> "queued", phase |-> "queued"]
             p == Tracking(lab, new)
  <1>1. /\ lab \in LabRecords /\ trainer \in [TrainingRuns -> ServedRuns]
        /\ FollowsBehind(lab, trainer) /\ BeforeFirstStep(trainer)
        /\ trainer[run].status = "none"
        /\ trainer' = [trainer EXCEPT ![run] = Run("queued", "queued")]
        /\ lab' = [p EXCEPT !.submitting = "no", !.config = FALSE]
    BY DEF FollowInv, LabInv, LabType, TrainingAccepted
  <1>2. trainer'[run] = Run("queued", "queued") /\ \A r \in TrainingRuns : r # run => trainer'[r] = trainer[r]
    BY <1>1
  <1>3. Run("queued", "queued").status = "queued" /\ Run("queued", "queued").phase = "queued"
    BY DEF Run
  <1>4. PhaseIndex(trainer[run].phase) = 0 /\ PhaseIndex("queued") = 0
    BY <1>1, PhaseNumbers DEF BeforeFirstStep
  <1>5. Advances(trainer, trainer')
    BY <1>1, <1>2, <1>3, <1>4 DEF Advances
  <1>6. BeforeFirstStep(trainer')
    BY <1>1, <1>2, <1>3, <1>4 DEF BeforeFirstStep
  <1>7. FollowsBehind(lab, trainer')
    BY <1>1, <1>5, StayBehind
  <1>8. new \in Followed /\ Behind(new, trainer')
    BY <1>2, <1>3, <1>4 DEF Followed, Marks, Behind
  <1> HIDE DEF new
  <1>9. FollowsBehind(p, trainer') /\ p \in LabRecords
    BY <1>1, <1>7, <1>8, TrackedBehind, Tracked
  <1> HIDE DEF p
  <1>10. /\ lab'.active = p.active /\ lab'.stream = p.stream
         /\ lab'.rehydrate = p.rehydrate /\ lab'.found = p.found
    BY <1>1, <1>9 DEF LabRecords
  <1> QED BY <1>6, <1>9, <1>10, SameReports

LEMMA FollowsWorker ==
    ASSUME FollowInv, NEW run \in TrainingRuns, TrainerMoves(run)
    PROVE  FollowsBehind(lab', trainer') /\ BeforeFirstStep(trainer')
  <1>1. /\ LabInv /\ BeforeFirstStep(trainer) /\ FollowsBehind(lab, trainer)
        /\ lab \in LabRecords /\ trainer \in [TrainingRuns -> ServedRuns]
    BY DEF FollowInv, LabInv, LabType
  <1> DEFINE event(next) == [run |-> run, status |-> next.status, phase |-> next.phase]
  <1>2. PICK next \in ServedRuns :
          /\ trainer' = [trainer EXCEPT ![run] = next]
          /\ lab' = [lab EXCEPT !.stream = IF lab.connected THEN Append(@, event(next)) ELSE @]
          /\ trainer[run].status \in {"queued", "running"}
          /\ next.status \notin {"none", "queued"}
          /\ PhaseIndex(trainer[run].phase) <= PhaseIndex(next.phase) \/ next.status \in Ended
    BY <1>1, WorkerAdvances
  <1>3. trainer'[run] = next /\ \A r \in TrainingRuns : r # run => trainer'[r] = trainer[r]
    BY <1>1, <1>2
  <1>4. Advances(trainer, trainer')
    BY <1>2, <1>3 DEF Advances
  <1>5. BeforeFirstStep(trainer')
    BY <1>1, <1>2, <1>3 DEF BeforeFirstStep
  <1>6. FollowsBehind(lab, trainer')
    BY <1>1, <1>4, StayBehind
  <1>7. Behind(event(next), trainer') /\ event(next) \in Followed
    <2>1. Behind([run |-> run, status |-> trainer'[run].status, phase |-> trainer'[run].phase], trainer')
      BY ReportBehind
    <2> QED BY <1>3, <2>1 DEF Followed, ServedRuns
  <1> DEFINE e == event(next)
             longer == IF lab.connected THEN Append(lab.stream, e) ELSE lab.stream
  <1>8. lab' = [lab EXCEPT !.stream = longer]
    BY <1>2
  <1> HIDE DEF e
  <1>9. \A i \in DOMAIN longer : Behind(longer[i], trainer')
    <2>1. lab.stream \in Seq(Followed) /\ \A i \in DOMAIN lab.stream : Behind(lab.stream[i], trainer')
      BY <1>1, <1>6 DEF LabRecords, FollowsBehind
    <2>2. CASE lab.connected
      <3>1. longer = Append(lab.stream, e)
        BY <2>2
      <3>2. ASSUME NEW i \in DOMAIN longer
            PROVE  (i \in DOMAIN lab.stream /\ longer[i] = lab.stream[i]) \/ longer[i] = e
        BY <2>1, <3>1, <1>7 DEF e
      <3> QED BY <1>7, <2>1, <3>2 DEF e
    <2>3. CASE ~lab.connected
      BY <2>1, <2>3
    <2> QED BY <2>2, <2>3
  <1> HIDE DEF longer
  <1>10. /\ lab'.active = lab.active /\ lab'.stream = longer
         /\ lab'.rehydrate = lab.rehydrate /\ lab'.found = lab.found
    BY <1>1, <1>8 DEF LabRecords
  <1>11. FollowsBehind(lab', trainer')
    BY <1>6, <1>9, <1>10 DEF FollowsBehind
  <1> QED BY <1>5, <1>11

(* The steps of the page that neither hear of a run nor change one. *)
LEMMA FollowsQuietly ==
    ASSUME FollowInv,
           \/ StreamOpens \/ SnapshotsListed \/ TrainingRefused \/ ControlFailed
           \/ \E f \in Forms : StartTraining(f)
           \/ \E show \in BOOLEAN : ConfigureRun(show)
           \/ \E a \in {"cancel", "checkpoint"} : ControlTraining(a)
           \/ \E S \in SUBSET GoldSets : SelectSnapshots(S)
           \/ \E S \in lab.audits : ReadinessAnswered(S)
    PROVE  FollowsBehind(lab', trainer') /\ trainer' = trainer
  <1>1. lab \in LabRecords /\ FollowsBehind(lab, trainer)
    BY DEF FollowInv, LabInv, LabType
  <1>2. trainer' = trainer
    BY DEF StreamOpens, SnapshotsListed, TrainingRefused, ControlFailed, StartTraining,
           ConfigureRun, ControlTraining, SelectSnapshots, ReadinessAnswered
  <1>3. /\ lab'.active = lab.active /\ lab'.stream = lab.stream
        /\ lab'.rehydrate = lab.rehydrate /\ lab'.found = lab.found
    <2>1. CASE StreamOpens \/ SnapshotsListed \/ TrainingRefused \/ ControlFailed
      BY <1>1, <2>1 DEF StreamOpens, SnapshotsListed, TrainingRefused, ControlFailed, LabRecords
    <2>2. CASE (\E f \in Forms : StartTraining(f)) \/ \E a \in {"cancel", "checkpoint"} : ControlTraining(a)
      BY <1>1, <2>2 DEF StartTraining, ControlTraining, LabRecords
    <2>3. CASE \E show \in BOOLEAN : ConfigureRun(show)
      BY <1>1, <2>3 DEF ConfigureRun, LabRecords
    <2>4. CASE \E S \in SUBSET GoldSets : SelectSnapshots(S)
      BY <1>1, <2>4 DEF SelectSnapshots, LabRecords
    <2>5. CASE \E S \in lab.audits : ReadinessAnswered(S)
      <3>1. PICK S, answer :
              lab' = [lab EXCEPT !.audits = @ \ {S},
                                 !.readiness = IF CurrentAudit(S) THEN answer ELSE @,
                                 !.auditing = IF CurrentAudit(S) THEN FALSE ELSE @]
        BY <2>5 DEF ReadinessAnswered
      <3> QED BY <1>1, <3>1 DEF LabRecords
    <2> QED BY <2>1, <2>2, <2>3, <2>4, <2>5
  <1>4. FollowsBehind(lab', trainer)
    BY <1>1, <1>3, SameReports
  <1> QED BY <1>2, <1>4

LEMMA FollowStep ==
    ASSUME FollowInv, LabNext
    PROVE  FollowInv'
  <1>1. LabInv'
    BY LabStep DEF FollowInv
  <1>2. BeforeFirstStep(trainer)
    BY DEF FollowInv
  <1>3. FollowsBehind(lab', trainer') /\ BeforeFirstStep(trainer')
    <2>1. CASE ServeActive \/ Rehydrated \/ ControlAnswered \/ WorkflowUpdate
      <3>1. trainer' = trainer
        BY <2>1 DEF ServeActive, Rehydrated, ControlAnswered, WorkflowUpdate
      <3> QED BY <1>2, <2>1, <3>1, FollowsAnswers, FollowsEvents
    <2>2. ASSUME NEW run \in TrainingRuns, TrainingAccepted(run) \/ TrainerMoves(run)
          PROVE  FollowsBehind(lab', trainer') /\ BeforeFirstStep(trainer')
      BY <2>2, FollowsAccepted, FollowsWorker
    <2>3. CASE \/ StreamOpens \/ SnapshotsListed \/ TrainingRefused \/ ControlFailed
               \/ \E f \in Forms : StartTraining(f)
               \/ \E show \in BOOLEAN : ConfigureRun(show)
               \/ \E a \in {"cancel", "checkpoint"} : ControlTraining(a)
               \/ \E S \in SUBSET GoldSets : SelectSnapshots(S)
               \/ \E S \in lab.audits : ReadinessAnswered(S)
      BY <1>2, <2>3, FollowsQuietly
    <2> QED BY <2>1, <2>2, <2>3 DEF LabNext, LabAnswers
  <1> QED BY <1>1, <1>3 DEF FollowInv, FollowsBehind, BeforeFirstStep, Behind

LEMMA FollowAlways == Spec => []FollowInv
  <1>1. Init => FollowInv
    <2> SUFFICES ASSUME Init PROVE FollowInv
      OBVIOUS
    <2>1. lab = MountedLab /\ trainer \in TrainServers(FALSE)
      BY DEF Init
    <2> QED BY <2>1, LabMounted, FollowMounted DEF FollowInv, LabInv, LabType
  <1>2. FollowInv /\ [Next]_vars => FollowInv'
    <2> SUFFICES ASSUME FollowInv, [Next]_vars PROVE FollowInv'
      OBVIOUS
    <2>1. CASE UNCHANGED trainVars
      BY <2>1 DEF trainVars, FollowInv, LabInv, LabType, AuditFits, FollowsBehind, BeforeFirstStep, Behind
    <2>2. CASE lab' = MountedLab /\ \E open \in BOOLEAN : trainer' \in TrainServers(open)
      <3>1. lab' \in LabRecords /\ AuditFits(lab') /\ trainer' \in [TrainingRuns -> ServedRuns]
        BY <2>2, LabMounted
      <3>2. FollowsBehind(lab', trainer') /\ BeforeFirstStep(trainer')
        BY <2>2, FollowMounted
      <3> QED BY <3>1, <3>2 DEF FollowInv, LabInv, LabType, AuditFits, FollowsBehind, BeforeFirstStep, Behind
    <2>3. CASE LabNext
      BY <2>3, FollowStep
    <2> QED BY <2>1, <2>2, <2>3, LabMoves
  <1> QED BY <1>1, <1>2, PTL DEF Spec

(* The monitor of the training lab is never ahead of the worker: a run that  *)
(* it shows as completed or failed has ended that way and a step that it     *)
(* ticks off is behind the worker, for any number of runs and phases, with   *)
(* the stream reopened at every event and the active run answered late       *)
(* (training-lab/page.tsx, the stream effect and the rehydration).           *)
THEOREM MonitorBehindWorker == Spec => []FinishedIsFinished
  <1>1. FollowInv => FinishedIsFinished
    <2> SUFFICES ASSUME FollowInv, lab.active # NoTraining
                 PROVE  LET at == trainer[lab.active.run]
                        IN /\ lab.active.status \in {"completed", "failed"} => at.status = lab.active.status
                           /\ \A i \in Steps : StepState(lab.active, i) = "done" =>
                                 PhaseIndex(at.phase) > i \/ at.status \in Ended
      BY DEF FinishedIsFinished
    <2> DEFINE at == trainer[lab.active.run]
               shown == PhaseIndex(lab.active.phase)
               reached == PhaseIndex(at.phase)
    <2>1. /\ lab.active.status \in {"completed", "failed"} => at.status = lab.active.status
          /\ shown <= reached \/ at.status \in Ended
      BY DEF FollowInv, FollowsBehind, Behind
    <2>2. shown \in 0 .. 5 /\ reached \in 0 .. 5
      BY PhaseNumbers
    <2>3. ASSUME NEW i \in Steps, StepState(lab.active, i) = "done"
          PROVE  reached > i \/ at.status \in Ended
      <3>1. lab.active.status = "completed" \/ shown > i
        BY <2>3 DEF StepState
      <3>2. i \in 1 .. 5
        BY DEF Steps
      <3> HIDE DEF shown, reached
      <3> QED BY <2>1, <2>2, <3>1, <3>2 DEF Ended
    <2> QED BY <2>1, <2>3
  <1> QED BY <1>1, FollowAlways, PTL

-----------------------------------------------------------------------------
(* The pages that wait.  The inspector and the overview have no numbers on   *)
(* their requests: what loads is counted by what is on its way.              *)
PreviewAwaited(p) == p.loading => p.reads # {}
PreviewInv == InspectorInv /\ PreviewAwaited(inspector)

LEMMA FetchAwaited ==
    ASSUME NEW p \in InspectorRecords, NEW n \in Nat, PreviewAwaited(p)
    PROVE  PreviewAwaited(FetchPreview(p, n)) /\ PreviewAwaited(KeyEffect(p))
  <1> DEFINE asked(q, i) == q.reads \cup {[key |-> q.key, page |-> i, search |-> q.search]}
  <1>1. ASSUME NEW q \in InspectorRecords, NEW i \in Nat, PreviewAwaited(q)
        PROVE  PreviewAwaited(FetchPreview(q, i))
    <2>1. CASE q.key = ""
      BY <1>1, <2>1 DEF FetchPreview
    <2>2. CASE q.key # ""
      <3>1. FetchPreview(q, i) = [q EXCEPT !.loading = TRUE, !.error = FALSE, !.reads = asked(q, i)]
        BY <2>2 DEF FetchPreview
      <3>2. asked(q, i) # {}
        OBVIOUS
      <3> HIDE DEF asked
      <3>3. FetchPreview(q, i).reads = asked(q, i)
        BY <3>1 DEF InspectorRecords
      <3> QED BY <3>2, <3>3 DEF PreviewAwaited
    <2> QED BY <2>1, <2>2
  <1>2. PreviewAwaited(KeyEffect(p))
    <2>1. CASE p.key = ""
      <3>1. KeyEffect(p) = [p EXCEPT !.data = NoPreview, !.error = FALSE, !.hdu = 1, !.view = "cards"]
        BY <2>1 DEF KeyEffect
      <3>2. KeyEffect(p).loading = p.loading /\ KeyEffect(p).reads = p.reads
        BY <3>1 DEF InspectorRecords
      <3> QED BY <3>2 DEF PreviewAwaited
    <2>2. CASE p.key # ""
      <3> DEFINE q == [p EXCEPT !.page = 0, !.search = FALSE]
      <3>1. q \in InspectorRecords /\ q.loading = p.loading /\ q.reads = p.reads
        BY DEF InspectorRecords
      <3>2. KeyEffect(p) = FetchPreview(q, 0)
        BY <2>2 DEF KeyEffect
      <3> HIDE DEF q
      <3>3. PreviewAwaited(q)
        BY <3>1 DEF PreviewAwaited
      <3> QED BY <1>1, <3>1, <3>2, <3>3
    <2> QED BY <2>1, <2>2
  <1> QED BY <1>1, <1>2

LEMMA PreviewStep ==
    ASSUME PreviewInv, InspectorNext
    PROVE  PreviewAwaited(inspector')
  <1>1. inspector \in InspectorRecords /\ PreviewAwaited(inspector)
    BY DEF PreviewInv, InspectorInv
  <1>2. ASSUME NEW q, inspector' = q, q.loading = inspector.loading, q.reads = inspector.reads
        PROVE  PreviewAwaited(inspector')
    BY <1>1, <1>2 DEF PreviewAwaited
  <1>3. ASSUME NEW p \in InspectorRecords, NEW q \in InspectorRecords, q = OpenHdu(p)
        PROVE  q.loading = p.loading /\ q.reads = p.reads
    BY <1>3 DEF OpenHdu, InspectorRecords
  <1>4. ASSUME NEW r \in inspector.reads, PreviewAnswered(r) \/ PreviewFailed(r)
        PROVE  PreviewAwaited(inspector')
    <2>1. CASE PreviewAnswered(r)
      <3> DEFINE p == [inspector EXCEPT !.reads = @ \ {r}, !.loading = FALSE,
                         !.data = [key |-> r.key, format |-> FormatOf[r.key], page |-> r.page,
                                   search |-> r.search, matched |-> MatchedRows[r.search]],
                         !.hdu = IF inspector.data.format = "fits" THEN @ ELSE 1]
      <3>1. inspector' = OpenHdu(p)
        BY <2>1 DEF PreviewAnswered
      <3>2. ~inspector'.loading
        BY <1>1, <3>1 DEF OpenHdu, InspectorRecords
      <3> QED BY <3>2 DEF PreviewAwaited
    <2>2. CASE PreviewFailed(r)
      <3>1. ~inspector'.loading
        BY <1>1, <2>2 DEF PreviewFailed, InspectorRecords
      <3> QED BY <3>1 DEF PreviewAwaited
    <2> QED BY <1>4, <2>1, <2>2
  <1>5. ASSUME NEW k \in InspectedKeys, InspectKey(k) PROVE PreviewAwaited(inspector')
    <2> DEFINE p == [inspector EXCEPT !.key = k]
    <2>1. p \in InspectorRecords /\ p.loading = inspector.loading /\ p.reads = inspector.reads
      BY <1>1 DEF InspectorRecords
    <2>2. inspector' = KeyEffect(p)
      BY <1>5 DEF InspectKey, Fetches
    <2> HIDE DEF p
    <2>3. PreviewAwaited(p) /\ 0 \in Nat
      BY <1>1, <2>1 DEF PreviewAwaited
    <2> QED BY <2>1, <2>2, <2>3, FetchAwaited
  <1>6. ASSUME NEW n \in Nat, Fetches(FetchPreview([inspector EXCEPT !.page = n], n))
        PROVE  PreviewAwaited(inspector')
    <2> DEFINE p == [inspector EXCEPT !.page = n]
    <2>1. p \in InspectorRecords /\ p.loading = inspector.loading /\ p.reads = inspector.reads
      BY <1>1 DEF InspectorRecords
    <2>2. inspector' = FetchPreview(p, n)
      BY <1>6 DEF Fetches
    <2> HIDE DEF p
    <2>3. PreviewAwaited(p)
      BY <1>1, <2>1 DEF PreviewAwaited
    <2> QED BY <2>1, <2>2, <2>3, FetchAwaited
  <1>7. CASE RefreshPreview
    <2>1. inspector.page \in Nat /\ inspector' = FetchPreview(inspector, inspector.page)
      BY <1>1, <1>7 DEF InspectorRecords, RefreshPreview, Fetches
    <2> QED BY <1>1, <2>1, FetchAwaited
  <1>8. CASE SubmitRowSearch
    BY <1>6, <1>8 DEF SubmitRowSearch
  <1>9. ASSUME NEW n \in 0 .. MatchedRows[FALSE], RowPage(n) PROVE PreviewAwaited(inspector')
    <2>1. n \in Nat
      OBVIOUS
    <2>2. Fetches(FetchPreview([inspector EXCEPT !.page = n], n))
      BY <1>9 DEF RowPage
    <2> QED BY <1>6, <2>1, <2>2
  <1>10. ASSUME NEW s \in BOOLEAN, TypeRowSearch(s) PROVE PreviewAwaited(inspector')
    <2>1. inspector'.loading = inspector.loading /\ inspector'.reads = inspector.reads
      BY <1>1, <1>10 DEF TypeRowSearch, InspectorRecords
    <2> QED BY <1>2, <2>1
  <1>11. ASSUME NEW i \in 1 .. 2, SelectHdu(i) PROVE PreviewAwaited(inspector')
    <2>1. inspector'.loading = inspector.loading /\ inspector'.reads = inspector.reads
      BY <1>1, <1>11 DEF SelectHdu, OpenHdu, InspectorRecords
    <2> QED BY <1>2, <2>1
  <1>12. ASSUME NEW v \in {"table", "cards"}, SwitchView(v) PROVE PreviewAwaited(inspector')
    <2>1. inspector'.loading = inspector.loading /\ inspector'.reads = inspector.reads
      BY <1>1, <1>12 DEF SwitchView, InspectorRecords
    <2> QED BY <1>2, <2>1
  <1> QED BY <1>4, <1>5, <1>7, <1>8, <1>9, <1>10, <1>11, <1>12 DEF InspectorNext

LEMMA PreviewMounted ==
    ASSUME NEW k \in InspectedKeys
    PROVE  PreviewAwaited(MountedInspector(k))
  <1> DEFINE p == [key |-> k, data |-> NoPreview, loading |-> FALSE, error |-> FALSE,
                   page |-> 0, search |-> FALSE, hdu |-> 1, view |-> "cards", reads |-> {}]
  <1>1. p \in InspectorRecords /\ PreviewAwaited(p)
    BY NoPreviewTyped DEF InspectorRecords, PreviewAwaited
  <1>2. MountedInspector(k) = KeyEffect(p) /\ 0 \in Nat
    BY DEF MountedInspector
  <1> HIDE DEF p
  <1> QED BY <1>1, <1>2, FetchAwaited

LEMMA PreviewAlways == Spec => []PreviewInv
  <1>1. Init => PreviewInv
    <2> SUFFICES ASSUME Init PROVE PreviewInv
      OBVIOUS
    <2>1. inspector = MountedInspector("") /\ "" \in InspectedKeys
      BY InspectorConstants DEF Init
    <2> QED BY <2>1, InspectorMounted, PreviewMounted DEF PreviewInv, InspectorInv, TableViewHasTable
  <1>2. PreviewInv /\ [Next]_vars => PreviewInv'
    <2> SUFFICES ASSUME PreviewInv, [Next]_vars PROVE PreviewInv'
      OBVIOUS
    <2>1. CASE UNCHANGED inspector
      BY <2>1 DEF PreviewInv, InspectorInv, TableViewHasTable
    <2>2. ASSUME NEW k \in InspectedKeys, inspector' = MountedInspector(k) PROVE PreviewInv'
      BY <2>2, InspectorMounted, PreviewMounted DEF PreviewInv, InspectorInv, TableViewHasTable
    <2>3. CASE InspectorNext
      <3>1. InspectorInv' /\ PreviewAwaited(inspector')
        BY <2>3, InspectorStep, PreviewStep DEF PreviewInv
      <3> QED BY <3>1 DEF PreviewInv
    <2> QED BY <2>1, <2>2, <2>3, InspectorMoves
  <1> QED BY <1>1, <1>2, PTL DEF Spec

(* The overview counts its loads. *)
OverviewRecords ==
    [data : OverviewBodies \cup {EmptyState}, loading : BOOLEAN, refreshing : BOOLEAN,
     updated : BOOLEAN, reads : Nat]
OverviewInv ==
    /\ overview \in OverviewRecords
    /\ overview.loading \/ overview.refreshing => overview.reads > 0

LEMMA OverviewMoves ==
    ASSUME [Next]_vars
    PROVE  overview' = MountedOverview \/ UNCHANGED overview \/ OverviewNext
  <1>1. CASE Leave \/ \E p \in WorkPages : Open(p)
    BY <1>1 DEF Leave, Open, Mounts
  <1>2. CASE InFactory \/ InObservatory \/ InStore \/ UNCHANGED vars
    BY <1>2 DEF InFactory, InObservatory, InStore, vars, storeVars
  <1> QED BY <1>1, <1>2 DEF Next

LEMMA OverviewAlways == Spec => []OverviewInv
  <1>1. ASSUME NEW p, p = MountedOverview
        PROVE  p \in OverviewRecords /\ p.reads > 0
    <2> DEFINE d == EmptyState
    <2>1. d \in OverviewBodies \cup {EmptyState}
      OBVIOUS
    <2>2. p = [data |-> d, loading |-> TRUE, refreshing |-> FALSE, updated |-> FALSE, reads |-> 1]
      BY <1>1 DEF MountedOverview
    <2> HIDE DEF d
    <2> QED BY <2>1, <2>2 DEF OverviewRecords
  <1>2. Init => OverviewInv
    BY <1>1 DEF Init, OverviewInv
  <1>3. ASSUME OverviewInv, OverviewNext PROVE OverviewInv'
    <2>1. overview \in OverviewRecords /\ overview.reads \in Nat /\ overview.reads + 1 \in Nat
      BY <1>3 DEF OverviewInv, OverviewRecords
    <2>2. ASSUME NEW manual \in BOOLEAN, overview' = LoadOverview(overview, manual) PROVE OverviewInv'
      <3> DEFINE again == overview.refreshing \/ manual
                 more == overview.reads + 1
      <3>1. overview' = [overview EXCEPT !.refreshing = again, !.reads = more]
        BY <2>1, <2>2 DEF LoadOverview, OverviewRecords
      <3>2. again \in BOOLEAN /\ more \in Nat /\ more > 0
        BY <2>1
      <3> HIDE DEF again, more
      <3>3. overview' \in OverviewRecords /\ overview'.reads = more
        BY <2>1, <3>1, <3>2 DEF OverviewRecords
      <3> QED BY <3>2, <3>3 DEF OverviewInv
    <2>3. ASSUME NEW body \in OverviewBodies \cup {EmptyState}, OverviewLoaded(body) PROVE OverviewInv'
      <3> DEFINE fewer == overview.reads - 1
      <3>1. overview' = [overview EXCEPT !.reads = fewer, !.data = body, !.updated = TRUE,
                                         !.loading = FALSE, !.refreshing = FALSE]
        BY <2>3 DEF OverviewLoaded
      <3>2. fewer \in Nat
        BY <2>1, <2>3 DEF OverviewLoaded
      <3> HIDE DEF fewer
      <3>3. overview' \in OverviewRecords /\ ~overview'.loading /\ ~overview'.refreshing
        BY <2>1, <3>1, <3>2 DEF OverviewRecords
      <3> QED BY <3>3 DEF OverviewInv
    <2> QED BY <1>3, <2>2, <2>3 DEF OverviewNext, RefreshOverview, OverviewTimer
  <1>4. OverviewInv /\ [Next]_vars => OverviewInv'
    <2> SUFFICES ASSUME OverviewInv, [Next]_vars PROVE OverviewInv'
      OBVIOUS
    <2>1. CASE UNCHANGED overview
      BY <2>1 DEF OverviewInv
    <2>2. CASE overview' = MountedOverview
      BY <1>1, <2>2 DEF OverviewInv
    <2> QED BY <1>3, <2>1, <2>2, OverviewMoves
  <1> QED BY <1>2, <1>4, PTL DEF Spec

(* No page of the workbench is left loading: whatever fails and in whatever  *)
(* order answers arrive, a page that shows its spinner has a request on its  *)
(* way whose answer ends it, and the lakehouse holds back exactly the        *)
(* listings on their way (the finally branches of the load functions).       *)
THEOREM SpinnersEnd == Spec => []SpinnersHaveRequests
  <1>1. /\ StudioInv /\ DiscoveryInv /\ MonitorInv /\ PreviewInv
        /\ ExplorerInv /\ LakehouseInv /\ OverviewInv
        => SpinnersHaveRequests
    BY DEF SpinnersHaveRequests, StudioInv, StudioFits, QueueAwaited, Newest,
           DiscoveryInv, DiscoveryFits, TargetsAwaited, LatestRequest,
           MonitorInv, MonitorWaits, CurrentRequest, PreviewInv, PreviewAwaited,
           ExplorerInv, ExplorerFits, RecordsAwaited, LakehouseInv, LakehouseFits,
           AskedOnce, ListingAwaited, OverviewInv
  <1> QED BY <1>1, StudioAlways, DiscoveryAlways, MonitorAlways, PreviewAlways, ExplorerAlways,
             LakehouseAlways, OverviewAlways, PTL

-----------------------------------------------------------------------------
(* The inference engine: the page of the table is one of the pages there     *)
(* are, for the number of pages is taken again after every change of what is *)
(* filtered.                                                                 *)
JobStatuses == {"planned", "queued", "running", "completed", "failed"}
JobTables == [Jobs -> JobStatuses]
JobReads == [phase : {"sent", "served"}, body : JobTables]
EngineRecords ==
    [loaded : BOOLEAN, runtime : PackageIds \cup {NoPackage}, status : JobTables,
     filter : {"all", "planned", "active", "completed", "failed"}, page : Nat \ {0},
     job : Jobs \cup {"none"}, queueing : Jobs \cup {"none"}, posts : [Jobs -> Nat],
     loading : BOOLEAN, refreshing : BOOLEAN, reads : SUBSET JobReads]
EngineFits(e) == e \in EngineRecords /\ e.page <= PageCount(e)
JobLedgers == [status : JobTables, wanted : SUBSET Jobs]
EngineInv == EngineFits(engine) /\ jobs \in JobLedgers

LEMMA ModelMoves ==
    ASSUME [Next]_vars
    PROVE  \/ /\ engine' = MountedEngine /\ \E open \in BOOLEAN : jobs' \in ModelServers(open)
              /\ \E kind \in {"evaluation", "evolution"} : evidence' = MountedEvidence(kind)
           \/ UNCHANGED modelVars
           \/ EvidenceNext
           \/ EngineNext
  <1>1. CASE Leave \/ \E p \in WorkPages : Open(p)
    <2>1. PICK p : Mounts(p)
      BY <1>1 DEF Leave, Open
    <2>2. engine' = MountedEngine /\ \E open \in BOOLEAN : jobs' \in ModelServers(open)
      BY <2>1 DEF Mounts
    <2>3. evidence' = MountedEvidence(IF p = "evolution" THEN "evolution" ELSE "evaluation")
      BY <2>1 DEF Mounts
    <2>4. \E kind \in {"evaluation", "evolution"} : evidence' = MountedEvidence(kind)
      BY <2>3
    <2> QED BY <2>2, <2>4
  <1>2. CASE InFactory \/ InObservatory \/ InStore \/ UNCHANGED vars
    BY <1>2 DEF InFactory, InObservatory, InStore, vars, factoryVars, modelVars
  <1> QED BY <1>1, <1>2 DEF Next

LEMMA FirstPackage ==
    ASSUME Packages # <<>>
    PROVE  1 \in DOMAIN Packages /\ Packages[1].id \in PackageIds
  <1>1. Packages \in Seq(PackageRecords)
    BY ModelDeskConstants
  <1>2. 1 \in DOMAIN Packages
    BY <1>1
  <1> QED BY <1>2 DEF PackageIds

LEMMA PackageOfId ==
    ASSUME NEW id \in PackageIds
    PROVE  PackageOf(id).id = id
  <1>1. PICK i \in DOMAIN Packages : Packages[i].id = id
    BY DEF PackageIds
  <1> QED BY <1>1 DEF PackageOf

LEMMA JobsOfPackageSeq ==
    ASSUME NEW id \in PackageIds
    PROVE  JobsOfPackage[id] \in Seq(Jobs)
  <1> DEFINE I == {i \in DOMAIN JobOrder :
                     \/ JobModel[JobOrder[i]] = id
                     \/ PackageOf(JobModel[JobOrder[i]]).model = PackageOf(id).model}
  <1>1. JobsOfPackage[id] = ElementsAt(JobOrder, I)
    BY DEF JobsOfPackage
  <1>2. I \in SUBSET (DOMAIN JobOrder) /\ JobOrder \in Seq(Jobs)
    BY ModelDeskConstants
  <1> HIDE DEF I
  <1> QED BY <1>1, <1>2, ElementsAtSeq

LEMMA ModelJobsSeq ==
    ASSUME NEW e \in EngineRecords
    PROVE  ModelJobs(e) \in Seq(Jobs)
  <1>1. CASE ~e.loaded \/ Packages = <<>>
    BY <1>1 DEF ModelJobs
  <1>2. CASE ~(~e.loaded \/ Packages = <<>>)
    <2>1. SelectedModel(e).id \in PackageIds
      <3>1. CASE e.runtime = NoPackage
        <4>1. 1 \in DOMAIN Packages
          BY <1>2, FirstPackage
        <4> QED BY <3>1, <4>1 DEF SelectedModel, PackageIds
      <3>2. CASE e.runtime # NoPackage
        <4>1. e.runtime \in PackageIds
          BY <3>2 DEF EngineRecords
        <4> QED BY <3>2, <4>1, PackageOfId DEF SelectedModel
      <3> QED BY <3>1, <3>2
    <2>2. ModelJobs(e) = JobsOfPackage[SelectedModel(e).id]
      BY <1>2 DEF ModelJobs
    <2> QED BY <2>1, <2>2, JobsOfPackageSeq
  <1> QED BY <1>1, <1>2

LEMMA FilteredSeq ==
    ASSUME NEW e \in EngineRecords
    PROVE  Filtered(e) \in Seq(Jobs)
  <1> DEFINE all == ModelJobs(e)
             I == {i \in DOMAIN all : MatchesFilter(e.filter, e.status[all[i]])}
  <1>1. all \in Seq(Jobs) /\ I \in SUBSET (DOMAIN all)
    BY ModelJobsSeq
  <1>2. Filtered(e) = ElementsAt(all, I)
    BY DEF Filtered
  <1> HIDE DEF all, I
  <1> QED BY <1>1, <1>2, ElementsAtSeq

(* The number of pages holds all rows, and the last page is not empty. *)
LEMMA PagesHoldRows ==
    ASSUME NEW n \in Nat, NEW size \in Nat \ {0}
    PROVE  /\ (n + size - 1) \div size \in Nat
           /\ n > 0 => (n + size - 1) \div size > 0
           /\ \A p \in Nat \ {0} : p <= (n + size - 1) \div size => (p - 1) * size < n
  <1> DEFINE a == n + size - 1
             pages == a \div size
  <1>1. a \in Nat /\ size > 0
    OBVIOUS
  <1> HIDE DEF a
  <1>2. pages \in Nat /\ size * pages <= a /\ a < size * (pages + 1)
    BY <1>1
  <1> HIDE DEF pages
  <1>3. n > 0 => pages > 0
    <2> SUFFICES ASSUME n > 0, pages = 0 PROVE FALSE
      BY <1>2
    <2>1. a < size
      BY <1>2
    <2> QED BY <2>1 DEF a
  <1>4. ASSUME NEW p \in Nat \ {0}, p <= pages PROVE (p - 1) * size < n
    <2>1. p \in Nat /\ size \in Nat
      OBVIOUS
    <2>2. size * p <= size * pages
      BY <1>2, <1>4, <2>1
    <2>3. size * p <= a
      BY <1>1, <1>2, <2>1, <2>2
    <2>4. (p - 1) * size = size * p - size
      BY <2>1
    <2> QED BY <2>1, <2>3, <2>4 DEF a
  <1> QED BY <1>2, <1>3, <1>4 DEF pages, a

LEMMA PageCounted ==
    ASSUME NEW e \in EngineRecords
    PROVE  /\ PageCount(e) \in Nat \ {0}
           /\ Filtered(e) # <<>> /\ e.page <= PageCount(e) => JobRows(e) # <<>>
  <1> DEFINE all == Filtered(e)
             n == Len(all)
             count == (n + JobPageSize - 1) \div JobPageSize
             first == (e.page - 1) * JobPageSize
             upTo == e.page * JobPageSize
             last == IF upTo > n THEN n ELSE upTo
  <1>1. all \in Seq(Jobs) /\ n \in Nat /\ JobPageSize \in Nat \ {0} /\ e.page \in Nat \ {0}
    <2>1. JobPageSize \in Nat \ {0}
      BY ModelDeskConstants
    <2>2. e.page \in Nat \ {0}
      BY DEF EngineRecords
    <2>3. all \in Seq(Jobs)
      BY FilteredSeq
    <2> QED BY <2>1, <2>2, <2>3
  <1>2. PageCount(e) = IF n = 0 THEN 1 ELSE count
    BY DEF PageCount
  <1>3. JobRows(e) = SubSeq(all, first + 1, last)
    BY DEF JobRows
  <1> HIDE DEF all
  <1>4. /\ count \in Nat
        /\ n > 0 => count > 0
        /\ \A p \in Nat \ {0} : p <= count => (p - 1) * JobPageSize < n
    <2> HIDE DEF n
    <2> QED BY ONLY <1>1, PagesHoldRows DEF count
  <1> HIDE DEF n, count
  <1>5. PageCount(e) \in Nat \ {0}
    <2>1. n \in Nat
      BY <1>1
    <2>2. CASE n = 0
      BY <1>2, <2>2
    <2>3. CASE n # 0
      BY <1>2, <1>4, <2>1, <2>3
    <2> QED BY <2>2, <2>3
  <1>6. ASSUME all # <<>>, e.page <= PageCount(e) PROVE JobRows(e) # <<>>
    <2>1. n > 0
      BY <1>1, <1>6 DEF n
    <2>2. e.page <= count
      BY <1>2, <1>6, <2>1
    <2>3. first < n
      BY <1>1, <1>4, <2>2
    <2>4. first \in Nat /\ upTo \in Nat /\ upTo = first + JobPageSize
      <3> DEFINE k == e.page - 1
      <3>1. k \in Nat /\ e.page = k + 1 /\ JobPageSize \in Nat
        BY <1>1
      <3> HIDE DEF k
      <3>2. k * JobPageSize \in Nat /\ (k + 1) * JobPageSize = k * JobPageSize + JobPageSize
        BY <3>1
      <3>3. first = k * JobPageSize /\ upTo = (k + 1) * JobPageSize
        BY <3>1 DEF k
      <3> QED BY <3>1, <3>2, <3>3
    <2> HIDE DEF first, upTo
    <2>5. last \in Nat /\ first + 1 <= last /\ last <= n
      BY <1>1, <2>3, <2>4
    <2> HIDE DEF last
    <2>6. Len(SubSeq(all, first + 1, last)) = last - first
      <3>1. first + 1 \in 1 .. n + 1 /\ last \in first + 1 - 1 .. Len(all)
        BY <1>1, <2>3, <2>4, <2>5 DEF n
      <3> QED BY <1>1, <2>4, <2>5, <3>1, SubSeqProperties DEF n
    <2> DEFINE rows == SubSeq(all, first + 1, last)
    <2>7. Len(rows) > 0 /\ JobRows(e) = rows
      BY <1>3, <2>4, <2>5, <2>6 DEF first, last, upTo
    <2> HIDE DEF rows
    <2>8. rows # <<>>
      BY <2>7
    <2> QED BY <2>7, <2>8
  <1> QED BY <1>5, <1>6 DEF all

(* What the number of pages depends on. *)
LEMMA SamePages ==
    ASSUME NEW e, NEW f, f.loaded = e.loaded, f.runtime = e.runtime,
           f.status = e.status, f.filter = e.filter
    PROVE  PageCount(f) = PageCount(e)
  <1> DEFINE kept(x) == {i \in DOMAIN ModelJobs(x) : MatchesFilter(x.filter, x.status[ModelJobs(x)[i]])}
  <1>1. SelectedModel(f) = SelectedModel(e)
    BY DEF SelectedModel
  <1>2. ModelJobs(f) = ModelJobs(e)
    BY <1>1 DEF ModelJobs
  <1>3. kept(f) = kept(e)
    BY <1>2
  <1>4. Filtered(f) = ElementsAt(ModelJobs(f), kept(f)) /\ Filtered(e) = ElementsAt(ModelJobs(e), kept(e))
    BY DEF Filtered
  <1> HIDE DEF kept
  <1>5. Filtered(f) = Filtered(e)
    BY <1>2, <1>3, <1>4
  <1> QED BY <1>5 DEF PageCount

LEMMA InRange ==
    ASSUME NEW e \in EngineRecords
    PROVE  EngineFits(KeepPageInRange(e))
  <1> DEFINE n == PageCount(e)
  <1>1. n \in Nat \ {0} /\ e.page \in Nat
    BY PageCounted DEF EngineRecords
  <1>2. CASE e.page > n
    <2> DEFINE f == KeepPageInRange(e)
    <2>1. f = [e EXCEPT !.page = n]
      BY <1>2 DEF KeepPageInRange
    <2> HIDE DEF n, f
    <2>2. /\ f \in EngineRecords /\ f.page = n
          /\ f.loaded = e.loaded /\ f.runtime = e.runtime /\ f.status = e.status /\ f.filter = e.filter
      BY <1>1, <2>1 DEF EngineRecords
    <2>3. PageCount(f) = PageCount(e)
      BY <2>2, SamePages
    <2>4. n <= PageCount(e)
      BY <1>1 DEF n
    <2> QED BY <2>2, <2>3, <2>4 DEF EngineFits, f
  <1>3. CASE ~(e.page > n)
    BY <1>1, <1>3 DEF KeepPageInRange, EngineFits
  <1> QED BY <1>2, <1>3

LEMMA EngineMounted ==
    /\ EngineFits(MountedEngine)
    /\ \A open \in BOOLEAN : ModelServers(open) \subseteq JobLedgers
  <1> DEFINE planned == [j \in Jobs |-> "planned"]
             none == [j \in Jobs |-> 0]
             read == [phase |-> "sent", body |-> planned]
             e == [loaded |-> FALSE, runtime |-> NoPackage, status |-> planned,
                   filter |-> "all", page |-> 1, job |-> "none", queueing |-> "none",
                   posts |-> none, loading |-> FALSE, refreshing |-> FALSE, reads |-> {}]
  <1>1. planned \in JobTables /\ none \in [Jobs -> Nat] /\ read \in JobReads
    BY DEF JobTables, JobStatuses, JobReads
  <1>2. MountedEngine = [e EXCEPT !.refreshing = FALSE, !.loading = TRUE, !.reads = {read}]
    BY DEF MountedEngine, LoadJobs
  <1> HIDE DEF planned, none, read
  <1>3. /\ MountedEngine \in EngineRecords /\ MountedEngine.page = 1
    <2>1. 1 \in Nat \ {0} /\ {read} \in SUBSET JobReads
      BY <1>1
    <2> QED BY <1>1, <1>2, <2>1 DEF EngineRecords
  <1>4. EngineFits(MountedEngine)
    BY <1>3, PageCounted DEF EngineFits
  <1>5. ASSUME NEW open \in BOOLEAN, NEW s \in ModelServers(open) PROVE s \in JobLedgers
    <2>1. s.status \in JobTables /\ s.wanted = {} /\ s = [status |-> s.status, wanted |-> s.wanted]
      BY <1>1 DEF ModelServers, JobTables, JobStatuses, planned
    <2> QED BY <2>1 DEF JobLedgers
  <1> QED BY <1>4, <1>5

(* The steps that leave alone what is filtered. *)
LEMMA SameRows ==
    ASSUME EngineInv, jobs' \in JobLedgers, engine' \in EngineRecords,
           engine'.loaded = engine.loaded, engine'.runtime = engine.runtime,
           engine'.status = engine.status, engine'.filter = engine.filter,
           engine'.page = engine.page
    PROVE  EngineInv'
  <1>1. PageCount(engine') = PageCount(engine)
    BY SamePages
  <1>2. EngineFits(engine')
    BY <1>1 DEF EngineInv, EngineFits
  <1> QED BY <1>2 DEF EngineInv

LEMMA EngineReads ==
    ASSUME EngineInv,
           \/ \E r \in engine.reads : ServeJobs(r) \/ JobsAnswered(r) \/ JobsFailed(r)
           \/ RefreshJobs
    PROVE  EngineInv'
  <1>1. engine \in EngineRecords /\ jobs \in JobLedgers /\ jobs' = jobs
    BY DEF EngineInv, EngineFits, ServeJobs, JobsAnswered, JobsFailed, RefreshJobs
  <1>2. ASSUME NEW r \in engine.reads, ServeJobs(r) PROVE EngineInv'
    <2> DEFINE served == [phase |-> "served", body |-> jobs.status]
               reads == (engine.reads \ {r}) \cup {served}
    <2>1. served \in JobReads
      BY <1>1 DEF JobLedgers, JobReads
    <2>2. engine' = [engine EXCEPT !.reads = reads]
      BY <1>2 DEF ServeJobs
    <2> HIDE DEF served
    <2>3. reads \in SUBSET JobReads
      BY <1>1, <2>1 DEF EngineRecords
    <2> HIDE DEF reads
    <2>4. /\ engine' \in EngineRecords
          /\ engine'.loaded = engine.loaded /\ engine'.runtime = engine.runtime
          /\ engine'.status = engine.status /\ engine'.filter = engine.filter
          /\ engine'.page = engine.page
      BY <1>1, <2>2, <2>3 DEF EngineRecords
    <2> QED BY <1>1, <2>4, SameRows
  <1>3. ASSUME NEW r \in engine.reads, JobsAnswered(r) PROVE EngineInv'
    <2> DEFINE e == [engine EXCEPT !.reads = @ \ {r}, !.loaded = TRUE, !.status = r.body,
                                   !.loading = FALSE, !.refreshing = FALSE]
               f == IF e.runtime # NoPackage \/ Packages = <<>> THEN e
                    ELSE [e EXCEPT !.runtime = Packages[1].id, !.page = 1, !.job = "none"]
    <2>1. r \in JobReads
      BY <1>1 DEF EngineRecords
    <2>2. e \in EngineRecords
      BY <1>1, <2>1 DEF EngineRecords, JobReads
    <2>3. engine' = KeepPageInRange(f)
      BY <1>3 DEF JobsAnswered
    <2> HIDE DEF e
    <2>4. f \in EngineRecords
      <3>1. CASE e.runtime # NoPackage \/ Packages = <<>>
        BY <2>2, <3>1
      <3>2. CASE ~(e.runtime # NoPackage \/ Packages = <<>>)
        <4> DEFINE id == Packages[1].id
        <4>1. id \in PackageIds
          BY <3>2, FirstPackage
        <4>2. 1 \in Nat \ {0}
          OBVIOUS
        <4>3. f = [e EXCEPT !.runtime = id, !.page = 1, !.job = "none"]
          BY <3>2
        <4> HIDE DEF id, f
        <4> QED BY <2>2, <4>1, <4>2, <4>3 DEF EngineRecords
      <3> QED BY <3>1, <3>2
    <2> HIDE DEF f
    <2>5. EngineFits(engine')
      BY <2>3, <2>4, InRange
    <2> QED BY <1>1, <2>5 DEF EngineInv
  <1>4. ASSUME NEW r \in engine.reads, JobsFailed(r) PROVE EngineInv'
    <2>1. /\ engine' \in EngineRecords
          /\ engine'.loaded = engine.loaded /\ engine'.runtime = engine.runtime
          /\ engine'.status = engine.status /\ engine'.filter = engine.filter
          /\ engine'.page = engine.page
      BY <1>1, <1>4 DEF JobsFailed, EngineRecords
    <2> QED BY <1>1, <2>1, SameRows
  <1>5. CASE RefreshJobs
    <2> DEFINE read == [phase |-> "sent", body |-> engine.status]
               reads == engine.reads \cup {read}
               loading == engine.loading \/ ~TRUE
               refreshing == engine.refreshing \/ TRUE
    <2>1. read \in JobReads
      BY <1>1 DEF EngineRecords, JobReads
    <2>2. engine' = [engine EXCEPT !.refreshing = refreshing, !.loading = loading, !.reads = reads]
      BY <1>1, <1>5 DEF RefreshJobs, LoadJobs, EngineRecords
    <2> HIDE DEF read
    <2>3. reads \in SUBSET JobReads /\ loading \in BOOLEAN /\ refreshing \in BOOLEAN
      BY <1>1, <2>1 DEF EngineRecords
    <2> HIDE DEF reads, loading, refreshing
    <2>4. /\ engine' \in EngineRecords
          /\ engine'.loaded = engine.loaded /\ engine'.runtime = engine.runtime
          /\ engine'.status = engine.status /\ engine'.filter = engine.filter
          /\ engine'.page = engine.page
      BY <1>1, <2>2, <2>3 DEF EngineRecords
    <2> QED BY <1>1, <2>4, SameRows
  <1> QED BY <1>2, <1>3, <1>4, <1>5

LEMMA EngineChoices ==
    ASSUME EngineInv,
           \/ \E id \in PackageIds : SelectRuntime(id)
           \/ \E f \in JobFilters : SetJobFilter(f)
           \/ \E n \in 1 .. Len(JobOrder) : TurnJobPage(n)
           \/ \E j \in Jobs : InspectJob(j)
    PROVE  EngineInv'
  <1>1. engine \in EngineRecords /\ jobs \in JobLedgers /\ jobs' = jobs
    BY DEF EngineInv, EngineFits, SelectRuntime, SetJobFilter, TurnJobPage, InspectJob
  <1>2. ASSUME NEW e \in EngineRecords, engine' = KeepPageInRange(e) PROVE EngineInv'
    <2>1. EngineFits(engine')
      BY <1>2, InRange
    <2> QED BY <1>1, <2>1 DEF EngineInv
  <1>3. 1 \in Nat \ {0}
    OBVIOUS
  <1>4. ASSUME NEW id \in PackageIds, SelectRuntime(id) PROVE EngineInv'
    <2>1. [engine EXCEPT !.runtime = id, !.page = 1, !.job = "none"] \in EngineRecords
      BY <1>1, <1>3 DEF EngineRecords
    <2> QED BY <1>2, <1>4, <2>1 DEF SelectRuntime
  <1>5. ASSUME NEW f \in JobFilters, SetJobFilter(f) PROVE EngineInv'
    <2>1. f \in {"all", "planned", "active", "completed", "failed"}
      BY ModelDeskConstants
    <2>2. [engine EXCEPT !.filter = f, !.page = 1, !.job = "none"] \in EngineRecords
      BY <1>1, <1>3, <2>1 DEF EngineRecords
    <2> QED BY <1>2, <1>5, <2>2 DEF SetJobFilter
  <1>6. ASSUME NEW n \in 1 .. Len(JobOrder), TurnJobPage(n) PROVE EngineInv'
    <2>1. engine' = [engine EXCEPT !.page = n] /\ n \in 1 .. PageCount(engine)
      BY <1>6 DEF TurnJobPage
    <2>2. PageCount(engine) \in Nat
      BY <1>1, PageCounted
    <2>3. n \in Nat \ {0} /\ n <= PageCount(engine)
      BY <2>1, <2>2
    <2>4. /\ engine' \in EngineRecords /\ engine'.page = n
          /\ engine'.loaded = engine.loaded /\ engine'.runtime = engine.runtime
          /\ engine'.status = engine.status /\ engine'.filter = engine.filter
      BY <1>1, <2>1, <2>3 DEF EngineRecords
    <2>5. PageCount(engine') = PageCount(engine)
      BY <2>4, SamePages
    <2>6. EngineFits(engine')
      BY <2>3, <2>4, <2>5 DEF EngineFits
    <2> QED BY <1>1, <2>6 DEF EngineInv
  <1>7. ASSUME NEW j \in Jobs, InspectJob(j) PROVE EngineInv'
    <2>1. engine' = [engine EXCEPT !.job = j]
      BY <1>7 DEF InspectJob
    <2>2. /\ engine' \in EngineRecords
          /\ engine'.loaded = engine.loaded /\ engine'.runtime = engine.runtime
          /\ engine'.status = engine.status /\ engine'.filter = engine.filter
          /\ engine'.page = engine.page
      BY <1>1, <2>1 DEF EngineRecords
    <2> QED BY <1>1, <2>2, SameRows
  <1> QED BY <1>4, <1>5, <1>6, <1>7

LEMMA EngineQueues ==
    ASSUME EngineInv, NEW j \in Jobs, QueueJob(j) \/ JobQueued(j) \/ QueueFailed(j) \/ JobMoves(j)
    PROVE  EngineInv'
  <1>1. engine \in EngineRecords /\ jobs \in JobLedgers /\ engine.posts[j] \in Nat
    BY DEF EngineInv, EngineFits, EngineRecords
  <1>2. CASE QueueJob(j)
    <2> DEFINE posts == [engine.posts EXCEPT ![j] = @ + 1]
    <2>1. engine' = [engine EXCEPT !.queueing = j, !.posts = posts] /\ jobs' = jobs
      BY <1>1, <1>2 DEF QueueJob, EngineRecords
    <2>2. posts \in [Jobs -> Nat]
      BY <1>1 DEF EngineRecords
    <2> HIDE DEF posts
    <2>3. /\ engine' \in EngineRecords
          /\ engine'.loaded = engine.loaded /\ engine'.runtime = engine.runtime
          /\ engine'.status = engine.status /\ engine'.filter = engine.filter
          /\ engine'.page = engine.page
      BY <1>1, <2>1, <2>2 DEF EngineRecords
    <2> QED BY <1>1, <2>1, <2>3, SameRows
  <1>3. CASE JobQueued(j)
    <2> DEFINE posts == [engine.posts EXCEPT ![j] = @ - 1]
               status == [engine.status EXCEPT ![j] = "queued"]
               e == [engine EXCEPT !.posts = posts, !.status = status, !.queueing = "none"]
    <2>1. posts \in [Jobs -> Nat]
      BY <1>1, <1>3 DEF JobQueued, EngineRecords
    <2>2. status \in JobTables
      BY <1>1 DEF EngineRecords, JobTables, JobStatuses
    <2>3. engine' = KeepPageInRange(e)
      BY <1>1, <1>3 DEF JobQueued, EngineRecords
    <2> HIDE DEF posts, status
    <2>4. e \in EngineRecords
      BY <1>1, <2>1, <2>2 DEF EngineRecords
    <2> HIDE DEF e
    <2>5. EngineFits(engine')
      BY <2>3, <2>4, InRange
    <2>6. jobs' \in JobLedgers
      <3>1. jobs' = [jobs EXCEPT !.wanted = @ \cup {j}]
        BY <1>3 DEF JobQueued
      <3> QED BY <1>1, <3>1 DEF JobLedgers
    <2> QED BY <2>5, <2>6 DEF EngineInv
  <1>4. CASE QueueFailed(j)
    <2> DEFINE posts == [engine.posts EXCEPT ![j] = @ - 1]
    <2>1. engine' = [engine EXCEPT !.posts = posts, !.queueing = "none"] /\ jobs' = jobs
      BY <1>1, <1>4 DEF QueueFailed, EngineRecords
    <2>2. posts \in [Jobs -> Nat]
      BY <1>1, <1>4 DEF QueueFailed, EngineRecords
    <2> HIDE DEF posts
    <2>3. /\ engine' \in EngineRecords
          /\ engine'.loaded = engine.loaded /\ engine'.runtime = engine.runtime
          /\ engine'.status = engine.status /\ engine'.filter = engine.filter
          /\ engine'.page = engine.page
      BY <1>1, <2>1, <2>2 DEF EngineRecords
    <2> QED BY <1>1, <2>1, <2>3, SameRows
  <1>5. CASE JobMoves(j)
    <2>1. engine' = engine
      BY <1>5 DEF JobMoves
    <2>2. ASSUME NEW s \in JobStatuses PROVE [jobs.status EXCEPT ![j] = s] \in JobTables
      BY <1>1 DEF JobLedgers, JobTables
    <2>3. jobs' \in JobLedgers
      <3>1. CASE jobs' = [jobs EXCEPT !.wanted = @ \ {j}, !.status[j] = "running"]
        <4> DEFINE status == [jobs.status EXCEPT ![j] = "running"]
        <4>1. status \in JobTables
          BY <2>2 DEF JobStatuses
        <4>2. jobs' = [jobs EXCEPT !.wanted = jobs.wanted \ {j}, !.status = status]
          BY <1>1, <3>1 DEF JobLedgers
        <4> HIDE DEF status
        <4> QED BY <1>1, <4>1, <4>2 DEF JobLedgers
      <3>2. ASSUME NEW s \in JobOutcomes, jobs' = [jobs EXCEPT !.status[j] = s]
            PROVE  jobs' \in JobLedgers
        <4> DEFINE status == [jobs.status EXCEPT ![j] = s]
        <4>1. s \in JobStatuses
          BY ModelDeskConstants DEF JobStatuses
        <4>2. status \in JobTables
          BY <2>2, <4>1
        <4>3. jobs' = [jobs EXCEPT !.status = status]
          BY <1>1, <3>2 DEF JobLedgers
        <4> HIDE DEF status
        <4> QED BY <1>1, <4>2, <4>3 DEF JobLedgers
      <3> QED BY <1>5, <3>1, <3>2 DEF JobMoves
    <2> QED BY <2>1, <2>3 DEF EngineInv
  <1> QED BY <1>2, <1>3, <1>4, <1>5

LEMMA EngineAlways == Spec => []EngineInv
  <1>1. Init => EngineInv
    BY EngineMounted DEF Init, EngineInv
  <1>2. EngineInv /\ [Next]_vars => EngineInv'
    <2> SUFFICES ASSUME EngineInv, [Next]_vars PROVE EngineInv'
      OBVIOUS
    <2>1. CASE UNCHANGED modelVars \/ EvidenceNext
      <3>1. engine' = engine /\ jobs' = jobs
        BY <2>1 DEF modelVars, EvidenceNext, PackagesAnswered, PackagesFailed, SelectPackage,
                    PackageEvidenceAnswered
      <3> QED BY <3>1 DEF EngineInv
    <2>2. CASE engine' = MountedEngine /\ \E open \in BOOLEAN : jobs' \in ModelServers(open)
      BY <2>2, EngineMounted DEF EngineInv
    <2>3. CASE EngineNext
      BY <2>3, EngineReads, EngineChoices, EngineQueues DEF EngineNext
    <2> QED BY <2>1, <2>2, <2>3, ModelMoves
  <1> QED BY <1>1, <1>2, PTL DEF Spec

(* The table of the inference engine is never empty while jobs match the     *)
(* filter, for any number of jobs and any page size: the page number is      *)
(* brought back into range after every answer, every choice and every queued *)
(* job (inference-engine, the effects over the page number).                 *)
THEOREM PageHasRows == Spec => []MatchingJobsShown
  <1>1. EngineInv => MatchingJobsShown
    BY PageCounted DEF EngineInv, EngineFits, MatchingJobsShown
  <1> QED BY <1>1, EngineAlways, PTL

-----------------------------------------------------------------------------
(* Model evaluation and evolution evidence: the one read that was not given  *)
(* up is that of the selected package, and nothing is shown before it ends.  *)
EvidenceReads == [pkg : PackageIds, active : BOOLEAN]
EvidenceRecords ==
    [kind : {"evaluation", "evolution"}, listing : BOOLEAN, loaded : BOOLEAN, listError : BOOLEAN,
     selected : PackageIds \cup {NoPackage}, shown : PackageIds \cup {NoPackage},
     loading : BOOLEAN, error : BOOLEAN, reads : SUBSET EvidenceReads]
ReadsSelected(p) ==
    \A r \in p.reads : r.active => p.loading /\ p.loaded /\ r.pkg = p.selected
ShowsSelected(p) ==
    p.loaded /\ p.selected # NoPackage =>
        /\ p.shown \in {NoPackage, p.selected}
        /\ p.loading => p.shown = NoPackage /\ ~p.error
        /\ ~p.loading /\ ~p.error => p.shown # NoPackage
EvidencePageFits(p) == p \in EvidenceRecords /\ ReadsSelected(p) /\ ShowsSelected(p)
EvidenceInv == EvidencePageFits(evidence)

(* A package is selected: its read is the only one that counts. *)
LEMMA EvidenceAsked ==
    ASSUME NEW p \in EvidenceRecords, p.loaded, p.selected \in PackageIds
    PROVE  EvidencePageFits(EvidenceEffect(p))
  <1> DEFINE old == {GiveUpRead(r) : r \in p.reads}
             new == [pkg |-> p.selected, active |-> TRUE]
             reads == old \cup {new}
             q == EvidenceEffect(p)
  <1>1. q = [p EXCEPT !.reads = reads, !.loading = TRUE, !.shown = NoPackage, !.error = FALSE]
    BY DEF EvidenceEffect
  <1>2. ASSUME NEW r \in old PROVE r \in EvidenceReads /\ ~r.active
    <2>1. PICK a \in p.reads : r = GiveUpRead(a)
      OBVIOUS
    <2>2. a \in EvidenceReads
      BY DEF EvidenceRecords
    <2> QED BY <2>1, <2>2 DEF EvidenceReads, GiveUpRead
  <1>3. new \in EvidenceReads /\ new.pkg = p.selected
    BY DEF EvidenceReads
  <1> HIDE DEF old, new
  <1>4. reads \in SUBSET EvidenceReads /\ \A r \in reads : r.active => r.pkg = p.selected
    BY <1>2, <1>3
  <1> HIDE DEF reads, q
  <1>5. /\ q \in EvidenceRecords /\ q.reads = reads /\ q.loading /\ q.loaded = p.loaded
        /\ q.selected = p.selected /\ q.shown = NoPackage /\ ~q.error
    BY <1>1, <1>4 DEF EvidenceRecords
  <1>6. EvidencePageFits(q)
    BY <1>4, <1>5 DEF EvidencePageFits, ReadsSelected, ShowsSelected
  <1> QED BY <1>6 DEF q

LEMMA EvidenceMounted ==
    ASSUME NEW kind \in {"evaluation", "evolution"}
    PROVE  EvidencePageFits(MountedEvidence(kind))
  <1>1. /\ MountedEvidence(kind) \in EvidenceRecords
        /\ MountedEvidence(kind).reads = {} /\ MountedEvidence(kind).selected = NoPackage
    BY DEF MountedEvidence, EvidenceRecords
  <1> QED BY <1>1 DEF EvidencePageFits, ReadsSelected, ShowsSelected

LEMMA EvidenceStep ==
    ASSUME EvidenceInv, EvidenceNext
    PROVE  EvidenceInv'
  <1>1. evidence \in EvidenceRecords /\ ReadsSelected(evidence) /\ ShowsSelected(evidence)
    BY DEF EvidenceInv, EvidencePageFits
  <1>2. CASE PackagesAnswered
    <2> DEFINE p == [evidence EXCEPT !.listing = FALSE, !.loaded = TRUE]
               q == [p EXCEPT !.selected = Packages[1].id]
    <2>1. p \in EvidenceRecords /\ p.loaded /\ p.reads = evidence.reads /\ p.loading = evidence.loading
          /\ p.selected = evidence.selected
      BY <1>1 DEF EvidenceRecords
    <2>2. evidence' = IF Packages = <<>> THEN p ELSE EvidenceEffect(q)
      BY <1>2 DEF PackagesAnswered
    <2> HIDE DEF p
    <2>3. CASE Packages = <<>>
      <3>1. PackageIds = {}
        BY <2>3 DEF PackageIds
      <3>2. p.selected = NoPackage /\ \A r \in p.reads : FALSE
        BY <2>1, <3>1 DEF EvidenceRecords, EvidenceReads
      <3>3. EvidencePageFits(p)
        BY <2>1, <3>2 DEF EvidencePageFits, ReadsSelected, ShowsSelected
      <3> QED BY <2>2, <2>3, <3>3 DEF EvidenceInv
    <2>4. CASE Packages # <<>>
      <3>1. Packages[1].id \in PackageIds
        BY <2>4, FirstPackage
      <3> DEFINE id == Packages[1].id
      <3> HIDE DEF id
      <3>2. q = [p EXCEPT !.selected = id] /\ id \in PackageIds
        BY <3>1 DEF id
      <3> HIDE DEF q
      <3>3. q \in EvidenceRecords /\ q.loaded /\ q.selected \in PackageIds
        BY <2>1, <3>2 DEF EvidenceRecords
      <3>4. EvidencePageFits(EvidenceEffect(q))
        BY <3>3, EvidenceAsked
      <3> QED BY <2>2, <2>4, <3>4 DEF EvidenceInv
    <2> QED BY <2>3, <2>4
  <1>3. CASE PackagesFailed
    <2>1. evidence' = [evidence EXCEPT !.listing = FALSE, !.listError = TRUE]
      BY <1>3 DEF PackagesFailed
    <2>2. /\ evidence' \in EvidenceRecords /\ evidence'.reads = evidence.reads
          /\ evidence'.loading = evidence.loading /\ evidence'.loaded = evidence.loaded
          /\ evidence'.selected = evidence.selected /\ evidence'.shown = evidence.shown
          /\ evidence'.error = evidence.error
      BY <1>1, <2>1 DEF EvidenceRecords
    <2>3. EvidencePageFits(evidence')
      BY <1>1, <2>2 DEF EvidencePageFits, ReadsSelected, ShowsSelected
    <2> QED BY <2>3 DEF EvidenceInv
  <1>4. ASSUME NEW id \in PackageIds, SelectPackage(id) PROVE EvidenceInv'
    <2> DEFINE q == [evidence EXCEPT !.selected = id]
    <2>1. evidence' = EvidenceEffect(q) /\ evidence.loaded
      BY <1>4 DEF SelectPackage, Choosable
    <2>2. q \in EvidenceRecords /\ q.loaded /\ q.selected \in PackageIds
      BY <1>1, <2>1 DEF EvidenceRecords
    <2> HIDE DEF q
    <2>3. EvidencePageFits(evidence')
      BY <2>1, <2>2, EvidenceAsked
    <2> QED BY <2>3 DEF EvidenceInv
  <1>5. ASSUME NEW r \in evidence.reads, PackageEvidenceAnswered(r) PROVE EvidenceInv'
    <2> DEFINE p == [evidence EXCEPT !.reads = @ \ {r}]
    <2>1. r \in EvidenceReads
      BY <1>1 DEF EvidenceRecords
    <2>2. /\ p \in EvidenceRecords /\ p.reads = evidence.reads \ {r}
          /\ p.loading = evidence.loading /\ p.loaded = evidence.loaded
          /\ p.selected = evidence.selected /\ p.shown = evidence.shown /\ p.error = evidence.error
      BY <1>1 DEF EvidenceRecords
    <2>3. PICK ok \in BOOLEAN : evidence' =
            IF ~r.active THEN p
            ELSE IF ok THEN [p EXCEPT !.shown = r.pkg, !.loading = FALSE]
            ELSE [p EXCEPT !.error = TRUE, !.loading = FALSE]
      BY <1>5 DEF PackageEvidenceAnswered
    <2> HIDE DEF p
    <2>4. CASE ~r.active
      <3>1. EvidencePageFits(p)
        BY <1>1, <2>2 DEF EvidencePageFits, ReadsSelected, ShowsSelected
      <3> QED BY <2>3, <2>4, <3>1 DEF EvidenceInv
    <2>5. CASE r.active
      <3>1. r.pkg = p.selected /\ r.pkg \in PackageIds /\ p.loading /\ p.loaded /\ r.pkg # NoPackage
        BY <1>1, <2>1, <2>2, <2>5, ModelDeskConstants DEF ReadsSelected, EvidenceReads
      <3>2. p.shown = NoPackage /\ ~p.error
        BY <1>1, <2>2, <3>1 DEF ShowsSelected
      <3>3. ASSUME NEW a \in p.reads PROVE ~a.active
        <4>1. a \in EvidenceReads /\ a # r /\ a \in evidence.reads
          BY <1>1, <2>2 DEF EvidenceRecords
        <4>2. a.active => a.pkg = r.pkg
          BY <1>1, <2>2, <3>1, <4>1 DEF ReadsSelected
        <4> QED BY <2>1, <2>5, <4>1, <4>2 DEF EvidenceReads
      <3>4. CASE ok
        <4>1. evidence' = [p EXCEPT !.shown = r.pkg, !.loading = FALSE]
          BY <2>3, <2>5, <3>4
        <4>2. /\ evidence' \in EvidenceRecords /\ evidence'.reads = p.reads /\ ~evidence'.loading
              /\ evidence'.selected = p.selected /\ evidence'.shown = r.pkg
          BY <2>2, <3>1, <4>1 DEF EvidenceRecords
        <4>3. EvidencePageFits(evidence')
          BY <3>1, <3>3, <4>2 DEF EvidencePageFits, ReadsSelected, ShowsSelected
        <4> QED BY <4>3 DEF EvidenceInv
      <3>5. CASE ~ok
        <4>1. evidence' = [p EXCEPT !.error = TRUE, !.loading = FALSE]
          BY <2>3, <2>5, <3>5
        <4>2. /\ evidence' \in EvidenceRecords /\ evidence'.reads = p.reads /\ ~evidence'.loading
              /\ evidence'.selected = p.selected /\ evidence'.shown = p.shown /\ evidence'.error
          BY <2>2, <4>1 DEF EvidenceRecords
        <4>3. EvidencePageFits(evidence')
          BY <3>2, <3>3, <4>2 DEF EvidencePageFits, ReadsSelected, ShowsSelected
        <4> QED BY <4>3 DEF EvidenceInv
      <3> QED BY <3>4, <3>5
    <2> QED BY <2>4, <2>5
  <1> QED BY <1>2, <1>3, <1>4, <1>5 DEF EvidenceNext

LEMMA EvidenceAlways == Spec => []EvidenceInv
  <1>1. Init => EvidenceInv
    BY EvidenceMounted DEF Init, EvidenceInv
  <1>2. EvidenceInv /\ [Next]_vars => EvidenceInv'
    <2> SUFFICES ASSUME EvidenceInv, [Next]_vars PROVE EvidenceInv'
      OBVIOUS
    <2>1. CASE UNCHANGED modelVars \/ EngineNext
      <3>1. evidence' = evidence
        BY <2>1 DEF modelVars, EngineNext, ServeJobs, JobsAnswered, JobsFailed, RefreshJobs,
                    SelectRuntime, SetJobFilter, TurnJobPage, InspectJob, QueueJob, JobQueued,
                    QueueFailed, JobMoves
      <3> QED BY <3>1 DEF EvidenceInv
    <2>2. CASE \E kind \in {"evaluation", "evolution"} : evidence' = MountedEvidence(kind)
      BY <2>2, EvidenceMounted DEF EvidenceInv
    <2>3. CASE EvidenceNext
      BY <2>3, EvidenceStep
    <2> QED BY <2>1, <2>2, <2>3, ModelMoves
  <1> QED BY <1>1, <1>2, PTL DEF Spec

(* The footprint of a package with jobs is not empty. *)
LEMMA FootprintOfJobs ==
    ASSUME NEW S, NEW linked \in Seq(S), linked # <<>>, NEW created, NEW bars \in Nat \ {0}
    PROVE  Footprint(linked, created, bars) # <<>>
  <1> DEFINE sorted == SortedBy(linked, created)
             n == Len(linked)
             first == IF n > bars THEN n - bars + 1 ELSE 1
             shown == SubSeq(sorted, first, n)
             T == {sorted[k] : k \in 1 .. n}
  <1>1. n \in Nat /\ n > 0
    OBVIOUS
  <1>2. sorted \in [1 .. n -> T]
    <2>1. DOMAIN sorted = 1 .. n /\ sorted = [k \in 1 .. n |-> sorted[k]]
      BY DEF SortedBy
    <2> HIDE DEF sorted
    <2> QED BY <2>1
  <1> HIDE DEF sorted, T
  <1>3. sorted \in Seq(T) /\ Len(sorted) = n
    <2> HIDE DEF n
    <2> QED BY <1>1, <1>2, SequenceOf
  <1>4. Footprint(linked, created, bars) = shown
    BY <1>3 DEF Footprint, sorted
  <1>5. first \in 1 .. n /\ first \in Nat
    <2> HIDE DEF n
    <2> QED BY <1>1
  <1> HIDE DEF n, first
  <1>6. Len(shown) = n - first + 1
    <2>1. first \in 1 .. Len(sorted) + 1 /\ n \in first - 1 .. Len(sorted)
      BY <1>1, <1>3, <1>5
    <2> QED BY <1>1, <1>3, <1>5, <2>1, SubSeqProperties
  <1>7. Len(shown) > 0
    BY <1>1, <1>5, <1>6
  <1> HIDE DEF shown
  <1>8. shown # <<>>
    BY <1>7
  <1> QED BY <1>4, <1>8

(* The evidence on the two pages about packages is that of the selected one, *)
(* for any registry, and its rail and footprint tell of no other             *)
(* (ModelEvaluationBoard and ModelEvolutionEvidence: the effect of the       *)
(* selected package and its cleanup).                                        *)
THEOREM EvidenceFitsPackage == Spec => []EvidenceOfPackage
  <1>1. EvidenceInv => EvidenceOfPackage
    <2> SUFFICES ASSUME EvidenceInv PROVE EvidenceOfPackage
      OBVIOUS
    <2> DEFINE pane == EvidencePane(evidence)
    <2>1. evidence \in EvidenceRecords /\ ReadsSelected(evidence) /\ ShowsSelected(evidence)
      BY DEF EvidenceInv, EvidencePageFits
    <2>2. ASSUME pane \in {"evidence", "unavailable"}
          PROVE  /\ evidence.loaded /\ evidence.selected # NoPackage /\ ~evidence.loading
                 /\ pane = "evidence" <=> ~(evidence.error \/ evidence.shown = NoPackage)
      BY <2>2 DEF EvidencePane
    <2>3. ASSUME pane = "evidence"
          PROVE  LET rail == EvolutionRail(evidence)
                 IN /\ evidence.shown = evidence.selected
                    /\ rail.package.primary = evidence.selected
                    /\ rail.serve.primary[2] > 0 => EvolutionFootprint(evidence) # <<>>
      <3> DEFINE id == evidence.selected
                 linked == LinkedJobs(evidence)
                 rail == EvolutionRail(evidence)
      <3>1. evidence.shown = id /\ id \in PackageIds
        BY <2>1, <2>2, <2>3 DEF ShowsSelected, EvidenceRecords
      <3>2. rail.package.primary = OrElse(Evaluations[id].package, PackageOf(id).id)
            /\ rail.serve.primary[2] = Len(linked)
        BY <3>1 DEF EvolutionRail, PipelineRail, StageCard, EvaluationShown
      <3>3. Evaluations[id].package \in {"", id}
        BY <3>1, ModelDeskConstants
      <3>4. rail.package.primary = id
        BY <3>1, <3>2, <3>3, PackageOfId DEF OrElse
      <3>5. linked \in Seq(Jobs)
        BY <3>1, JobsOfPackageSeq DEF LinkedJobs
      <3>6. FootprintBars \in Nat \ {0}
        BY ModelDeskConstants
      <3> HIDE DEF linked, rail
      <3>7. ASSUME Len(linked) > 0 PROVE Footprint(linked, JobCreated, FootprintBars) # <<>>
        <4>1. linked # <<>>
          BY <3>5, <3>7
        <4> QED BY <3>5, <3>6, <4>1, FootprintOfJobs
      <3>8. EvolutionFootprint(evidence) = Footprint(linked, JobCreated, FootprintBars)
        BY DEF EvolutionFootprint, linked
      <3> QED BY <3>1, <3>2, <3>4, <3>7, <3>8 DEF rail
    <2>4. ASSUME pane = "unavailable" PROVE evidence.error
      BY <2>1, <2>2, <2>4 DEF ShowsSelected
    <2>5. ASSUME NEW r \in evidence.reads, r.active PROVE pane = "loading evidence"
      <3>1. evidence.loading /\ evidence.loaded /\ r.pkg = evidence.selected /\ r \in EvidenceReads
        BY <2>1, <2>5 DEF ReadsSelected, EvidenceRecords
      <3>2. evidence.selected # NoPackage
        BY <3>1, ModelDeskConstants DEF EvidenceReads
      <3> QED BY <3>1, <3>2 DEF EvidencePane
    <2> QED BY <2>3, <2>4, <2>5 DEF EvidenceOfPackage
  <1> QED BY <1>1, EvidenceAlways, PTL

-----------------------------------------------------------------------------
(* The chart of target analysis shows the dips and flares of the curve that  *)
(* the observation answered with, at their full depth, those of all samples  *)
(* but the last one (SynchronizedLightCurve, downsampleMinMax).              *)
THEOREM DipsShown == Spec => []DipsKept
  <1>1. DetailInv => DipsKept
    <2> SUFFICES ASSUME DetailInv, detail.curve # <<>>
                 PROVE  KeepsExtrema(detail.curve, 1 .. Len(detail.curve) - 1)
      BY DEF DipsKept, CurveShown
    <2>1. detail.curve \in Curves
      BY DEF DetailInv, DetailType, DetailRecords
    <2>2. detail.curve \in Seq(Nat) /\ Len(detail.curve) < PowerOfTwo[FloatBits]
      BY <2>1, DetailConstants
    <2> QED BY <2>2, CurveKeepsExtrema
  <1> QED BY <1>1, DetailAlways, PTL
==============================================================================
