---------------------------- MODULE PanelTheorems ----------------------------
(***************************************************************************)
(* Theorems about the pure functions of the dashboard's panels, for every  *)
(* input that the pages may hand them: the sample under the playhead and   *)
(* the cutout (PixelInspector), the stages of the Gold builder             *)
(* (HopEvidence), the stepper of the training monitor (TrainingPanels),    *)
(* the recommendation of the Labeling Studio (VettingRules) and the        *)
(* thinning of a light curve (LightCurve).                                 *)
(***************************************************************************)
EXTENDS HopEvidence, LightCurve, PixelInspector, TrainingPanels, VettingRules,
        FiniteSetTheorems, WellFoundedInduction, TLAPS

(* A set of natural numbers that is not empty has a least element. *)
LEMMA LeastElement ==
    ASSUME NEW T, T \subseteq Nat, T # {}
    PROVE  \E x \in T : \A y \in T : x <= y
  <1> DEFINE R == {ss \in Nat \X Nat : ss[1] < ss[2]}
  <1>1. IsWellFoundedOn(R, Nat)
    BY NatLessThanWellFounded DEF OpToRel
  <1>2. \E x \in T : \A y \in T : ~ (<<y, x>> \in R)
    <2> HIDE DEF R
    <2> QED BY <1>1, WFMin
  <1>3. PICK x \in T : \A y \in T : ~ (<<y, x>> \in R)
    BY <1>2
  <1>4. ASSUME NEW y \in T PROVE x <= y
    <2>1. ~ (y < x)
      BY <1>3
    <2> QED BY <2>1
  <1> QED BY <1>4

(* The share of a whole, in whole steps, does not leave the steps. *)
LEMMA ShareInRange ==
    ASSUME NEW part \in Nat, NEW whole \in Nat, NEW steps \in Nat, whole > 0, part <= whole
    PROVE  (part * steps) \div whole \in 0 .. steps
  OBVIOUS

(* The playhead always stands on a sample of the curve: however the          *)
(* simulated time lies to the span of the observation, before it, after it   *)
(* or in a gap, SynchronizedLightCurve reads times[i] and flux[i] inside of  *)
(* the arrays.                                                               *)
THEOREM PlayheadOnSample ==
    ASSUME NEW times \in Seq(Int), times # <<>>, NEW time \in Int
    PROVE  NearestSample(times, time) \in DOMAIN times
  <1> DEFINE n      == Len(times)
             span   == Larger(1, times[n] - times[1])
             passed == Larger(0, Smaller(span, time - times[1]))
             guess  == 1 + (passed * (n - 1)) \div span
             near   == Larger(1, guess - 8) .. Smaller(n, guess + 8)
             dist(i) == Magnitude(times[i] - time)
             best   == {i \in near : \A j \in near : dist(i) <= dist(j)}
  <1>1. n \in Nat \ {0} /\ times[n] \in Int /\ times[1] \in Int
    OBVIOUS
  <1>2. span \in Nat \ {0} /\ passed \in Nat /\ passed <= span
    BY <1>1 DEF Larger, Smaller
  <1>3. guess \in 1 .. n
    <2>1. (passed * (n - 1)) \div span \in 0 .. n - 1
      <3> HIDE DEF n, span, passed
      <3> QED BY <1>1, <1>2, ShareInRange
    <2> QED BY <1>1, <2>1
  <1>4. near \subseteq 1 .. n /\ guess \in near
    <2> HIDE DEF guess, n
    <2> QED BY <1>1, <1>3 DEF Larger, Smaller
  <1>5. \A i \in near : dist(i) \in Nat
    <2> HIDE DEF near
    <2> QED BY <1>1, <1>4 DEF Magnitude
  <1>6. best # {}
    <2> DEFINE D == {dist(i) : i \in near}
    <2>1. D \subseteq Nat /\ D # {}
      <3> HIDE DEF near, guess, dist
      <3> QED BY <1>4, <1>5
    <2>2. PICK d \in D : \A e \in D : d <= e
      <3> HIDE DEF D
      <3> QED BY <2>1, LeastElement
    <2> HIDE DEF near, dist
    <2> QED BY <2>2
  <1>7. \E i \in best : \A j \in best : i <= j
    <2>1. best \subseteq 1 .. n
      <3> HIDE DEF near, dist, n, guess
      <3> QED BY <1>4
    <2>2. best \subseteq Nat
      <3> HIDE DEF best, n
      <3> QED BY <1>1, <2>1
    <2> HIDE DEF best
    <2> QED BY <1>6, <2>2, LeastElement
  <1>8. NearestSample(times, time)
          = IF guess \in best THEN guess ELSE CHOOSE i \in best : \A j \in best : i <= j
    BY DEF NearestSample
  <1>9. NearestSample(times, time) \in best
    <2> HIDE DEF best, guess
    <2> QED BY <1>7, <1>8
  <1>10. best \subseteq DOMAIN times
    <2>1. best \subseteq 1 .. n
      <3> HIDE DEF near, dist, n, guess
      <3> QED BY <1>4
    <2> HIDE DEF best
    <2> QED BY <2>1
  <1> QED BY <1>9, <1>10

(* The ring around a pixel and the readout of the same pixel agree on        *)
(* whether it lies in the aperture whenever the pipeline measured a mask or  *)
(* the row of the centroid, or no offset moves the centre: these are the     *)
(* only cutouts for which TpfPixelInspector's two centres may not differ.    *)
THEOREM ApertureAgrees ==
    ASSUME NEW tpf, NEW pixel,
           tpf.offset \in Int,
           Complete(tpf.mask, tpf) \/ tpf.centroid[1] > 0 \/ tpf.offset \in 0 .. 2
    PROVE  InAperture(tpf, GridCentre(tpf), pixel) = InAperture(tpf, PanelCentre(tpf), pixel)
  <1>1. CASE Complete(tpf.mask, tpf)
    BY <1>1 DEF InAperture
  <1>2. CASE tpf.centroid[1] > 0
    <2>1. GridCentre(tpf) = PanelCentre(tpf)
      BY <1>2 DEF GridCentre, PanelCentre
    <2> QED BY <2>1
  <1>3. CASE tpf.offset \in 0 .. 2
    <2>1. (4 * tpf.offset) \div 10 = 0
      BY <1>3
    <2>2. 5000 + (4 * tpf.offset) \div 10 = 5000
      BY <2>1
    <2>3. GridCentre(tpf) = PanelCentre(tpf)
      BY <2>2 DEF GridCentre, PanelCentre
    <2> QED BY <2>3
  <1> QED BY <1>1, <1>2, <1>3

-----------------------------------------------------------------------------
(* The stages of the Gold builder fill from the left, whatever its workers   *)
(* report at once: on the live graph a completed stage has only completed    *)
(* ones before it, and a running one none that was not observed (liveFine-   *)
(* Status of the Pipeline DAG page, over goldBuilderStatus).                 *)
THEOREM StagesFillInOrder ==
    ASSUME NEW actions, NEW state, NEW early \in Nat, NEW late \in Nat, early < late
    PROVE  LET status(i) == LiveFineStatus(actions, i, GoldBuilderStatus(state))
           IN /\ status(late) = "completed" => status(early) = "completed"
              /\ status(late) = "running" => status(early) \in {"completed", "running"}
  <1> DEFINE builder == GoldBuilderStatus(state)
  <1> SUFFICES
        /\ LiveFineStatus(actions, late, builder) = "completed" =>
              LiveFineStatus(actions, early, builder) = "completed"
        /\ LiveFineStatus(actions, late, builder) = "running" =>
              LiveFineStatus(actions, early, builder) \in {"completed", "running"}
    OBVIOUS
  <1> HIDE DEF builder
  <1>1. late > 0
    OBVIOUS
  <1>2. CASE "SNAPSHOT_COMMITTED" \in actions
    BY <1>2 DEF LiveFineStatus
  <1>3. CASE "SNAPSHOT_COMMITTED" \notin actions /\ "COMMITTING_SNAPSHOT" \in actions
    BY <1>3 DEF LiveFineStatus, NotObserved
  <1>4. CASE /\ "SNAPSHOT_COMMITTED" \notin actions /\ "COMMITTING_SNAPSHOT" \notin actions
             /\ "MATERIALIZING_AND_INDEXING" \in actions
    BY <1>4 DEF LiveFineStatus, NotObserved
  <1>5. CASE /\ "SNAPSHOT_COMMITTED" \notin actions /\ "COMMITTING_SNAPSHOT" \notin actions
             /\ "MATERIALIZING_AND_INDEXING" \notin actions
    BY <1>1, <1>5 DEF LiveFineStatus, NotObserved
  <1> QED BY <1>2, <1>3, <1>4, <1>5

(* The training monitor ticks the steps off in order: before a step that is  *)
(* done every step is done, before the active one too, so that at most one   *)
(* step is active; and a run that failed or was cancelled has no active one  *)
(* (LiveTrainingMonitor).                                                    *)
THEOREM StepsInOrder ==
    ASSUME NEW run, NEW i \in Steps, NEW j \in Steps, i < j
    PROVE  /\ StepState(run, j) \in {"done", "active"} => StepState(run, i) = "done"
           /\ run.status \in {"failed", "cancelled"} => StepState(run, j) # "active"
  <1>1. PhaseIndex(run.phase) \in 0 .. 5
    BY DEF PhaseIndex, Steps
  <1> QED BY <1>1 DEF StepState, Steps

(* Where a model was consulted, the recommendation never contradicts the     *)
(* badges beside it (recommendation.ts against StellarPhysicsPanel and       *)
(* TPFCentroidCutoutMap), whatever was measured.                             *)
THEOREM AdviceAgreesWithBadges ==
    ASSUME NEW e, e.centroid \in Int, e.depth \in Int, e.score \in Int, e.power \in Int,
           e.radius \in Int
    PROVE  AdviceFitsBadges(e)
  <1> DEFINE r == SquaredRadius(e)
  <1> SUFFICES ASSUME e.scored, ~e.confirmed, ComputeRecommendation(e).label = "POSITIVE"
               PROVE  /\ PlausibleSize(e) /\ CentroidBadge(e) # "contamination"
                      /\ ComputeRecommendation(e).confidence = 90 => e.score >= 82
    BY DEF AdviceFitsBadges
  <1>1. e.above /\ ComputeRecommendation(e) = AdviceAbove(e)
    BY DEF ComputeRecommendation, AdviceBelow, Advice
  <1>2. ~(HasRadius(e) /\ r > Jupiters(25)) /\ e.centroid < 25
    BY <1>1 DEF AdviceAbove, Advice
  <1>3. PlausibleSize(e) /\ CentroidBadge(e) # "contamination"
    <2> HIDE DEF r
    <2> QED BY <1>2 DEF PlausibleSize, SizeCategory, CentroidBadge, r
  <1>4. AdviceAbove(e).confidence = 90 => e.score >= 82
    <2>1. e.depth <= 35
      BY <1>1, <1>2 DEF AdviceAbove, Advice
    <2>2. CASE e.transit /\ e.centroid < 15 /\ e.power >= 7
      BY <1>2, <2>1, <2>2 DEF AdviceAbove, Advice
    <2>3. CASE ~(e.transit /\ e.centroid < 15 /\ e.power >= 7)
      BY <1>2, <2>1, <2>3 DEF AdviceAbove, Advice
    <2> QED BY <2>2, <2>3
  <1> QED BY <1>1, <1>3, <1>4

-----------------------------------------------------------------------------
(* The thinning of a light curve.  Rounding is off by at most half a unit in *)
(* the last place, and it does not go below a whole number that the exact    *)
(* value reaches: the last bucket ends at the last sample but one, or after. *)

LEMMA Powers ==
    /\ \A k \in 0 .. FloatBits : PowerOfTwo[k] \in Nat
    /\ PowerOfTwo[0] = 1 /\ FloatBits - 1 \in 0 .. FloatBits
    /\ FloatBits \in Nat /\ FloatBits \in 0 .. FloatBits /\ 0 \in 0 .. FloatBits
    /\ \A k \in 0 .. FloatBits - 1 : k + 1 \in 0 .. FloatBits /\ PowerOfTwo[k + 1] = 2 * PowerOfTwo[k]
    /\ PowerOfTwo[FloatBits] = 2 * PowerOfTwo[FloatBits - 1]
  <1>1. /\ FloatBits \in Nat \ {0, 1} /\ PowerOfTwo \in [0 .. FloatBits -> Nat] /\ PowerOfTwo[0] = 1
        /\ \A k \in 1 .. FloatBits : PowerOfTwo[k] = 2 * PowerOfTwo[k - 1]
    BY LightCurveConstants
  <1>2. ASSUME NEW k \in 0 .. FloatBits - 1
        PROVE  k + 1 \in 0 .. FloatBits /\ PowerOfTwo[k + 1] = 2 * PowerOfTwo[k]
    <2>1. k + 1 \in 1 .. FloatBits /\ (k + 1) - 1 = k
      BY <1>1
    <2>2. PowerOfTwo[k + 1] = 2 * PowerOfTwo[(k + 1) - 1]
      BY <1>1, <2>1
    <2> QED BY <2>1, <2>2
  <1>3. FloatBits \in 1 .. FloatBits
    BY <1>1
  <1>4. PowerOfTwo[FloatBits] = 2 * PowerOfTwo[FloatBits - 1]
    BY <1>1, <1>3
  <1>5. \A k \in 0 .. FloatBits : PowerOfTwo[k] \in Nat
    BY <1>1
  <1>6. FloatBits \in Nat /\ FloatBits \in 0 .. FloatBits /\ 0 \in 0 .. FloatBits /\ FloatBits - 1 \in 0 .. FloatBits
    BY <1>1
  <1> QED BY <1>1, <1>2, <1>4, <1>5, <1>6

LEMMA PowersPositive == \A k \in 0 .. FloatBits : PowerOfTwo[k] \in Nat \ {0}
  <1> DEFINE bad == {k \in 0 .. FloatBits : PowerOfTwo[k] = 0}
  <1>1. CASE bad = {}
    BY <1>1, Powers
  <1>2. CASE bad # {}
    <2>1. bad \subseteq Nat
      OBVIOUS
    <2>2. PICK k \in bad : \A m \in bad : k <= m
      <3> HIDE DEF bad
      <3> QED BY <1>2, <2>1, LeastElement
    <2>3. k \in 0 .. FloatBits /\ PowerOfTwo[k] = 0 /\ k # 0 /\ FloatBits \in Nat
      BY <2>2, Powers
    <2>4. k - 1 \in 0 .. FloatBits - 1 /\ (k - 1) + 1 = k /\ k - 1 < k
      BY <2>3
    <2>5. PowerOfTwo[k] = 2 * PowerOfTwo[k - 1] /\ PowerOfTwo[k - 1] \in Nat
      <3>1. PowerOfTwo[(k - 1) + 1] = 2 * PowerOfTwo[k - 1]
        BY <2>4, Powers
      <3>2. k - 1 \in 0 .. FloatBits
        BY <2>3, <2>4
      <3> QED BY <2>4, <3>1, <3>2, Powers
    <2>6. k - 1 \in bad
      BY <2>3, <2>4, <2>5
    <2> QED BY <2>2, <2>4, <2>6
  <1> QED BY <1>1, <1>2

(* A number from 1 to 2^FloatBits has a place: scaled by a power of two it   *)
(* fills the significant bits.                                               *)
LEMMA ScaleExists ==
    ASSUME NEW num \in Nat, NEW den \in Nat \ {0}, den <= num, num < den * PowerOfTwo[FloatBits]
    PROVE  \E k \in 0 .. FloatBits :
             /\ num * PowerOfTwo[k] >= den * PowerOfTwo[FloatBits - 1]
             /\ num * PowerOfTwo[k] < den * PowerOfTwo[FloatBits]
  <1> DEFINE top == PowerOfTwo[FloatBits]
             half == PowerOfTwo[FloatBits - 1]
             over == {k \in 0 .. FloatBits : num * PowerOfTwo[k] >= den * top}
  <1>1. /\ FloatBits \in Nat /\ FloatBits \in 0 .. FloatBits
        /\ top \in Nat \ {0} /\ half \in Nat \ {0} /\ top = 2 * half
    BY Powers, PowersPositive
  <1>2. FloatBits \in over
    <2> HIDE DEF top
    <2>1. num * top >= den * top
      BY <1>1
    <2> QED BY <1>1, <2>1 DEF top
  <1>3. over \subseteq Nat /\ over # {}
    BY <1>2
  <1>4. PICK k \in over : \A m \in over : k <= m
    <2> HIDE DEF over
    <2> QED BY <1>3, LeastElement
  <1>5. k \in 0 .. FloatBits /\ num * PowerOfTwo[k] >= den * top
    BY <1>4
  <1>6. k # 0
    <2> SUFFICES ASSUME k = 0 PROVE FALSE
      OBVIOUS
    <2>1. num * 1 >= den * top
      BY <1>5, Powers
    <2> QED BY <1>1, <2>1
  <1> DEFINE j == k - 1
             p == PowerOfTwo[j]
  <1>7. j \in 0 .. FloatBits - 1 /\ j + 1 = k /\ j \in 0 .. FloatBits /\ j < k
    BY <1>1, <1>5, <1>6
  <1>8. PowerOfTwo[k] = 2 * p /\ p \in Nat
    BY <1>7, Powers
  <1>9. ~(num * p >= den * top)
    BY <1>4, <1>7
  <1> HIDE DEF top, half, over, p
  <1>10. num * p < den * top
    BY <1>1, <1>8, <1>9
  <1>11. num * p >= den * half
    <2>1. num * (2 * p) >= den * (2 * half)
      BY <1>1, <1>5, <1>8
    <2> QED BY <1>1, <1>8, <2>1
  <1> QED BY <1>7, <1>10, <1>11 DEF top, half, p

(* What the nearest number is: its scale, and how far it is off. *)
LEMMA RoundedNear ==
    ASSUME NEW num \in Nat, NEW den \in Nat \ {0}, den <= num, num < den * PowerOfTwo[FloatBits]
    PROVE  LET r == Rounded(num, den)
           IN /\ r.num \in Nat /\ r.den \in Nat \ {0}
              /\ num * r.den >= den * PowerOfTwo[FloatBits - 1]
              /\ 2 * (r.num * den) >= 2 * (num * r.den) - den
              /\ 2 * (r.num * den) <= 2 * (num * r.den) + den
              /\ r.num >= (num * r.den) \div den
  <1> DEFINE fits(k) == /\ num * PowerOfTwo[k] >= den * PowerOfTwo[FloatBits - 1]
                        /\ num * PowerOfTwo[k] < den * PowerOfTwo[FloatBits]
             k == CHOOSE i \in 0 .. FloatBits : fits(i)
             scale == PowerOfTwo[k]
             x == num * scale
             q == x \div den
             rest == x % den
             up == 2 * rest > den \/ (2 * rest = den /\ q % 2 = 1)
             near == IF up THEN q + 1 ELSE q
  <1>1. k \in 0 .. FloatBits /\ fits(k)
    <2>1. \E i \in 0 .. FloatBits : fits(i)
      BY ScaleExists
    <2> HIDE DEF fits
    <2> QED BY <2>1
  <1>2. scale \in Nat \ {0} /\ x >= den * PowerOfTwo[FloatBits - 1]
    <2> HIDE DEF k
    <2> QED BY <1>1, PowersPositive
  <1>3. Rounded(num, den) = [num |-> near, den |-> scale]
    BY DEF Rounded
  <1> HIDE DEF k, scale
  <1>4. x \in Nat
    BY <1>2
  <1> HIDE DEF x
  <1>5. q \in Nat /\ rest \in Nat /\ rest < den /\ x = den * q + rest
    BY <1>4
  <1> HIDE DEF q, rest
  <1>6. up \in BOOLEAN /\ (up => 2 * rest >= den) /\ (~up => 2 * rest <= den)
    BY <1>5
  <1> HIDE DEF up
  <1>7. near \in Nat /\ near >= q
    BY <1>5
  <1>8. 2 * (near * den) >= 2 * x - den /\ 2 * (near * den) <= 2 * x + den
    <2>1. CASE up
      <3>1. near = q + 1 /\ (q + 1) * den = den * q + den /\ den * q \in Nat
        BY <1>5, <2>1
      <3> QED BY <1>5, <1>6, <2>1, <3>1
    <2>2. CASE ~up
      <3>1. near = q /\ q * den = den * q /\ den * q \in Nat
        BY <1>5, <2>2
      <3> QED BY <1>5, <1>6, <2>2, <3>1
    <2> QED BY <2>1, <2>2
  <1> HIDE DEF near
  <1>9. Rounded(num, den).num = near /\ Rounded(num, den).den = scale
    BY <1>3
  <1> QED BY <1>2, <1>7, <1>8, <1>9 DEF x, q

-----------------------------------------------------------------------------
(* A quotient reaches every multiple that the dividend reaches. *)
LEMMA QuotientReaches ==
    ASSUME NEW t \in Nat, NEW w \in Nat, NEW d \in Nat \ {0}, t >= w * d
    PROVE  t \div d >= w
  <1> DEFINE q == t \div d
             r == t % d
  <1>1. q \in Nat /\ r \in Nat /\ r < d /\ t = d * q + r
    OBVIOUS
  <1> HIDE DEF q, r
  <1> SUFFICES ASSUME q < w PROVE FALSE
    BY <1>1 DEF q
  <1>2. q + 1 <= w
    BY <1>1
  <1>3. d * (q + 1) <= w * d
    BY <1>1, <1>2
  <1>4. d * (q + 1) = d * q + d /\ d * q \in Nat /\ w * d \in Nat
    BY <1>1
  <1> QED BY <1>1, <1>3, <1>4

(* The edges of the buckets of a curve that is thinned are whole numbers,    *)
(* and the last one is not before the last sample but one.                   *)
LEMMA BucketEdges ==
    ASSUME NEW n \in Nat, TargetPoints < n, n < PowerOfTwo[FloatBits]
    PROVE  /\ BucketCount \in Nat \ {0} /\ 2 * BucketCount <= TargetPoints
           /\ \A b \in 0 .. BucketCount : BucketEdge(n, b) \in Nat
           /\ BucketEdge(n, 0) = 0
           /\ BucketEdge(n, BucketCount) >= n - 1
  <1> DEFINE K    == BucketCount
             top  == PowerOfTwo[FloatBits]
             half == PowerOfTwo[FloatBits - 1]
             size == Rounded(n, K)
             s    == size.num
             D    == size.den
  <1>1. TargetPoints \in Nat /\ TargetPoints > 1
    BY LightCurveConstants
  <1>2. K \in Nat \ {0} /\ 2 * K <= TargetPoints /\ K <= n - 1
    BY <1>1 DEF BucketCount
  <1>3. top \in Nat \ {0} /\ half \in Nat \ {0} /\ top = 2 * half
    BY Powers, PowersPositive
  <1> HIDE DEF top, half, K
  <1>4. n < K * top
    <2>1. n < top
      BY DEF top
    <2> QED BY <1>2, <1>3, <2>1
  <1>5. /\ s \in Nat /\ D \in Nat \ {0}
        /\ n * D >= K * half
        /\ 2 * (s * K) >= 2 * (n * D) - K
        /\ 2 * (s * K) <= 2 * (n * D) + K
    <2>1. K <= n
      BY <1>2
    <2> QED BY <1>2, <1>4, <2>1, RoundedNear DEF top, half
  <1> HIDE DEF s, D, size
  <1>6. K < 2 * D
    <2>1. n * D < top * D
      <3>1. n < top
        BY DEF top
      <3> QED BY <1>3, <1>5, <3>1
    <2>2. K * half < (2 * D) * half
      <3>1. top * D = (2 * D) * half
        BY <1>3, <1>5
      <3> QED BY <1>2, <1>3, <1>5, <2>1, <3>1
    <2> DEFINE d == 2 * D
    <2>3. d \in Nat
      BY <1>5
    <2> HIDE DEF d
    <2>4. K < d
      <3> SUFFICES ASSUME d <= K PROVE FALSE
        BY <1>2, <2>3
      <3>1. d * half <= K * half
        BY <1>2, <1>3, <2>3
      <3> QED BY <1>2, <1>3, <2>2, <2>3, <3>1 DEF d
    <2> QED BY <2>4 DEF d
  <1>7. s * K >= (n - 1) * D /\ s * K < top * D
    <2>1. n * D \in Nat /\ s * K \in Nat /\ (n - 1) * D = n * D - D /\ (n + 1) * D = n * D + D
      BY <1>5, <1>2
    <2>2. s * K >= (n - 1) * D /\ s * K < (n + 1) * D
      BY <1>2, <1>5, <1>6, <2>1
    <2>3. (n + 1) * D <= top * D
      <3>1. n + 1 <= top
        BY <1>3 DEF top
      <3> QED BY <1>3, <1>5, <3>1
    <2>4. top * D \in Nat /\ (n + 1) * D \in Nat
      BY <1>3, <1>5
    <2> QED BY <2>1, <2>2, <2>3, <2>4
  <1>8. D <= s
    <2> SUFFICES ASSUME s < D PROVE FALSE
      BY <1>5
    <2>1. s * K < D * K
      BY <1>2, <1>5
    <2>2. D * K <= (n - 1) * D
      <3> DEFINE m == n - 1
      <3>1. m \in Nat /\ K <= m
        BY <1>2
      <3> HIDE DEF m
      <3>2. D * K <= m * D
        BY <1>2, <1>5, <3>1
      <3> QED BY <3>2 DEF m
    <2>3. D * K \in Nat /\ s * K \in Nat /\ (n - 1) * D \in Int
      BY <1>2, <1>5
    <2> QED BY <1>7, <2>1, <2>2, <2>3
  <1>9. ASSUME NEW b \in 1 .. K
        PROVE  /\ BucketEdge(n, b) = Rounded(b * s, D).num \div Rounded(b * s, D).den
               /\ Rounded(b * s, D).num \in Nat /\ Rounded(b * s, D).den \in Nat \ {0}
               /\ Rounded(b * s, D).num >= ((b * s) * Rounded(b * s, D).den) \div D
    <2>1. b \in Nat /\ b >= 1 /\ b <= K /\ b # 0
      BY <1>2
    <2>2. b * s \in Nat /\ s <= b * s /\ b * s <= s * K
      BY <1>2, <1>5, <2>1
    <2> DEFINE x == b * s
    <2>3. x \in Nat /\ D <= x /\ x < D * top
      <3>1. s * K \in Nat /\ top * D = D * top
        BY <1>2, <1>3, <1>5
      <3> HIDE DEF x
      <3>2. x \in Nat /\ s <= x /\ x <= s * K
        BY <2>2 DEF x
      <3>3. D * top \in Nat
        BY <1>3, <1>5
      <3> QED BY <1>5, <1>7, <1>8, <3>1, <3>2, <3>3
    <2>4. BucketEdge(n, b) = Rounded(b * s, D).num \div Rounded(b * s, D).den
      BY <2>1 DEF BucketEdge, s, D, size, K
    <2> HIDE DEF x
    <2>5. /\ Rounded(x, D).num \in Nat /\ Rounded(x, D).den \in Nat \ {0}
          /\ Rounded(x, D).num >= (x * Rounded(x, D).den) \div D
      BY <1>5, <2>3, RoundedNear DEF top
    <2> QED BY <2>4, <2>5 DEF x
  <1>10. BucketEdge(n, 0) = 0
    BY DEF BucketEdge
  <1>11. ASSUME NEW b \in 0 .. K PROVE BucketEdge(n, b) \in Nat
    <2>1. CASE b = 0
      BY <1>10, <2>1
    <2>2. CASE b # 0
      <3>1. b \in 1 .. K
        BY <1>2, <2>2
      <3> DEFINE e == Rounded(b * s, D)
      <3>2. BucketEdge(n, b) = e.num \div e.den /\ e.num \in Nat /\ e.den \in Nat \ {0}
        BY <1>9, <3>1
      <3> HIDE DEF e
      <3> QED BY <3>2
    <2> QED BY <2>1, <2>2
  <1>12. BucketEdge(n, K) >= n - 1
    <2> DEFINE e == Rounded(K * s, D)
    <2>1. K \in 1 .. K
      BY <1>2
    <2>2. /\ BucketEdge(n, K) = e.num \div e.den /\ e.num \in Nat /\ e.den \in Nat \ {0}
          /\ e.num >= ((K * s) * e.den) \div D
      BY <1>9, <2>1
    <2> HIDE DEF e
    <2> DEFINE E == e.den
               x == K * s
               m == n - 1
    <2>3. x \in Nat /\ m \in Nat /\ E \in Nat \ {0} /\ x >= m * D
      <3>1. K * s = s * K
        BY <1>2, <1>5
      <3>2. n - 1 \in Nat
        BY <1>2
      <3> QED BY <1>2, <1>5, <1>7, <2>2, <3>1, <3>2
    <2>4. e.num >= (x * E) \div D
      BY <2>2
    <2> HIDE DEF E, x, m
    <2>5. (x * E) \div D >= m * E
      <3>1. x * E >= (m * D) * E
        <4> DEFINE y == m * D
        <4>1. y \in Nat /\ x >= y
          BY <1>5, <2>3
        <4> HIDE DEF y
        <4>2. x * E >= y * E
          BY <2>3, <4>1
        <4> QED BY <4>2 DEF y
      <3> DEFINE z == x * E
                 w == m * E
      <3>2. z \in Nat /\ w \in Nat /\ z >= w * D
        <4>1. (m * D) * E = (m * E) * D
          BY <1>5, <2>3
        <4> QED BY <2>3, <3>1, <4>1
      <3> HIDE DEF z, w
      <3>3. z \div D >= w
        BY <1>5, <3>2, QuotientReaches
      <3> QED BY <3>3 DEF z, w
    <2>6. e.num >= m * E
      <3>1. (x * E) \div D \in Nat /\ m * E \in Nat
        <4> DEFINE z == x * E
        <4>1. z \in Nat /\ m * E \in Nat
          BY <2>3
        <4> HIDE DEF z
        <4>2. z \div D \in Nat
          BY <1>5, <4>1
        <4> QED BY <4>1, <4>2 DEF z
      <3> QED BY <2>2, <2>4, <2>5, <3>1
    <2>7. e.num \div E >= m
      <3> DEFINE t == e.num
      <3>1. t \in Nat /\ t >= m * E
        BY <2>2, <2>6
      <3> HIDE DEF t
      <3>2. t \div E >= m
        BY <2>3, <3>1, QuotientReaches
      <3> QED BY <3>2 DEF t
    <2> QED BY <2>2, <2>7 DEF E, m
  <1> QED BY <1>2, <1>10, <1>11, <1>12 DEF K

(* Every sample but the last one is in a bucket. *)
LEMMA SamplesInBuckets ==
    ASSUME NEW n \in Nat, TargetPoints < n, n < PowerOfTwo[FloatBits], NEW i \in 1 .. n - 1
    PROVE  \E b \in 0 .. BucketCount - 1 : i \in Bucket(n, b)
  <1> DEFINE K == BucketCount
             reach == {b \in 1 .. K : BucketEdge(n, b) >= i}
  <1>1. /\ K \in Nat \ {0} /\ BucketEdge(n, 0) = 0 /\ BucketEdge(n, K) >= n - 1
        /\ \A b \in 0 .. K : BucketEdge(n, b) \in Nat
    BY BucketEdges
  <1> HIDE DEF K
  <1>2. K \in reach
    <2>1. K \in 1 .. K /\ K \in 0 .. K
      BY <1>1
    <2>2. BucketEdge(n, K) \in Nat
      BY <1>1, <2>1
    <2>3. BucketEdge(n, K) >= i
      BY <1>1, <2>2
    <2> QED BY <2>1, <2>3
  <1>3. reach \subseteq Nat /\ reach # {}
    BY <1>2
  <1>4. PICK b \in reach : \A m \in reach : b <= m
    <2> HIDE DEF reach
    <2> QED BY <1>3, LeastElement
  <1> DEFINE a == b - 1
  <1>5. b \in 1 .. K /\ BucketEdge(n, b) >= i
    BY <1>4
  <1>6. a \in 0 .. K - 1 /\ a + 1 = b /\ a \in 0 .. K /\ a < b /\ b \in 0 .. K /\ (a # 0 => a \in 1 .. K)
    BY <1>1, <1>5
  <1>7. BucketEdge(n, a) \in Nat /\ BucketEdge(n, b) \in Nat
    BY <1>1, <1>6
  <1>8. BucketEdge(n, a) < i
    <2>1. CASE a = 0
      BY <1>1, <2>1
    <2>2. CASE a # 0
      <3>1. ~(BucketEdge(n, a) >= i)
        BY <1>4, <1>6, <2>2
      <3> HIDE DEF a
      <3> QED BY <1>7, <3>1
    <2> QED BY <2>1, <2>2
  <1> HIDE DEF a
  <1> DEFINE end == BucketEdge(n, a + 1)
             lo  == BucketEdge(n, a)
             hi  == IF end > n THEN n ELSE end
  <1>9. end \in Nat /\ end >= i /\ lo \in Nat /\ lo < i
    BY <1>5, <1>6, <1>7, <1>8
  <1>10. Bucket(n, a) = lo + 1 .. hi
    BY DEF Bucket
  <1> HIDE DEF end, lo
  <1>11. hi \in Nat /\ i <= hi /\ lo + 1 <= i
    BY <1>9
  <1>12. i \in Bucket(n, a)
    <2> HIDE DEF hi
    <2> QED BY <1>9, <1>10, <1>11
  <1> QED BY <1>6, <1>12 DEF K

(* The buckets hold samples of the curve only. *)
LEMMA BucketsOfCurve ==
    ASSUME NEW n \in Nat, TargetPoints < n, n < PowerOfTwo[FloatBits], NEW b \in 0 .. BucketCount - 1
    PROVE  Bucket(n, b) \subseteq 1 .. n
  <1> DEFINE end == BucketEdge(n, b + 1)
             lo  == BucketEdge(n, b)
             hi  == IF end > n THEN n ELSE end
  <1>1. b \in 0 .. BucketCount /\ b + 1 \in 0 .. BucketCount
    BY BucketEdges
  <1>2. end \in Nat /\ lo \in Nat
    BY <1>1, BucketEdges
  <1>3. Bucket(n, b) = lo + 1 .. hi
    BY DEF Bucket
  <1> HIDE DEF end, lo
  <1>4. hi \in Nat /\ hi <= n
    BY <1>2
  <1> HIDE DEF hi
  <1> QED BY <1>2, <1>3, <1>4

-----------------------------------------------------------------------------
(* The samples S of a curve have a first one with the least flux. *)
LEMMA FirstLeast ==
    ASSUME NEW curve \in Seq(Nat), NEW S \in SUBSET (1 .. Len(curve)), S # {}
    PROVE  \E i \in S : \A j \in S : curve[i] <= curve[j] /\ (curve[i] = curve[j] => i <= j)
  <1> DEFINE fluxes == {curve[i] : i \in S}
  <1>1. \A i \in S : i \in Nat /\ curve[i] \in Nat
    OBVIOUS
  <1>2. fluxes \subseteq Nat /\ fluxes # {}
    BY <1>1
  <1>3. PICK v \in fluxes : \A w \in fluxes : v <= w
    <2> HIDE DEF fluxes
    <2> QED BY <1>2, LeastElement
  <1> DEFINE at == {i \in S : curve[i] = v}
  <1>4. at \subseteq Nat /\ at # {}
    BY <1>1, <1>3
  <1>5. PICK i \in at : \A j \in at : i <= j
    <2> HIDE DEF at
    <2> QED BY <1>4, LeastElement
  <1>6. i \in S /\ curve[i] = v
    BY <1>5
  <1>7. ASSUME NEW j \in S PROVE curve[i] <= curve[j] /\ (curve[i] = curve[j] => i <= j)
    <2>1. curve[i] <= curve[j]
      BY <1>3, <1>6
    <2>2. curve[i] = curve[j] => i <= j
      BY <1>5, <1>6
    <2> QED BY <2>1, <2>2
  <1> QED BY <1>6, <1>7

(* And a first one with the greatest: the fluxes have a bound. *)
LEMMA FirstGreatest ==
    ASSUME NEW curve \in Seq(Nat), NEW S \in SUBSET (1 .. Len(curve)), S # {}
    PROVE  \E i \in S : \A j \in S : curve[i] >= curve[j] /\ (curve[i] = curve[j] => i <= j)
  <1> DEFINE n == Len(curve)
             top(i, T) == \A j \in T : curve[i] >= curve[j]
             upTo(m) == {i \in S : i <= m}
             bad == {m \in 0 .. n : upTo(m) # {} /\ ~\E i \in upTo(m) : top(i, upTo(m))}
  <1>1. n \in Nat /\ (\A i \in S : i \in 1 .. n /\ i \in Nat /\ curve[i] \in Nat)
    OBVIOUS
  <1>2. CASE bad = {}
    <2>1. n \in 0 .. n /\ upTo(n) = S
      <3> HIDE DEF n
      <3>1. \A i \in S : i <= n
        BY <1>1
      <3>2. n \in 0 .. n
        BY <1>1
      <3>3. \A i : i \in upTo(n) <=> i \in S
        BY <3>1
      <3>4. upTo(n) = S
        <4> HIDE DEF upTo
        <4> QED BY <3>3
      <3> QED BY <3>2, <3>4
    <2>2. \E i \in S : top(i, S)
      BY <1>2, <2>1
    <2>3. PICK g \in S : top(g, S)
      BY <2>2
    <2> DEFINE at == {i \in S : curve[i] = curve[g]}
    <2>4. at \subseteq Nat /\ at # {}
      BY <1>1, <2>3
    <2>5. PICK i \in at : \A j \in at : i <= j
      <3> HIDE DEF at
      <3> QED BY <2>4, LeastElement
    <2>6. i \in S /\ curve[i] = curve[g]
      BY <2>5
    <2>7. ASSUME NEW j \in S PROVE curve[i] >= curve[j] /\ (curve[i] = curve[j] => i <= j)
      <3>1. curve[i] >= curve[j]
        BY <2>3, <2>6
      <3>2. curve[i] = curve[j] => i <= j
        BY <2>5, <2>6
      <3> QED BY <3>1, <3>2
    <2> QED BY <2>6, <2>7
  <1>3. CASE bad # {}
    <2>1. bad \subseteq Nat
      BY <1>1
    <2>2. PICK m \in bad : \A k \in bad : m <= k
      <3> HIDE DEF bad
      <3> QED BY <1>3, <2>1, LeastElement
    <2>3. m \in 0 .. n /\ upTo(m) # {} /\ ~\E i \in upTo(m) : top(i, upTo(m))
      BY <2>2
    <2> DEFINE k == m - 1
    <2>4. m # 0 /\ k \in 0 .. n /\ k < m
      <3>1. m # 0
        <4>1. PICK i \in S : i <= m
          BY <2>3
        <4> HIDE DEF n
        <4> QED BY <1>1, <4>1
      <3> QED BY <1>1, <2>3, <3>1
    <2>5. upTo(k) = {} \/ \E i \in upTo(k) : top(i, upTo(k))
      <3>1. k \notin bad
        BY <2>2, <2>3, <2>4
      <3> HIDE DEF k
      <3> QED BY <2>4, <3>1
    <2>6. \A i \in upTo(m) : i \in upTo(k) \/ i = m
      BY <1>1, <2>3
    <2>7. \A i \in upTo(k) : i \in upTo(m)
      BY <1>1, <2>3
    <2>8. \A i \in upTo(m) : curve[i] \in Nat
      BY <1>1
    <2> HIDE DEF upTo, k
    <2>9. CASE m \notin upTo(m)
      <3>1. upTo(m) = upTo(k)
        BY <2>6, <2>7, <2>9
      <3> QED BY <2>3, <2>5, <3>1
    <2>10. CASE m \in upTo(m) /\ upTo(k) = {}
      <3>1. \A i \in upTo(m) : i = m
        BY <2>6, <2>10
      <3>2. top(m, upTo(m))
        BY <2>8, <2>10, <3>1
      <3> QED BY <2>3, <2>10, <3>2
    <2>11. CASE m \in upTo(m) /\ \E i \in upTo(k) : top(i, upTo(k))
      <3>1. PICK i \in upTo(k) : top(i, upTo(k))
        BY <2>11
      <3>2. CASE curve[i] >= curve[m]
        <4>1. top(i, upTo(m))
          BY <2>6, <3>1, <3>2
        <4> QED BY <2>3, <2>7, <3>1, <4>1
      <3>3. CASE ~(curve[i] >= curve[m])
        <4>1. curve[i] \in Nat /\ curve[m] \in Nat
          BY <2>7, <2>8, <2>11, <3>1
        <4>2. ASSUME NEW j \in upTo(m) PROVE curve[m] >= curve[j]
          <5>1. curve[j] \in Nat
            BY <2>8
          <5>2. CASE j = m
            BY <4>1, <5>2
          <5>3. CASE j \in upTo(k)
            <6>1. curve[i] >= curve[j]
              BY <3>1, <5>3
            <6> QED BY <3>3, <4>1, <5>1, <6>1
          <5> QED BY <2>6, <5>2, <5>3
        <4> QED BY <2>3, <2>11, <4>2
      <3> QED BY <3>2, <3>3
    <2> QED BY <2>5, <2>9, <2>10, <2>11
  <1> QED BY <1>2, <1>3

-----------------------------------------------------------------------------
(* At most two samples of a bucket are drawn, so there are no more points    *)
(* than the chart has.                                                       *)
LEMMA DrawnPoints ==
    ASSUME NEW curve \in Seq(Nat), TargetPoints < Len(curve), Len(curve) < PowerOfTwo[FloatBits]
    PROVE  Cardinality(DownsampleMinMax(curve)) <= TargetPoints
  <1> DEFINE n == Len(curve)
             K == BucketCount
             places == (0 .. K - 1) \X {1, 2}
             low(i, S) == \A j \in S : curve[i] <= curve[j] /\ (curve[i] = curve[j] => i <= j)
             high(i, S) == \A j \in S : curve[i] >= curve[j] /\ (curve[i] = curve[j] => i <= j)
             on(i, p) == /\ i \in Bucket(n, p[1])
                         /\ p[2] = 1 => low(i, Bucket(n, p[1]))
                         /\ p[2] = 2 => high(i, Bucket(n, p[1]))
             drawn == DownsampleMinMax(curve)
             place == [i \in drawn |-> CHOOSE p \in places : on(i, p)]
  <1>1. n \in Nat /\ TargetPoints \in Nat /\ K \in Nat \ {0} /\ 2 * K <= TargetPoints
    BY BucketEdges, LightCurveConstants
  <1>2. drawn = UNION {Extrema(curve, Bucket(n, b)) : b \in 0 .. K - 1}
    BY <1>1 DEF DownsampleMinMax
  <1>3. \A b \in 0 .. K - 1 : Bucket(n, b) \subseteq 1 .. n
    BY <1>1, BucketsOfCurve
  <1>4. \A i \in 1 .. n : i \in Nat /\ curve[i] \in Nat
    OBVIOUS
  <1> HIDE DEF n, K
  <1>5. ASSUME NEW i \in drawn PROVE \E p \in places : on(i, p)
    <2>1. PICK b \in 0 .. K - 1 : i \in Extrema(curve, Bucket(n, b))
      BY <1>2
    <2> DEFINE S == Bucket(n, b)
    <2>2. i \in S /\ (low(i, S) \/ high(i, S))
      BY <2>1 DEF Extrema
    <2> HIDE DEF drawn
    <2>3. CASE low(i, S)
      <3>1. <<b, 1>> \in places /\ <<b, 1>>[1] = b /\ <<b, 1>>[2] = 1
        OBVIOUS
      <3>2. on(i, <<b, 1>>)
        BY <2>2, <2>3, <3>1
      <3> QED BY <3>1, <3>2
    <2>4. CASE high(i, S)
      <3>1. <<b, 2>> \in places /\ <<b, 2>>[1] = b /\ <<b, 2>>[2] = 2
        OBVIOUS
      <3>2. on(i, <<b, 2>>)
        BY <2>2, <2>4, <3>1
      <3> QED BY <3>1, <3>2
    <2> QED BY <2>2, <2>3, <2>4
  <1>6. ASSUME NEW i, NEW j, NEW p \in places, on(i, p), on(j, p) PROVE i = j
    <2> DEFINE S == Bucket(n, p[1])
    <2>1. p[1] \in 0 .. K - 1 /\ (p[2] = 1 \/ p[2] = 2)
      OBVIOUS
    <2>2. i \in S /\ j \in S
      BY <1>6
    <2>3. i \in Nat /\ j \in Nat /\ curve[i] \in Nat /\ curve[j] \in Nat
      <3>1. i \in 1 .. n /\ j \in 1 .. n
        BY <1>3, <2>1, <2>2
      <3> QED BY <1>4, <3>1
    <2>4. CASE p[2] = 1
      <3>1. low(i, S) /\ low(j, S)
        BY <1>6, <2>4
      <3>2. /\ curve[i] <= curve[j] /\ curve[j] <= curve[i]
            /\ (curve[i] = curve[j] => i <= j) /\ (curve[j] = curve[i] => j <= i)
        <4> HIDE DEF S
        <4> QED BY <2>2, <3>1
      <3> QED BY <2>3, <3>2
    <2>5. CASE p[2] = 2
      <3>1. high(i, S) /\ high(j, S)
        BY <1>6, <2>5
      <3>2. /\ curve[i] >= curve[j] /\ curve[j] >= curve[i]
            /\ (curve[i] = curve[j] => i <= j) /\ (curve[j] = curve[i] => j <= i)
        <4> HIDE DEF S
        <4> QED BY <2>2, <3>1
      <3> QED BY <2>3, <3>2
    <2> QED BY <2>1, <2>4, <2>5
  <1> HIDE DEF on, drawn, places
  <1>7. \A i \in drawn : place[i] \in places /\ on(i, place[i])
    BY <1>5
  <1>8. place \in Injection(drawn, places)
    <2>1. place \in [drawn -> places]
      BY <1>7
    <2> HIDE DEF place
    <2>2. \A i, j \in drawn : place[i] = place[j] => i = j
      BY <1>6, <1>7
    <2> QED BY <2>1, <2>2 DEF Injection, IsInjective
  <1>9. IsFiniteSet(places) /\ Cardinality(places) = K * 2
    <2>1. IsFiniteSet(0 .. K - 1) /\ Cardinality(0 .. K - 1) = K
      <3>1. 0 \in Int /\ K - 1 \in Int
        BY <1>1
      <3>2. IsFiniteSet(0 .. K - 1) /\ Cardinality(0 .. K - 1) = (IF 0 > K - 1 THEN 0 ELSE (K - 1) - 0 + 1)
        BY <3>1, FS_Interval
      <3> QED BY <1>1, <3>2
    <2>2. IsFiniteSet({1, 2}) /\ Cardinality({1, 2}) = 2
      <3>1. {1, 2} = 1 .. 2 /\ 1 \in Int /\ 2 \in Int
        OBVIOUS
      <3>2. IsFiniteSet(1 .. 2) /\ Cardinality(1 .. 2) = (IF 1 > 2 THEN 0 ELSE 2 - 1 + 1)
        BY <3>1, FS_Interval
      <3> QED BY <3>1, <3>2
    <2> DEFINE A == 0 .. K - 1
               B == {1, 2}
    <2>3. IsFiniteSet(A) /\ IsFiniteSet(B) /\ Cardinality(A) = K /\ Cardinality(B) = 2
      BY <2>1, <2>2
    <2>4. places = A \X B
      BY DEF places
    <2> HIDE DEF A, B
    <2>5. IsFiniteSet(A \X B) /\ Cardinality(A \X B) = Cardinality(A) * Cardinality(B)
      BY <2>3, FS_Product
    <2> QED BY <2>3, <2>4, <2>5
  <1>10. IsFiniteSet(drawn) /\ Cardinality(drawn) <= Cardinality(places)
    <2> HIDE DEF place
    <2> QED BY <1>8, <1>9, FS_Injection
  <1>11. Cardinality(drawn) \in Nat
    BY <1>10, FS_CardinalityType
  <1> QED BY <1>1, <1>9, <1>10, <1>11 DEF drawn

(* The chart of a light curve keeps its dips and flares, whatever the number *)
(* of samples, of points and of significant bits: downsampleMinMax draws no  *)
(* more points than the chart has, and of every sample but the last one      *)
(* there is a drawn one at or below it and a drawn one at or above it.  That *)
(* the last bucket may end before the last sample is the rounding of         *)
(* b * bucketSize (ExtremaKept does not hold).                               *)
THEOREM CurveKeepsExtrema ==
    ASSUME NEW curve \in Seq(Nat), Len(curve) < PowerOfTwo[FloatBits]
    PROVE  KeepsExtrema(curve, 1 .. Len(curve) - 1)
  <1> DEFINE n == Len(curve)
             drawn == DownsampleMinMax(curve)
  <1>1. n \in Nat /\ TargetPoints \in Nat /\ \A i \in 1 .. n : curve[i] \in Nat
    <2>1. TargetPoints \in Nat
      BY LightCurveConstants
    <2> QED BY <2>1
  <1>2. CASE n <= TargetPoints
    <2>1. drawn = 1 .. n
      BY <1>2 DEF DownsampleMinMax
    <2>2. Cardinality(1 .. n) = (IF 1 > n THEN 0 ELSE n - 1 + 1)
      BY <1>1, FS_Interval
    <2>3. Cardinality(drawn) <= TargetPoints
      BY <1>1, <1>2, <2>1, <2>2
    <2>4. ASSUME NEW i \in 1 .. n - 1
          PROVE  \E lo, hi \in drawn : curve[lo] <= curve[i] /\ curve[i] <= curve[hi]
      <3>1. i \in drawn /\ curve[i] \in Nat
        BY <1>1, <2>1
      <3>2. curve[i] <= curve[i]
        BY <3>1
      <3> QED BY <3>1, <3>2
    <2> QED BY <2>3, <2>4 DEF KeepsExtrema
  <1>3. CASE ~(n <= TargetPoints)
    <2>1. TargetPoints < n
      BY <1>1, <1>3
    <2>2. Cardinality(drawn) <= TargetPoints
      BY <2>1, DrawnPoints
    <2>3. ASSUME NEW i \in 1 .. n - 1
          PROVE  \E lo, hi \in drawn : curve[lo] <= curve[i] /\ curve[i] <= curve[hi]
      <3>1. PICK b \in 0 .. BucketCount - 1 : i \in Bucket(n, b)
        BY <1>1, <2>1, SamplesInBuckets
      <3> DEFINE S == Bucket(n, b)
      <3>2. S \in SUBSET (1 .. n) /\ S # {}
        BY <1>1, <2>1, <3>1, BucketsOfCurve
      <3>3. Extrema(curve, S) \subseteq drawn
        BY <1>3 DEF DownsampleMinMax
      <3> HIDE DEF drawn
      <3>4. \E lo \in S : \A j \in S : curve[lo] <= curve[j] /\ (curve[lo] = curve[j] => lo <= j)
        <4> HIDE DEF S
        <4> QED BY <3>2, FirstLeast
      <3>5. \E hi \in S : \A j \in S : curve[hi] >= curve[j] /\ (curve[hi] = curve[j] => hi <= j)
        <4> HIDE DEF S
        <4> QED BY <3>2, FirstGreatest
      <3>6. PICK lo \in S : \A j \in S : curve[lo] <= curve[j] /\ (curve[lo] = curve[j] => lo <= j)
        BY <3>4
      <3>7. PICK hi \in S : \A j \in S : curve[hi] >= curve[j] /\ (curve[hi] = curve[j] => hi <= j)
        BY <3>5
      <3>8. lo \in Extrema(curve, S) /\ hi \in Extrema(curve, S)
        <4> HIDE DEF S
        <4> QED BY <3>6, <3>7 DEF Extrema
      <3>9. curve[lo] <= curve[i] /\ curve[hi] >= curve[i]
        BY <3>1, <3>6, <3>7
      <3>10. curve[i] \in Nat /\ curve[hi] \in Nat
        BY <1>1, <3>2, <3>1
      <3>11. curve[i] <= curve[hi]
        BY <3>9, <3>10
      <3> QED BY <3>3, <3>8, <3>9, <3>11
    <2> QED BY <2>2, <2>3 DEF KeepsExtrema
  <1> QED BY <1>2, <1>3

==============================================================================
