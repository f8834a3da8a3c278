---------------------------- MODULE VettingRules ----------------------------
(***************************************************************************)
(* The rules by which the Labeling Studio judges the evidence of a target  *)
(* (dashboard/src/pages/labeling-studio/components): the recommendation    *)
(* for the human decision, the physical size of the transiting body and    *)
(* the badges of the evidence panels.  Evidence is a record of integers:   *)
(*   depth     transit depth in 1000 ppm      radius   of the star, tenths *)
(*   centroid  offset in tenths of a pixel    power    of the BLS peak     *)
(*   score     of the model in percent        above    its threshold       *)
(***************************************************************************)
EXTENDS Integers, FiniteSets

Labels == {"POSITIVE", "NEGATIVE", "UNRESOLVED"}
NoAdvice == [label |-> "none", reason |-> "none", confidence |-> 0]
Advice(label, reason, confidence) ==
    [label |-> label, reason |-> reason, confidence |-> confidence]

(* Squared radius of the body in 1/10000 of a squared Earth radius:          *)
(* Rp = sqrt(depth) * R * 109.2, kept squared because there is no root here. *)
SquaredRadius(e) == e.depth * e.radius * e.radius * 1192

Earths(hundredths) == hundredths * hundredths
Jupiters(tenths) == Earths((tenths * 11209) \div 100)

HasRadius(e) == e.radius > 0 /\ e.depth > 0

(* computePlanetPhysics *)
SizeCategory(e) ==
    LET r == SquaredRadius(e) IN
    IF ~HasRadius(e) THEN "UNKNOWN"
    ELSE IF r > Jupiters(25) THEN "STELLAR_COMPANION"
    ELSE IF r >= Jupiters(13) THEN "SUPER_JUPITER"
    ELSE IF r >= Earths(400) THEN "JOVIAN"
    ELSE IF r >= Earths(200) THEN "SUB_NEPTUNE"
    ELSE IF r >= Earths(125) THEN "SUPER_EARTH"
    ELSE "EARTH_SIZE"

(* StellarPhysicsPanel and TPFCentroidCutoutMap: what their badges say. *)
PlausibleSize(e) == SizeCategory(e) # "STELLAR_COMPANION"
CentroidBadge(e) ==
    IF e.centroid >= 25 THEN "contamination" ELSE IF e.centroid >= 15 THEN "borderline"
    ELSE "on-target"

-----------------------------------------------------------------------------
(* The rules of computeRecommendation for a score above the threshold, in    *)
(* their order, ...                                                          *)
AdviceAbove(e) ==
    IF HasRadius(e) /\ SquaredRadius(e) > Jupiters(25)
    THEN Advice("NEGATIVE", "ECLIPSING_BINARY", 90)
    ELSE IF e.centroid >= 25
    THEN Advice("NEGATIVE", "CENTROID_CONTAMINATION", IF e.centroid >= 40 THEN 90 ELSE 70)
    ELSE IF e.depth > 35
    THEN Advice("NEGATIVE", "ECLIPSING_BINARY", IF e.depth > 50 THEN 90 ELSE 70)
    ELSE IF e.transit /\ e.centroid < 15 /\ e.power >= 7
    THEN Advice("POSITIVE", "PERIODIC_TRANSIT_SHAPE",
                IF e.score >= 82 /\ e.centroid < 10 THEN 90 ELSE 70)
    ELSE Advice("POSITIVE", "COHERENT_BLS_SIGNAL",
                IF e.score >= 85 /\ e.power >= 12 THEN 90 ELSE 70)

(* ... and for a score below it. *)
AdviceBelow(e) ==
    IF e.depth > 35 THEN Advice("NEGATIVE", "ECLIPSING_BINARY", 90)
    ELSE IF e.centroid >= 20
    THEN Advice("NEGATIVE", "CENTROID_CONTAMINATION", IF e.centroid >= 30 THEN 90 ELSE 70)
    ELSE IF e.variable THEN Advice("NEGATIVE", "STELLAR_VARIABILITY", 70)
    ELSE IF e.sparse THEN Advice("UNRESOLVED", "INSUFFICIENT_EVIDENCE", 50)
    ELSE Advice("NEGATIVE", "INSTRUMENTAL_SYSTEMATIC", IF e.score < 25 THEN 90 ELSE 70)

(* A catalog match decides alone; without a score only a strong BLS peak     *)
(* gives a recommendation.                                                   *)
ComputeRecommendation(e) ==
    IF e.confirmed THEN Advice("POSITIVE", "CATALOG_CONFIRMED", 90)
    ELSE IF e.scored THEN IF e.above THEN AdviceAbove(e) ELSE AdviceBelow(e)
    ELSE IF e.bls /\ e.power > 10 THEN Advice("POSITIVE", "COHERENT_BLS_SIGNAL", 70)
    ELSE NoAdvice

-----------------------------------------------------------------------------
(* ScientificEvidenceWorkspace: the colour of every measurement, and of the  *)
(* tab that holds it.  Measurements are percents, snr tenths and centroid    *)
(* tenths of a pixel; one that is not finite is NotFinite.                   *)
NotFinite == -1000

Threshold(value, positive, review) ==
    IF value = NotFinite THEN "review"
    ELSE IF positive THEN "positive" ELSE IF review THEN "review" ELSE "negative"

ToneRank == [neutral |-> 0, positive |-> 1, review |-> 2, negative |-> 3]
WorstTone(tones) ==
    IF tones = {} THEN "neutral"
    ELSE CHOOSE t \in tones : \A u \in tones : ToneRank[u] <= ToneRank[t]

SecondaryTone(d) ==
    IF d.secondarySnr = NotFinite THEN "neutral"
    ELSE IF d.secondarySnr >= 30 /\ d.secondaryDepth > 500 THEN "negative"
    ELSE IF d.secondarySnr >= 20 /\ d.secondaryDepth > 200 THEN "review" ELSE "positive"

(* The diagnostics d come from the curve of the target, the evidence e from  *)
(* its row, where named says that it has an identifier of a TOI, also one    *)
(* that the catalog did not confirm.                                         *)
TransitTones(d) ==
    [depth    |-> Threshold(d.depthMismatch, d.depthMismatch <= 20, d.depthMismatch <= 50),
     snr      |-> Threshold(d.snr, d.snr >= 100, d.snr >= 70),
     transits |-> Threshold(d.transits, d.transits >= 3, d.transits >= 2),
     duration |-> Threshold(d.duration, d.duration >= 5 /\ d.duration <= 100,
                            d.duration > 0 /\ d.duration <= 150),   \* in thousandths
     oddEven  |-> Threshold(d.oddEven, d.oddEven <= 10, d.oddEven <= 25),
     secondary |-> SecondaryTone(d)]

QualityTones(d, coverage) ==
    [loaded   |-> Threshold(d.loaded, d.loaded >= 98, d.loaded >= 90),
     coverage |-> Threshold(coverage, coverage >= 90, coverage >= 70),
     gap      |-> Threshold(d.gap, d.gap < 25, d.gap <= 50)]

ContextTones(e) ==
    [centroid |-> IF e.transit THEN Threshold(e.centroid, e.centroid < 2, e.centroid <= 10)
                  ELSE "review",
     catalog  |-> IF e.named THEN "positive" ELSE IF e.mismatch THEN "negative" ELSE "review"]

TabTone(tones) == WorstTone({tones[f] : f \in DOMAIN tones})

-----------------------------------------------------------------------------
(* The recommendation and the badges beside it are computed apart and do not *)
(* contradict each other where a model was consulted: no body that is too    *)
(* large for a planet and no contaminated centroid is recommended as         *)
(* positive, unless the catalog confirms it, and such a positive without     *)
(* catalog never claims high confidence on a weak score.                     *)
AdviceFitsBadges(e) ==
    LET a == ComputeRecommendation(e) IN
    e.scored /\ ~e.confirmed /\ a.label = "POSITIVE" =>
        /\ PlausibleSize(e) /\ CentroidBadge(e) # "contamination"
        /\ a.confidence = 90 => e.score >= 82

=============================================================================
