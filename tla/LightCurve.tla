----------------------------- MODULE LightCurve -----------------------------
(***************************************************************************)
(* The thinning of a light curve for its chart                             *)
(* (dashboard/src/pages/target-detail/components/SynchronizedLightCurve):  *)
(* of a curve with more samples than the chart has points, the first       *)
(* minimum and the first maximum of every bucket are drawn.  The edges of  *)
(* the buckets are products of doubles; here a floating-point number has   *)
(* FloatBits significant bits (53 in the code) and is rounded to the       *)
(* nearest, ties to even.  A curve is the sequence of its fluxes, in time  *)
(* order and without the samples that are not finite.                      *)
(***************************************************************************)
EXTENDS Naturals, Sequences, FiniteSets

CONSTANTS
    TargetPoints,   \* 1200 in the code
    FloatBits,      \* significant bits of a floating-point number
    PowerOfTwo      \* the powers of two up to 2^FloatBits

ASSUME LightCurveConstants ==
    /\ TargetPoints \in Nat \ {0, 1} /\ FloatBits \in Nat \ {0, 1}
    /\ PowerOfTwo \in [0 .. FloatBits -> Nat] /\ PowerOfTwo[0] = 1
    /\ \A k \in 1 .. FloatBits : PowerOfTwo[k] = 2 * PowerOfTwo[k - 1]

(* The floating-point number nearest to num / den, for 1 <= num / den < 2^FloatBits. *)
Rounded(num, den) ==
    LET scale == PowerOfTwo[CHOOSE k \in 0 .. FloatBits :
                              /\ num * PowerOfTwo[k] >= den * PowerOfTwo[FloatBits - 1]
                              /\ num * PowerOfTwo[k] < den * PowerOfTwo[FloatBits]]
        q == (num * scale) \div den
        r == (num * scale) % den
        up == 2 * r > den \/ (2 * r = den /\ q % 2 = 1)
    IN [num |-> IF up THEN q + 1 ELSE q, den |-> scale]

BucketCount == TargetPoints \div 2

(* Mistake: buckets of a whole number of samples. *)
WholeBucketEdge(n, b) == b * (n \div BucketCount)

(* Math.floor(b * bucketSize) for a curve of n samples. *)
BucketEdge(n, b) ==
    LET size == Rounded(n, BucketCount)
        edge == Rounded(b * size.num, size.den)
    IN IF b = 0 THEN 0 ELSE edge.num \div edge.den

(* The samples of a bucket, numbered from 1. *)
Bucket(n, b) ==
    LET end == BucketEdge(n, b + 1)
    IN BucketEdge(n, b) + 1 .. (IF end > n THEN n ELSE end)

(* The first of the samples S with the least and with the greatest flux. *)
Extrema(curve, S) ==
    {i \in S : \A j \in S : curve[i] <= curve[j] /\ (curve[i] = curve[j] => i <= j)} \cup
    {i \in S : \A j \in S : curve[i] >= curve[j] /\ (curve[i] = curve[j] => i <= j)}

DownsampleMinMax(curve) ==
    IF Len(curve) <= TargetPoints THEN DOMAIN curve
    ELSE UNION {Extrema(curve, Bucket(Len(curve), b)) : b \in 0 .. BucketCount - 1}

(* The drawn points do not exceed the chart, and the deepest dip and the     *)
(* highest flare of the samples S are among them.                            *)
KeepsExtrema(curve, S) ==
    LET drawn == DownsampleMinMax(curve) IN
    /\ Cardinality(drawn) <= TargetPoints
    /\ \A i \in S : \E lo, hi \in drawn : curve[lo] <= curve[i] /\ curve[i] <= curve[hi]

=============================================================================
