--------------------------- MODULE EvaluationBoard ---------------------------
(***************************************************************************)
(* The panels of model evaluation and of evolution evidence as functions   *)
(* of what they are given: the evaluation v that was read, and the         *)
(* registry's record of the selected package.  Rates are fractions         *)
(* <<part, whole>>, and <<>> is a value the evaluator did not write; a     *)
(* threshold is in hundredths.                                             *)
(***************************************************************************)
EXTENDS Selections

(* An evaluation: tn, fp, fn and tp when the matrix was written. *)
EvaluationRecords ==
    [run : STRING, package : STRING, matrix : Seq(Nat), recent : BOOLEAN, drift : Seq(Int),
     threshold : Int, gate : BOOLEAN, parity : STRING, integrity : STRING,
     goldDigest : STRING, onnxDigest : STRING]

(* A record of the registry. *)
PackageRecords ==
    [id : STRING, model : STRING, status : STRING, parity : STRING, integrity : STRING,
     digest : STRING]

(* Statuses are compared without regard to case. *)
StatusPass(s) == s \in {"pass", "passed"}

MatrixObserved(v) == Len(v.matrix) = 4
MatrixCell(v, i) == IF MatrixObserved(v) THEN v.matrix[i] ELSE 0
RateOf(part, other) == IF part + other > 0 THEN <<part, part + other>> ELSE <<>>
FalsePositiveRate(v) == RateOf(MatrixCell(v, 2), MatrixCell(v, 1))
FalseNegativeRate(v) == RateOf(MatrixCell(v, 3), MatrixCell(v, 4))

ConfusionMatrixCard(v) ==
    IF MatrixObserved(v)
    THEN [cells |-> v.matrix, rates |-> <<FalsePositiveRate(v), FalseNegativeRate(v)>>]
    ELSE [cells |-> <<>>, rates |-> <<>>]

StatusTone(s) == IF StatusPass(s) THEN "positive" ELSE "negative"
EvaluationSummary(v) ==
    [missed |-> FalseNegativeRate(v), threshold |-> v.threshold,
     parity |-> StatusTone(v.parity), integrity |-> StatusTone(v.integrity)]

(* The width of a bar, in hundredths. *)
BarWidth(x) == IF x < 0 THEN 0 ELSE IF x > 100 THEN 100 ELSE x
ThresholdEvidence(v) == [label |-> v.threshold, bar |-> BarWidth(v.threshold)]

DriftTone(d) ==
    CASE d = <<>> -> "unobserved" [] d # <<>> /\ d[1] < 0 -> "degraded" [] OTHER -> "kept"
CohortStability(v) ==
    IF v.recent THEN [drift |-> DriftTone(v.drift), cohorts |-> {"golden", "recent"}]
    ELSE [drift |-> "undetermined", cohorts |-> {}]

(* The bars of every metric: without a recent cohort only the golden ones. *)
QualityProfile(v) == {"golden"} \cup (IF v.recent THEN {"recent"} ELSE {})

EvaluationProvenance(v) == [recent |-> IF v.recent THEN "attached" ELSE "not attached"]

-----------------------------------------------------------------------------
(* Evolution evidence: a value the evaluation lacks is taken from the        *)
(* registry's record of the selected package.                                *)
OrElse(x, y) == IF x = "" THEN y ELSE x

(* The stages of the rail: what the package stage names and the badges.      *)
StageCard(primary, badge) == [primary |-> primary, badge |-> badge]
PipelineRail(v, pkg, completed, linked) ==
    [evaluate |-> StageCard(OrElse(v.run, "unavailable"), IF v.gate THEN "PASSED" ELSE "FLAGGED"),
     package |-> StageCard(OrElse(v.package, pkg.id), OrElse(v.parity, pkg.parity)),
     serve |-> StageCard(<<completed, linked>>, pkg.status)]

(* Only the ledger's digests have a button to copy them, and only where one  *)
(* was recorded.                                                             *)
BindingRow(value, digest) == [value |-> OrElse(value, "not recorded"), copies |-> digest /\ value # ""]
ArtifactLedger(v, pkg) ==
    [gold |-> BindingRow(v.goldDigest, TRUE),
     onnx |-> BindingRow(OrElse(v.onnxDigest, pkg.digest), TRUE)]

(* The chart of the newest jobs of the package, oldest first. *)
Footprint(linked, created, bars) ==
    LET sorted == SortedBy(linked, created)
        n == Len(sorted)
    IN SubSeq(sorted, IF n > bars THEN n - bars + 1 ELSE 1, n)

GenerationLedger(pkgs, selected) ==
    [i \in DOMAIN pkgs |-> [id |-> pkgs[i].id, selected |-> pkgs[i].id = selected,
                            parity |-> StatusTone(pkgs[i].parity)]]

=============================================================================
