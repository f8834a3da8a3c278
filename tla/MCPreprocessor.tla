---------------------------- MODULE MCPreprocessor ----------------------------
(* Instances of Preprocessor for TLC: one product, whose events m1 and m2     *)
(* announce the same content, m3 new content; m4 is malformed.                *)
EXTENDS Preprocessor, TLC

CONSTANTS a, v1, v2, m1, m2, m3, m4

OneProduct == [m \in Messages |-> a]
Contents == [m \in Messages |-> IF m = m3 THEN v2 ELSE v1]
DistinctSizes == [v \in Versions |-> IF v = v1 THEN 1 ELSE 2]

(* The workers are interchangeable. *)
Symmetry == Permutations(Workers)

==============================================================================
