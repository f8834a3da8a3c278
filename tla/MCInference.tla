----------------------------- MODULE MCInference -----------------------------
(* Instances of Inference for TLC: the requests r1 and r2 name job j1, r3     *)
(* names job j2.                                                              *)
EXTENDS Inference, TLC

CONSTANTS j1, j2, r1, r2, r3

TwoJobs == [m \in Requests |-> IF m \in {r1, r2} THEN j1 ELSE j2]

(* The workers are interchangeable. *)
Symmetry == Permutations(Workers)

==============================================================================
