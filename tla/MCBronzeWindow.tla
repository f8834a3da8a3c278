-------------------------- MODULE MCBronzeWindow ---------------------------
(* Instances of BronzeWindow for TLC. *)
EXTENDS BronzeWindow, TLC

CONSTANTS p1, p2, p3, p4, w1, w2

TwoWorkers == {w1, w2}
ThreeProducts == {p1, p2, p3}
FourProducts == {p1, p2, p3, p4}

(* p1: the catalog underestimates it; p2: no catalog size; p3: no            *)
(* Content-Length, and its lineage is never eligible.                        *)
MixedManifest == (p1 :> 1) @@ (p2 :> 0) @@ (p3 :> 1)
MixedStream == (p1 :> 2) @@ (p2 :> 1) @@ (p3 :> 0)

UnitSizes == [p \in Products |-> 1]
DoubleSizes == [p \in Products |-> 2]

(* Three products of one unit and one that is larger than MAX. *)
OneOversize == [p \in Products |-> IF p = p4 THEN 5 ELSE 1]
=============================================================================
