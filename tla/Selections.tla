----------------------------- MODULE Selections -----------------------------
(***************************************************************************)
(* The part of a sequence that a filter keeps, in the order of the         *)
(* sequence, and a sequence sorted.  The filter is given by the indices it *)
(* keeps, and the k-th of them is the one with k of them up to it: without *)
(* recursion, so that the cardinality theorems of the proof library apply. *)
(***************************************************************************)
EXTENDS Integers, Sequences, FiniteSets

(* The finite set of numbers I in increasing order. *)
InOrder(I) ==
    [k \in 1 .. Cardinality(I) |-> CHOOSE i \in I : Cardinality({j \in I : j <= i}) = k]

(* The elements of s at the indices I. *)
ElementsAt(s, I) == [k \in 1 .. Cardinality(I) |-> s[InOrder(I)[k]]]

(* The elements of s in the order of their keys; those of the same key keep  *)
(* their order.                                                              *)
SortedBy(s, key) ==
    LET before(i, j) == key[s[i]] < key[s[j]] \/ (key[s[i]] = key[s[j]] /\ i <= j)
    IN [k \in 1 .. Len(s) |->
          s[CHOOSE j \in DOMAIN s : Cardinality({i \in DOMAIN s : before(i, j)}) = k]]

=============================================================================
