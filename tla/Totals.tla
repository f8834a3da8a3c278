------------------------------- MODULE Totals -------------------------------
(***************************************************************************)
(* Byte totals.  The storage code adds int64 sizes up: the usage of the    *)
(* Bronze bucket, the reservations of the ingest workers.  Total(f) is the *)
(* sum of f over its (finite) domain, written as the number of the units   *)
(* <<x, 1>>, ..., <<x, f[x]>> so that the cardinality theorems of the      *)
(* proof library apply to it.                                              *)
(***************************************************************************)
EXTENDS Integers, FiniteSets

Units(f) == UNION {{x} \X (1..f[x]) : x \in DOMAIN f}

Total(f) == Cardinality(Units(f))

=============================================================================
