------------------------------ MODULE Medallion ------------------------------
(***************************************************************************)
(* What the stages of the medallion pipeline promise each other about one  *)
(* another's objects, without any of their mechanism: a Silver object is   *)
(* made from a Bronze one, lineage is committed for a stored Silver        *)
(* object, and raw Bronze data is purged only once both are durable.       *)
(* BronzeWindow (go-ingester) and Preprocessor (rust-preprocessor) both    *)
(* implement it.                                                           *)
(***************************************************************************)
CONSTANTS Products,     \* the products of the pipeline
          Pinned        \* products whose lineage never allows eviction

VARIABLES raw, silver, lineage  \* products with a Bronze object, a Silver
                                \* object, a lineage record
vars == <<raw, silver, lineage>>

Init == raw = {} /\ silver = {} /\ lineage = {}

Ingest(p) == raw' = raw \cup {p} /\ UNCHANGED <<silver, lineage>>

StoreSilver(p) ==
    /\ p \in raw
    /\ silver' = silver \cup {p}
    /\ UNCHANGED <<raw, lineage>>

CommitLineage(p) ==
    /\ p \in raw
    /\ p \in silver
    /\ lineage' = lineage \cup {p}
    /\ UNCHANGED <<raw, silver>>

Purge(p) ==
    /\ p \in silver
    /\ p \in lineage
    /\ p \notin Pinned
    /\ raw' = raw \ {p}
    /\ UNCHANGED <<silver, lineage>>

Next == \E p \in Products : Ingest(p) \/ StoreSilver(p) \/ CommitLineage(p)
                            \/ Purge(p)

Spec == Init /\ [][Next]_vars

==============================================================================
