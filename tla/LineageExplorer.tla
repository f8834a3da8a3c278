--------------------------- MODULE LineageExplorer ---------------------------
(***************************************************************************)
(* The lineage explorer (dashboard/src/pages/lineage-explorer): a ledger   *)
(* of products, filtered by kind, stage and a search, page by page, and    *)
(* the evidence of one of them beside it.  A product is reduced to what    *)
(* its record says of Silver, the lineage commit and Gold.  Reads are not  *)
(* numbered: the last answer to arrive is the one that stands.  The alert  *)
(* of a failure, which nothing reads, is left out.                         *)
(***************************************************************************)
EXTENDS Selections

CONSTANTS
    LedgerOrder,     \* every product that may be recorded, in the order of the ledger
    LedgerSizes,     \* rows per page; 10, 25 and 50 in the code
    FirstLedgerSize, \* the one a visit starts with; 25 in the code
    MaxLedgerReads   \* bound: reads on their way at once

LedgerRecords == [id : STRING, kind : STRING, silver : BOOLEAN, lineage : BOOLEAN,
                  gold : BOOLEAN, named : BOOLEAN]

(* An identity is the kind and the source product: it names one record. *)
ASSUME LedgerConstants ==
    /\ LedgerOrder \in Seq(LedgerRecords)
    /\ \A i, j \in DOMAIN LedgerOrder : LedgerOrder[i].id = LedgerOrder[j].id => i = j
    /\ LedgerSizes \subseteq Nat \ {0} /\ FirstLedgerSize \in LedgerSizes
    /\ MaxLedgerReads \in Nat \ {0}

VARIABLES
    ledger,      \* the server: the indices of the recorded products
    explorer     \* state of the page and its reads

ledgerVars == <<ledger, explorer>>

ProductKinds == {"lightcurve", "target_pixel"}
StageFilters == {"all", "bronze", "silver", "gold"}
NoIdentity == "none"

LedgerServers(open) == IF open THEN {DOMAIN LedgerOrder \cap {1}} ELSE {{}}

-----------------------------------------------------------------------------
(* What the page makes of its records.                                       *)

RecordStage(r) == IF r.gold THEN "gold" ELSE IF r.silver THEN "silver" ELSE "bronze"

Identities(records) == {records[i].id : i \in DOMAIN records}
Counts(p) ==
    [s \in StageFilters \ {"all"} |->
        Cardinality({i \in DOMAIN p.records : RecordStage(p.records[i]) = s})]

LedgerPages(p) == IF p.total = 0 THEN 1 ELSE (p.total + p.size - 1) \div p.size

(* The row that is marked, and the record of the inspector beside it. *)
MarkedRow(p) == {i \in DOMAIN p.records : p.records[i].id = p.selected}
Inspected(p) ==
    IF p.records = <<>> THEN {}
    ELSE {IF MarkedRow(p) = {} THEN 1 ELSE CHOOSE i \in MarkedRow(p) : \A j \in MarkedRow(p) : i <= j}

(* The tone of each step of the path from MAST to Gold. *)
EvidencePath(r) ==
    <<"observed", "observed", IF r.silver THEN "observed" ELSE "pending",
      IF r.lineage THEN "observed" ELSE "pending", IF r.gold THEN "gold" ELSE "pending">>

LedgerButtons(p) ==
    IF p.loading THEN {}
    ELSE (IF p.page <= 1 THEN {} ELSE {p.page - 1}) \cup
         (IF p.page >= LedgerPages(p) THEN {} ELSE {p.page + 1})

(* A gauge of the toolbar switches its stage on, and off when it is active;  *)
(* the pills set a stage.                                                    *)
StageChoices(p) == (StageFilters \ {p.stage}) \cup {"all"}

-----------------------------------------------------------------------------
LoadLineage(p) ==
    [p EXCEPT !.loading = TRUE,
              !.reads = @ \cup {[kind |-> p.kind, stage |-> p.stage, search |-> p.search,
                                 page |-> p.page, size |-> p.size, phase |-> "sent",
                                 rows |-> <<>>, total |-> 0]}]

MountedExplorer ==
    LoadLineage([kind |-> "lightcurve", stage |-> "all", search |-> FALSE, page |-> 1,
                 size |-> FirstLedgerSize,
                 total |-> 0, records |-> <<>>, selected |-> NoIdentity,
                 loading |-> TRUE, reads |-> {}])

Reads(p) == Cardinality(p.reads) <= MaxLedgerReads /\ explorer' = p /\ UNCHANGED ledger

(* go-api (lineageService.GetLedger) filters the ledger and cuts out the     *)
(* page; past the end it is empty.                                           *)
Recorded(r) ==
    InOrder({i \in ledger : /\ LedgerOrder[i].kind = r.kind
                            /\ r.stage \in {"all", RecordStage(LedgerOrder[i])}
                            /\ r.search => LedgerOrder[i].named})

ServeLedger(r) ==
    LET all == Recorded(r)
        start == (r.page - 1) * r.size
        end == IF start + r.size > Len(all) THEN Len(all) ELSE start + r.size
    IN /\ r.phase = "sent"
       /\ explorer' = [explorer EXCEPT !.reads = (@ \ {r}) \cup
             {[r EXCEPT !.phase = "served", !.total = Len(all),
                        !.rows = IF start >= Len(all) THEN <<>>
                                 ELSE [i \in 1 .. end - start |-> LedgerOrder[all[start + i]]]]}]
       /\ UNCHANGED ledger

(* Mistake: the selection stays in any case. *)
SelectionKept(current, rows) == current

(* The selection stays when it is among the new records. *)
RetainSelection(current, rows) ==
    IF current \in Identities(rows) THEN current
    ELSE IF rows = <<>> THEN NoIdentity ELSE rows[1].id

LedgerAnswered(r) ==
    /\ r.phase = "served"
    /\ explorer' = [explorer EXCEPT !.reads = @ \ {r}, !.records = r.rows, !.total = r.total,
                       !.selected = RetainSelection(@, r.rows), !.loading = FALSE]
    /\ UNCHANGED ledger

(* Mistake: only an answer ends the loading. *)
LedgerFailedLoading(r) ==
    /\ explorer' = [explorer EXCEPT !.reads = @ \ {r}, !.records = <<>>, !.total = 0,
                       !.selected = NoIdentity]
    /\ UNCHANGED ledger

LedgerFailed(r) ==
    /\ explorer' = [explorer EXCEPT !.reads = @ \ {r}, !.records = <<>>, !.total = 0,
                       !.selected = NoIdentity, !.loading = FALSE]
    /\ UNCHANGED ledger

ProductRecorded(i) == i \notin ledger /\ ledger' = ledger \cup {i} /\ UNCHANGED explorer

-----------------------------------------------------------------------------
(* Every change of a filter makes loadLineage new, and the effect runs it.   *)
ProductKindChange(k) ==
    k # explorer.kind /\ Reads(LoadLineage([explorer EXCEPT !.kind = k, !.page = 1, !.stage = "all"]))

StageFilterChange(s) ==
    /\ s \in StageChoices(explorer) /\ s # explorer.stage
    /\ Reads(LoadLineage([explorer EXCEPT !.stage = s, !.page = 1]))

(* setSearch alone: the page number stays. *)
LineageSearch(s) == s # explorer.search /\ Reads(LoadLineage([explorer EXCEPT !.search = s]))

PageSizeChange(n) ==
    n # explorer.size /\ Reads(LoadLineage([explorer EXCEPT !.size = n, !.page = 1]))

TurnLedgerPage(n) == n \in LedgerButtons(explorer) /\ Reads(LoadLineage([explorer EXCEPT !.page = n]))

RefreshLineage == ~explorer.loading /\ Reads(LoadLineage(explorer))

SelectRecord(i) ==
    /\ i \in DOMAIN explorer.records
    /\ explorer.records[i].id # explorer.selected
    /\ explorer' = [explorer EXCEPT !.selected = explorer.records[i].id]
    /\ UNCHANGED ledger

LineageNext ==
    \/ \E r \in explorer.reads : ServeLedger(r) \/ LedgerAnswered(r) \/ LedgerFailed(r)
    \/ \E i \in 1 .. Len(LedgerOrder) : ProductRecorded(i) \/ SelectRecord(i)
    \/ \E k \in ProductKinds : ProductKindChange(k)
    \/ \E s \in StageFilters : StageFilterChange(s)
    \/ \E s \in BOOLEAN : LineageSearch(s)
    \/ \E n \in LedgerSizes : PageSizeChange(n)
    \/ \E n \in 1 .. Len(LedgerOrder) : TurnLedgerPage(n)
    \/ RefreshLineage

-----------------------------------------------------------------------------
(* The evidence on the right is that of the row that is marked on the left:  *)
(* while the ledger has records exactly one of them is marked, through       *)
(* reloads, failures and answers of other filters; and a path that ends in   *)
(* Gold is shown for the records that the gauge counts as Gold, no others.   *)
EvidenceOfMarkedRow ==
    /\ Inspected(explorer) = MarkedRow(explorer)
    /\ Cardinality({i \in DOMAIN explorer.records : EvidencePath(explorer.records[i])[5] = "gold"})
          = Counts(explorer)["gold"]

=============================================================================
