--------------------------- MODULE TargetDiscovery ---------------------------
(***************************************************************************)
(* TESS Target Discovery (dashboard/src/pages/target-discovery): the       *)
(* catalog of observed targets, queried page by page.  Requests are        *)
(* numbered, and only the answer of the latest one is shown; the modelled  *)
(* mark says which one that is.  The text of the filters is abstracted to  *)
(* whether only scored targets are wanted.                                 *)
(***************************************************************************)
EXTENDS Selections

CONSTANTS
    CatalogOrder,    \* every target that may be indexed, in the order of the server
    TargetPageSize,  \* 25 in the code
    MaxTargetReads   \* bound: requests on their way at once

ASSUME DiscoveryConstants ==
    /\ CatalogOrder \in Seq([tic : STRING, lightcurve : BOOLEAN, candidate : BOOLEAN, toi : BOOLEAN])
    /\ TargetPageSize \in Nat \ {0} /\ MaxTargetReads \in Nat \ {0}

VARIABLES
    catalog,     \* the server: the indices of the targets that are indexed
    discovery    \* state of the page and its requests

discoveryVars == <<catalog, discovery>>

TargetFilters == {"all", "scored"}
NoTargets == [targets |-> <<>>, total |-> 0, more |-> FALSE]

CatalogServers(open) ==
    IF open THEN {DOMAIN CatalogOrder, DOMAIN CatalogOrder \cap {1}} ELSE {{}}

-----------------------------------------------------------------------------
(* What the page shows.                                                      *)

(* The line "Showing first-last of total" and the page number. *)
ShownRange(p) ==
    [first |-> IF p.total = 0 THEN 0 ELSE p.offset + 1,
     last  |-> IF p.offset + Len(p.targets) < p.total THEN p.offset + Len(p.targets) ELSE p.total]

Pagination(p) ==
    IF p.loading \/ p.updating THEN {}
    ELSE (IF p.offset = 0 THEN {} ELSE {"previous"}) \cup (IF p.more THEN {"next"} ELSE {})

QueryButtons(p) == IF p.updating THEN {} ELSE {"run", "reset"}
RefreshButton(p) == ~p.loading /\ ~p.updating

(* A row of the table and a card of the narrow layout: the analysis they     *)
(* lead to and the evidence they claim for the target.                       *)
TransitEvidence(t) ==
    IF t.candidate THEN "score" ELSE IF t.toi THEN "matched TOI" ELSE "missing"
TargetTableRow(t) ==
    [link |-> t.tic, series |-> t.lightcurve, transit |-> TransitEvidence(t)]
TargetCard(t) ==
    [link |-> t.tic, series |-> t.lightcurve,
     transit |-> IF t.candidate THEN "score" ELSE "missing"]

CatalogRows(p) ==
    IF p.loading THEN {}
    ELSE UNION {{TargetTableRow(p.targets[i]), TargetCard(p.targets[i])} : i \in DOMAIN p.targets}

-----------------------------------------------------------------------------
LoadTargets(p, filters, offset, mode) ==
    [p EXCEPT !.reads = {[r EXCEPT !.latest = FALSE] : r \in @} \cup
                        {[filters |-> filters, offset |-> offset, phase |-> "sent",
                          body |-> NoTargets, latest |-> TRUE]},
              !.error = FALSE,
              !.loading = @ \/ mode = "initial", !.updating = @ \/ mode # "initial",
              !.asked = [filters |-> filters, offset |-> offset]]

MountedDiscovery ==
    LoadTargets([draft |-> "all", applied |-> "all", targets |-> <<>>, total |-> 0,
                 offset |-> 0, more |-> FALSE, loading |-> FALSE, updating |-> FALSE,
                 error |-> FALSE, reads |-> {}, asked |-> [filters |-> "all", offset |-> 0]],
                "all", 0, "initial")

Asks(p) == Cardinality(p.reads) <= MaxTargetReads /\ discovery' = p /\ UNCHANGED catalog

(* go-api answers with a page of the targets that match (external). *)
ServeTargets(r) ==
    LET rows == InOrder({i \in catalog : r.filters = "scored" => CatalogOrder[i].candidate})
        last == IF r.offset + TargetPageSize < Len(rows) THEN r.offset + TargetPageSize
                ELSE Len(rows)
    IN /\ r.phase = "sent"
       /\ discovery' = [discovery EXCEPT !.reads = (@ \ {r}) \cup
             {[r EXCEPT !.phase = "served",
                        !.body = [targets |-> [i \in 1 .. (IF last > r.offset THEN last - r.offset
                                                           ELSE 0)
                                                 |-> CatalogOrder[rows[r.offset + i]]],
                                  total |-> Len(rows), more |-> last < Len(rows)]]}]
       /\ UNCHANGED catalog

(* Mistake: the number of the request is not compared. *)
LatestUnchecked(r) == TRUE

(* requestId === requestSequence.current *)
LatestRequest(r) == r.latest

TargetsAnswered(r) ==
    LET p == [discovery EXCEPT !.reads = @ \ {r}] IN
    /\ r.phase = "served"
    /\ discovery' =
         IF ~LatestRequest(r) THEN p
         ELSE [p EXCEPT !.targets = r.body.targets, !.total = r.body.total, !.more = r.body.more,
                        !.offset = r.offset, !.applied = r.filters,
                        !.loading = FALSE, !.updating = FALSE]
    /\ UNCHANGED catalog

TargetsFailed(r) ==
    LET p == [discovery EXCEPT !.reads = @ \ {r}] IN
    /\ discovery' = IF ~LatestRequest(r) THEN p
                    ELSE [p EXCEPT !.error = TRUE, !.loading = FALSE, !.updating = FALSE]
    /\ UNCHANGED catalog

(* Another target is indexed, whether the page looks or not. *)
TargetIndexed(i) ==
    /\ i \notin catalog
    /\ catalog' = catalog \cup {i}
    /\ UNCHANGED discovery

-----------------------------------------------------------------------------
(* What the scientist does: the form, its buttons, and the pages.            *)
SetFilter(f) ==
    /\ f # discovery.draft
    /\ discovery' = [discovery EXCEPT !.draft = f]
    /\ UNCHANGED catalog

SubmitQuery ==
    "run" \in QueryButtons(discovery) /\ Asks(LoadTargets(discovery, discovery.draft, 0, "query"))

ClearFilters ==
    /\ "reset" \in QueryButtons(discovery)
    /\ Asks(LoadTargets([discovery EXCEPT !.draft = "all"], "all", 0, "query"))

RefreshTargets ==
    /\ RefreshButton(discovery)
    /\ Asks(LoadTargets(discovery, discovery.applied, discovery.offset, "refresh"))

TurnTargetPage(button) ==
    /\ button \in Pagination(discovery)
    /\ LET o == discovery.offset IN
       Asks(LoadTargets(discovery, discovery.applied,
                        IF button = "next" THEN o + TargetPageSize
                        ELSE IF o < TargetPageSize THEN 0 ELSE o - TargetPageSize, "query"))

DiscoveryNext ==
    \/ \E r \in discovery.reads : ServeTargets(r) \/ TargetsAnswered(r) \/ TargetsFailed(r)
    \/ \E i \in 1 .. Len(CatalogOrder) : TargetIndexed(i)
    \/ \E f \in TargetFilters : SetFilter(f)
    \/ SubmitQuery \/ ClearFilters \/ RefreshTargets
    \/ \E b \in {"previous", "next"} : TurnTargetPage(b)

-----------------------------------------------------------------------------
(* Once nothing is loaded any more, and without an error, the filters and    *)
(* the page that the catalog claims to show are those of the last question,  *)
(* and the rows lie inside the total that stands above them: a late answer   *)
(* of an earlier query changes neither.                                      *)
LatestTargetsWin ==
    /\ ~discovery.loading /\ ~discovery.updating /\ ~discovery.error =>
          discovery.asked = [filters |-> discovery.applied, offset |-> discovery.offset]
    /\ discovery.targets # <<>> =>
          LET r == ShownRange(discovery) IN r.first <= r.last /\ r.last <= discovery.total
    /\ discovery.applied = "scored" =>
          \A row \in CatalogRows(discovery) : row.transit = "score"

=============================================================================
