---------------------------- MODULE LakehouseDesk ----------------------------
(***************************************************************************)
(* Datasets & Feature Store (dashboard/src/pages/lakehouse): one listing   *)
(* per medallion tier, three tabs over them, and one page number, prefix   *)
(* and search that belong to the tab on screen.  A query that is on its    *)
(* way is not sent twice; its answer goes to the tier that its prefix      *)
(* names, whatever tab is open by then.  A key is abstracted to its tier,  *)
(* its product directory and whether the searched name occurs in it.  The  *)
(* alert of a failed query, which nothing reads, is left out.              *)
(***************************************************************************)
EXTENDS Selections

CONSTANTS
    LakeObjects,     \* every object that may be stored, in listing order
    SilverPresets,   \* the buttons of the Silver tab
    LakePageSize,    \* 25 in the code
    MaxLakeReads     \* bound: listings on their way at once

ASSUME LakehouseConstants ==
    /\ LakeObjects \in Seq([tier : STRING, sub : STRING, named : BOOLEAN])
    /\ SilverPresets \subseteq {"lightcurve", "target-pixel", "ffi"}
    /\ LakePageSize \in Nat \ {0} /\ MaxLakeReads \in Nat \ {0}

VARIABLES
    lake,        \* the server: the indices of the stored objects
    desk         \* state of the page and its requests

lakeVars == <<lake, desk>>

LakeTiers == {"bronze", "silver", "gold"}
TierRoot(t) == [tier |-> t, sub |-> "all"]
NoListing == [prefix |-> TierRoot("none"), total |-> 0, rows |-> <<>>]

LakeServers(open) == IF open THEN {DOMAIN LakeObjects \cap {1}} ELSE {{}}

-----------------------------------------------------------------------------
(* What the page shows.                                                      *)

ActiveListing(p) == p.slot[p.tab]

(* The pages of the listing on screen; a tier without one has a single page. *)
TotalPages(p) ==
    LET n == ActiveListing(p).total
    IN IF n = 0 THEN 1 ELSE (n + LakePageSize - 1) \div LakePageSize

(* The rows of the table, each a link to the inspector of the object. *)
ObjectRows(p) ==
    IF p.loading THEN {} ELSE {ActiveListing(p).rows[i] : i \in DOMAIN ActiveListing(p).rows}

(* The pages that the four buttons lead to, and those the form accepts. *)
PageButtons(p) ==
    IF p.loading THEN {}
    ELSE (IF p.page <= 1 THEN {} ELSE {1, p.page - 1}) \cup
         (IF p.page >= TotalPages(p) THEN {} ELSE {p.page + 1, TotalPages(p)})
JumpTargets(p) == (1 .. TotalPages(p)) \ {p.page}

(* The inventory: the listing of the tier once there is one, else the summary. *)
TierCard(p, t) ==
    IF p.slot[t] # NoListing THEN p.slot[t].total
    ELSE IF p.summary THEN p.counts[t] ELSE -1

(* What a tab lets the reader ask for: a prefix or a name typed on Bronze    *)
(* and Gold (an empty text is the root of the tab), a preset on Silver.      *)
TabQueries(t) ==
    IF t = "silver" THEN {[prefix |-> [tier |-> "silver", sub |-> s], search |-> FALSE] :
                            s \in SilverPresets}
    ELSE {[prefix |-> TierRoot(t), search |-> TRUE], [prefix |-> TierRoot(t), search |-> FALSE]} \cup
         {[prefix |-> TierRoot(u), search |-> FALSE] : u \in {"silver", "other"}}

-----------------------------------------------------------------------------
LoadTier(p, prefix, page, search) ==
    LET query == [prefix |-> prefix, page |-> page, search |-> search] IN
    IF query \in p.inFlight THEN p
    ELSE [p EXCEPT !.inFlight = @ \cup {query}, !.loading = TRUE,
                   !.reads = @ \cup {[query |-> query, phase |-> "sent", body |-> NoListing]}]

MountedDesk ==
    LoadTier([tab |-> "gold", slot |-> [t \in LakeTiers |-> NoListing], summary |-> FALSE,
              counts |-> [t \in LakeTiers |-> 0], summaryAsked |-> TRUE,
              prefix |-> TierRoot("gold"), page |-> 1, search |-> FALSE, loading |-> FALSE,
              inFlight |-> {}, reads |-> {}],
             TierRoot("gold"), 1, FALSE)

Lists(p) == Cardinality(p.reads) <= MaxLakeReads /\ desk' = p /\ UNCHANGED lake

Stored(prefix, search) ==
    InOrder({i \in lake : /\ LakeObjects[i].tier = prefix.tier
                          /\ prefix.sub \in {"all", LakeObjects[i].sub}
                          /\ search => LakeObjects[i].named})

(* go-api lists the prefix and cuts out the page (external). *)
ServeListing(r) ==
    LET all == Stored(r.query.prefix, r.query.search)
        start == (r.query.page - 1) * LakePageSize
        end == IF start + LakePageSize > Len(all) THEN Len(all) ELSE start + LakePageSize
    IN /\ r.phase = "sent"
       /\ desk' = [desk EXCEPT !.reads = (@ \ {r}) \cup
             {[r EXCEPT !.phase = "served",
                        !.body = [prefix |-> r.query.prefix, total |-> Len(all),
                                  rows |-> IF start < Len(all) THEN SubSeq(all, start + 1, end)
                                           ELSE <<>>]]}]
       /\ UNCHANGED lake

(* Mistake: an answer goes to the tab that is open. *)
SlotOfTab(p, r) == p.tab

(* setBronzeData, setSilverData or setGoldData, after the prefix asked for. *)
SlotOfAnswer(p, r) == r.query.prefix.tier

TierAnswered(r) ==
    LET t == SlotOfAnswer(desk, r)
        p == [desk EXCEPT !.reads = @ \ {r}, !.inFlight = @ \ {r.query}, !.loading = FALSE]
    IN /\ r.phase = "served"
       /\ desk' = IF t \in LakeTiers THEN [p EXCEPT !.slot[t] = r.body] ELSE p
       /\ UNCHANGED lake

TierFailed(r) ==
    /\ desk' = [desk EXCEPT !.reads = @ \ {r}, !.inFlight = @ \ {r.query},
                            !.loading = FALSE]
    /\ UNCHANGED lake

(* The summary of the three tiers; a failure is not reported. *)
SummaryAnswered ==
    /\ desk.summaryAsked
    /\ \E ok \in BOOLEAN : desk' =
         [desk EXCEPT !.summaryAsked = FALSE, !.summary = ok,
                      !.counts = IF ok THEN [t \in LakeTiers |-> Len(Stored(TierRoot(t), FALSE))]
                                 ELSE @]
    /\ UNCHANGED lake

ObjectStored(i) == i \notin lake /\ lake' = lake \cup {i} /\ UNCHANGED desk

-----------------------------------------------------------------------------
TabChange(t) ==
    LET p == [desk EXCEPT !.tab = t, !.page = 1, !.search = FALSE, !.prefix = TierRoot(t)]
    IN /\ t # desk.tab
       /\ Lists(IF desk.slot[t] # NoListing THEN p ELSE LoadTier(p, TierRoot(t), 1, FALSE))

SearchOrFilter(q) ==
    /\ q \in TabQueries(desk.tab)
    /\ Lists(LoadTier([desk EXCEPT !.page = 1, !.prefix = q.prefix, !.search = q.search],
                      q.prefix, 1, q.search))

PageChange(n) ==
    /\ n \in PageButtons(desk) \cup JumpTargets(desk)
    /\ Lists(LoadTier([desk EXCEPT !.page = n], desk.prefix, n, desk.search))

LakeNext ==
    \/ \E r \in desk.reads : ServeListing(r) \/ TierAnswered(r) \/ TierFailed(r)
    \/ SummaryAnswered
    \/ \E i \in 1 .. Len(LakeObjects) : ObjectStored(i)
    \/ \E t \in LakeTiers : TabChange(t)
    \/ \E q \in TabQueries(desk.tab) : SearchOrFilter(q)
    \/ \E n \in 1 .. Len(LakeObjects) : PageChange(n)

-----------------------------------------------------------------------------
(* The listing kept for a tier, and so every row of its tab and the number   *)
(* on its card, is of objects of that tier, also when the tab was left while *)
(* the answer was on its way or the prefix typed into it was of another one. *)
ListingOfTier ==
    /\ \A t \in LakeTiers : desk.slot[t] # NoListing =>
          /\ desk.slot[t].prefix.tier = t
          /\ TierCard(desk, t) >= Len(desk.slot[t].rows)
    /\ \A i \in ObjectRows(desk) : LakeObjects[i].tier = desk.tab

=============================================================================
