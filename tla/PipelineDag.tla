----------------------------- MODULE PipelineDag -----------------------------
(***************************************************************************)
(* The Pipeline DAG page (dashboard/src/pages/pipeline-dag): the live      *)
(* graph, or the history of the run that the URL names, drawn by a canvas  *)
(* that keeps its own nodes, and a drawer that asks for the evidence of    *)
(* one hop.  Events of the stream arm a timer of 350 ms that reads again.  *)
(* A snapshot is a number, 0 when there is none.                           *)
(***************************************************************************)
EXTENDS TicketCatalog, HopEvidence

CONSTANTS
    UpstreamHops, GoldHops,  \* hops before and after the Silver events
    MaxDagReads,             \* bound: requests of one kind on their way at once
    MaxDagSnapshots          \* bound: snapshots of the Gold builder

ASSUME DagConstants ==
    /\ UpstreamHops \cap GoldHops = {}
    /\ MaxDagReads \in Nat \ {0} /\ MaxDagSnapshots \in Nat

VARIABLES
    factory,   \* run and last snapshot of the Gold builder
    dag        \* state of the page and its requests

dagVars == <<factory, dag>>

NoHop == "none"
FactoryIdle == [ticket |-> NoTicket, snapshot |-> 0]
DagServers(open) ==
    IF open THEN [ticket : (Tickets \ NewTickets) \cup {NoTicket}, snapshot : 0 .. MaxDagSnapshots]
    ELSE {FactoryIdle}

OverviewRead(t, loud) == [phase |-> "sent", ticket |-> t, loud |-> loud, body |-> FactoryIdle]
NoDrawer == [hop |-> NoHop, ticket |-> NoTicket]
NoHopData == [hop |-> NoHop, observed |-> FALSE]

(* The page as it mounts for the active ticket t and the run_id r of the URL. *)
MountedDag(t, r) ==
    [run |-> r, historical |-> NoTicket, historyLoading |-> r # NoTicket,
     runReads |-> IF r = NoTicket THEN {} ELSE {[run |-> r, loud |-> TRUE]},
     loading |-> TRUE, graph |-> FALSE, overviews |-> {OverviewRead(t, TRUE)},
     evidence |-> FactoryIdle, cache |-> FactoryIdle, timer |-> FALSE, topic |-> t,
     nodes |-> {}, hop |-> NoHop, hopReads |-> {}, hopData |-> NoHopData]

-----------------------------------------------------------------------------
(* What the page shows.                                                      *)

(* The hops of the page: all of them live, those of Gold for a run. *)
Hops(p) == IF p.run = NoTicket THEN UpstreamHops \cup GoldHops ELSE GoldHops

(* The run whose evidence the Gold hops show. *)
EvidenceRun(p) ==
    IF p.historical # NoTicket THEN p.historical
    ELSE IF p.run # NoTicket THEN NoTicket ELSE p.evidence.ticket

(* The ticket that the badge, the KPI strip and the drawer name. *)
EffectiveTicket(p) == IF p.run # NoTicket THEN p.run ELSE p.topic

CanvasShown(p) == (p.graph \/ ~p.loading) /\ (p.run = NoTicket \/ p.historical # NoTicket)

(* The canvas makes its nodes when it mounts; afterwards it only updates the *)
(* nodes that it has.                                                        *)
Painted(p) ==
    [p EXCEPT !.nodes = IF ~CanvasShown(p) THEN {} ELSE IF @ = {} THEN Hops(p) ELSE @]

Drawer(p) ==
    IF p.hop = NoHop THEN NoDrawer ELSE [hop |-> p.hop, ticket |-> EffectiveTicket(p)]

(* The chart of the drawer: the page lists counts only, so that readiness    *)
(* and catalog are observed when the evidence that was read says so.         *)
DrawerChart(p) ==
    HopChart(p.hop, MergedMetrics([input_records |-> 0],
        IF p.hopData.observed THEN [readiness_observed |-> 1, catalog_observed |-> 1]
        ELSE [input_records |-> 0]))

(* The effect of the drawer: a new hop or ticket is asked for, and the       *)
(* answers to earlier questions are cancelled; without a hop the data goes.  *)
Inspecting(p) ==
    IF Drawer(p) = Drawer(dag) THEN p
    ELSE IF p.hop = NoHop THEN [p EXCEPT !.hopData = NoHopData]
    ELSE [p EXCEPT !.hopReads = @ \cup {Drawer(p)}]

-----------------------------------------------------------------------------
(* loadOverview and loadRun start. *)
LoadDag(p, loud) ==
    [p EXCEPT !.overviews = @ \cup {OverviewRead(p.topic, loud)}, !.loading = @ \/ loud]

LoadRun(p, loud) ==
    IF p.run = NoTicket THEN [p EXCEPT !.historical = NoTicket]
    ELSE [p EXCEPT !.runReads = @ \cup {[run |-> p.run, loud |-> loud]},
                   !.historyLoading = @ \/ loud,
                   !.historical = IF loud THEN NoTicket ELSE @]

(* The effects of a run_id that changed: the timer is cleared and the drawer *)
(* closed, and the run is read.                                              *)
RunSelected(p, r) ==
    IF r = p.run THEN p
    ELSE LoadRun([p EXCEPT !.run = r, !.hop = NoHop, !.timer = FALSE], TRUE)

(* The effects of an active ticket that changed. *)
TicketFollowed(p, t) ==
    IF t = p.topic THEN p
    ELSE LoadDag([p EXCEPT !.topic = t, !.timer = FALSE], TRUE)

DagSettles(p) == dag' = Painted(Inspecting(p))
DagBounded ==
    Cardinality(dag.overviews) < MaxDagReads /\ Cardinality(dag.runReads) < MaxDagReads

DagFollows(p, t) == Painted(Inspecting(TicketFollowed(p, t)))

-----------------------------------------------------------------------------
(* Answers. *)
ServeDag(r) ==
    /\ r.phase = "sent"
    /\ dag' = [dag EXCEPT !.overviews = (@ \ {r}) \cup
                   {[r EXCEPT !.phase = "served", !.body = factory]}]
    /\ UNCHANGED <<factory, ticketVars>>

OverviewDone(p, r) ==
    [p EXCEPT !.overviews = @ \ {r}, !.loading = IF r.loud THEN FALSE ELSE @]

(* The graph and the control state are shown; the evidence of the last       *)
(* snapshot comes from the cache or from another request.                    *)
DagAnswered(r) ==
    LET key == [ticket |-> IF r.body.ticket # NoTicket THEN r.body.ticket ELSE r.ticket,
                snapshot |-> r.body.snapshot]
        p   == [dag EXCEPT !.graph = TRUE]
    IN /\ r.phase = "served"
       /\ DagSettles(
            IF key.ticket = NoTicket \/ key.snapshot = 0
            THEN OverviewDone([p EXCEPT !.cache = FactoryIdle, !.evidence = FactoryIdle], r)
            ELSE IF p.cache = key THEN OverviewDone([p EXCEPT !.evidence = p.cache], r)
            ELSE [p EXCEPT !.overviews = (@ \ {r}) \cup
                      {[r EXCEPT !.phase = "detail", !.body = key]}])
       /\ UNCHANGED <<factory, ticketVars>>

DetailAnswered(r) ==
    /\ r.phase = "detail"
    /\ \/ DagSettles(OverviewDone([dag EXCEPT !.cache = r.body, !.evidence = r.body], r))
       \/ DagSettles(OverviewDone([dag EXCEPT !.evidence = FactoryIdle], r))
    /\ UNCHANGED <<factory, ticketVars>>

DagFailed(r) ==
    /\ r.phase \in {"sent", "served"}
    /\ DagSettles(OverviewDone(dag, r))
    /\ UNCHANGED <<factory, ticketVars>>

(* The run that was read is shown, whichever run is selected by now. *)
RunAnswered(r) ==
    /\ r \in dag.runReads
    /\ \E shown \in {r.run, NoTicket} :
          DagSettles([dag EXCEPT !.runReads = @ \ {r}, !.historical = shown,
                                 !.historyLoading = IF r.loud THEN FALSE ELSE @])
    /\ UNCHANGED <<factory, ticketVars>>

(* Mistake: the effect of the drawer has no cleanup. *)
NeverCancelled(q) == FALSE

(* The evidence of a hop; an answer that was cancelled changes nothing. *)
Cancelled(q) == q # Drawer(dag)

HopAnswered(q) ==
    /\ q \in dag.hopReads
    /\ \E data \in [hop : {q.hop}, observed : BOOLEAN] \cup {dag.hopData} :
          dag' = [dag EXCEPT !.hopReads = @ \ {q}, !.hopData = IF Cancelled(q) THEN @ ELSE data]
    /\ UNCHANGED <<factory, ticketVars>>

(* An event of the stream arms the timer again; then the timer fires. *)
DagEvent ==
    /\ \E s \in factory.snapshot .. MaxDagSnapshots : factory' = [factory EXCEPT !.snapshot = s]
    /\ dag' = [dag EXCEPT !.timer = TRUE]
    /\ UNCHANGED ticketVars

TimerFires ==
    /\ dag.timer /\ DagBounded
    /\ DagSettles(LET p == LoadDag([dag EXCEPT !.timer = FALSE], FALSE)
                  IN IF p.run = NoTicket THEN p ELSE LoadRun(p, FALSE))
    /\ UNCHANGED <<factory, ticketVars>>

-----------------------------------------------------------------------------
(* The operator. *)

(* A node of the canvas is clicked; a hop that is not listed opens nothing. *)
SelectHop(h) ==
    /\ dag.hop = NoHop /\ h \in dag.nodes \cap Hops(dag)
    /\ Cardinality(dag.hopReads) <= MaxDagReads
    /\ DagSettles([dag EXCEPT !.hop = h])
    /\ UNCHANGED <<factory, ticketVars>>

CloseDrawer ==
    /\ dag.hop # NoHop
    /\ DagSettles([dag EXCEPT !.hop = NoHop])
    /\ UNCHANGED <<factory, ticketVars>>

ReturnToLive ==
    /\ dag.run # NoTicket /\ dag.hop = NoHop
    /\ DagSettles(RunSelected(dag, NoTicket))
    /\ UNCHANGED <<factory, ticketVars>>

(* RunnerTicketBar: the ticket becomes the active one and the run_id. *)
SelectRunTicket(t) ==
    /\ dag.hop = NoHop /\ DagBounded
    /\ \/ t # hooks["bar"].active /\ SetActiveTicket("bar", t)
       \/ t \in NewTickets /\ CreateNewTicket(t)
    /\ DagSettles(RunSelected(TicketFollowed(dag, hooks'["page"].active), t))
    /\ UNCHANGED factory

DagNext ==
    \/ \E r \in dag.overviews : ServeDag(r) \/ DagAnswered(r) \/ DetailAnswered(r) \/ DagFailed(r)
    \/ \E r \in dag.runReads : RunAnswered(r)
    \/ \E q \in dag.hopReads : HopAnswered(q)
    \/ DagEvent \/ TimerFires \/ CloseDrawer \/ ReturnToLive
    \/ \E h \in Hops(dag) : SelectHop(h)
    \/ \E t \in Tickets : SelectRunTicket(t)

-----------------------------------------------------------------------------
(* The evidence in the drawer was read for the hop that the drawer shows,    *)
(* and the chart of an observation is drawn on evidence of that hop: the     *)
(* answers for hops that were closed before they arrived are dropped.        *)
DrawerShowsItsHop ==
    /\ dag.hopData # NoHopData => dag.hopData.hop = dag.hop
    /\ DrawerChart(dag) \in {"pairing", "catalog"} => dag.hopData.hop = dag.hop

=============================================================================
