------------------------------ MODULE Dashboard ------------------------------
(***************************************************************************)
(* The dashboard (dashboard/src/App.tsx): the router shows one page at a   *)
(* time.                                                                   *)
(***************************************************************************)
EXTENDS RunnerTickets, IngestConsole, PreprocessingConsole, EnrichmentConsole,
        PipelineDag

CONSTANTS OpenPages

VARIABLES route

vars == <<route, ticketVars, deskVars, ingestVars, prepVars, goldVars, dagVars>>

HooksOf(p) ==
    CASE p = "ingest" -> {"page", "control"}
      [] p = "dag" -> {"page", "bar"}
      [] p \in {"tickets", "preprocessing", "enrichment"} -> {"page"}
      [] OTHER -> {}

(* No page is shown yet. *)
Init ==
    /\ TicketInit /\ route = "start"
    /\ runTable \in DeskServers(FALSE) /\ desk = MountedDesk
    /\ ingester \in IngestServers(FALSE) /\ ingest = MountedIngest(NoTicket)
    /\ refiner \in PrepServers(FALSE) /\ prep = MountedPrep(NoTicket)
    /\ builder \in GoldServers(FALSE) /\ gold = MountedGold(NoTicket)
    /\ factory \in DagServers(FALSE) /\ dag = MountedDag(NoTicket, NoTicket)

(* The page p is shown in place of the one before, whose state is dropped:   *)
(* a page that is not open is represented by its state right after mounting. *)
(* Pages follow each other through "start", which shows none of them.        *)
Navigate(p) ==
    LET topic(q) == IF p = q THEN hooks'["page"].active ELSE NoTicket IN
    /\ p # route /\ "start" \in {p, route} /\ route' = p
    /\ MountHooks(HooksOf(p))
    /\ runTable' \in DeskServers(p = "tickets") /\ desk' = MountedDesk
    /\ ingester' \in IngestServers(p = "ingest") /\ ingest' = MountedIngest(topic("ingest"))
    /\ refiner' \in PrepServers(p = "preprocessing") /\ prep' = MountedPrep(topic("preprocessing"))
    /\ builder' \in GoldServers(p = "enrichment") /\ gold' = MountedGold(topic("enrichment"))
    /\ factory' \in DagServers(p = "dag")
    /\ \E r \in (IF p = "dag" THEN Tickets \ NewTickets ELSE {}) \cup {NoTicket} :
           dag' = MountedDag(topic("dag"), r)

KeepPages(S) ==
    /\ "tickets" \in S => UNCHANGED deskVars
    /\ "ingest" \in S => UNCHANGED ingestVars
    /\ "preprocessing" \in S => UNCHANGED prepVars
    /\ "enrichment" \in S => UNCHANGED goldVars
    /\ "dag" \in S => UNCHANGED dagVars

AllPages == {"tickets", "ingest", "preprocessing", "enrichment", "dag"}

(* The page that is shown reacts to a change of the active ticket. *)
Follow ==
    /\ KeepPages(AllPages \ (IF HooksOf(route) = {} THEN {} ELSE {route}))
    /\ route = "tickets" => UNCHANGED deskVars
    /\ route = "ingest" =>
           ingest' = IngestFollows(ingest, hooks'["page"].active) /\ UNCHANGED ingester
    /\ route = "preprocessing" =>
           prep' = PrepFollows(prep, hooks'["page"].active) /\ UNCHANGED refiner
    /\ route = "enrichment" =>
           gold' = GoldFollows(gold, hooks'["page"].active) /\ UNCHANGED builder
    /\ route = "dag" =>
           dag' = DagFollows(dag, hooks'["page"].active) /\ UNCHANGED factory

SelectorOpen ==
    \/ route = "ingest" /\ "edit" \in IngestControls(ingest)
    \/ route = "preprocessing" /\ "ticket" \in PrepControls(prep)
    \/ route = "enrichment" /\ "edit" \in GoldControls(gold)

Next ==
    \/ \E p \in OpenPages \cup {"start"} : Navigate(p)
    \/ TicketAnswers /\ Follow /\ UNCHANGED route
    \/ /\ SelectorOpen
       /\ \E h \in DOMAIN hooks, t \in Tickets : SetActiveTicket(h, t)
       /\ Follow /\ UNCHANGED route
    \/ route = "tickets" /\ DeskNext /\ KeepPages(AllPages \ {route}) /\ UNCHANGED route
    \/ route = "ingest" /\ IngestNext /\ KeepPages(AllPages \ {route}) /\ UNCHANGED route
    \/ route = "preprocessing" /\ PrepNext /\ KeepPages(AllPages \ {route}) /\ UNCHANGED route
    \/ route = "enrichment" /\ GoldNext /\ KeepPages(AllPages \ {route}) /\ UNCHANGED route
    \/ route = "dag" /\ DagNext /\ KeepPages(AllPages \ {route}) /\ UNCHANGED route

Spec == Init /\ [][Next]_vars

-----------------------------------------------------------------------------
(* Whatever a page shows as under way, and the controls it disables for it,  *)
(* has a request on its way that will end it: no order of answers, failures, *)
(* events and changes of the active ticket leaves a page waiting for nothing.*)
BusyPagesWait ==
    /\ route = "tickets" /\ TicketList(Tickets).shows = "loading" => \E r \in desk.reads : r.loud
    /\ ingest.busy = "loading" => ingest.load # "none"
    /\ prep.stopBusy \/ prep.startBusy => prep.command # NoRun
    /\ gold.busy = "loading" => gold.request # "none"
    /\ LedgerTable(gold).reading <=> gold.history.phase = "sent"
    /\ dag.loading => \E r \in dag.overviews : r.loud
    /\ dag.historyLoading => \E r \in dag.runReads : r.loud
=============================================================================
