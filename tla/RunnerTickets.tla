---------------------------- MODULE RunnerTickets ----------------------------
(***************************************************************************)
(* The Runner Tickets page (dashboard/src/pages/runner-tickets): the run   *)
(* history is read from go-api at mount, whenever the selected ticket      *)
(* changes and, debounced, after workflow events; tickets and runs are     *)
(* joined into one record per ticket, listed, filtered and inspected.      *)
(* A run is a record with its ticket, pipeline, status and the times at    *)
(* which it started, was updated and finished (0: not recorded).           *)
(***************************************************************************)
EXTENDS TicketCatalog

CONSTANTS
    RunTables,    \* what the server may have recorded: lists of runs, newest first
    MaxRunReads   \* bound: run-history requests on their way at once

RunRecords == [ticket : Tickets, pipeline : STRING, status : STRING,
               started : Nat, updated : Nat, finished : Nat]

ASSUME DeskConstants == RunTables \subseteq Seq(RunRecords) /\ MaxRunReads \in Nat \ {0}

FACTORY_RUN_HISTORY_LIMIT == 100

VARIABLES
    runTable,     \* the runs recorded by the server
    desk          \* state of the page, and its requests

deskVars == <<runTable, desk>>

(* The page as it mounts: its effect has sent the first, visible request. *)
MountedDesk ==
    [runs |-> <<>>, selected |-> NoTicket,
     loading |-> TRUE, timer |-> FALSE, event |-> FALSE,
     reads |-> {[id |-> 1, loud |-> TRUE, phase |-> "sent", body |-> <<>>]}]

(* What the server may hold when the page opens; a page that is closed needs *)
(* no server.                                                                *)
DeskServers(open) == IF open THEN RunTables ELSE {<<>>}

-----------------------------------------------------------------------------
(* What the page derives from its state.                                     *)

StageOf(r) == CASE r.pipeline \in {"bronze_ingest", "ingest"}              -> "ingest"
                [] r.pipeline \in {"silver_preprocess", "preprocessing"}   -> "silver"
                [] r.pipeline \in {"silver_to_gold", "enrichment"}         -> "gold"

RunsOf(t) == ElementsAt(desk.runs, {i \in DOMAIN desk.runs : desk.runs[i].ticket = t})

(* Mistake: one completed stage completes the ticket. *)
OverallStatusLenient(t) ==
    LET statuses == {r.status : r \in ToSet(RunsOf(t))} IN
    IF "running" \in statuses THEN "running"
    ELSE IF "completed" \in statuses THEN "completed" ELSE "idle"

OverallStatus(t) ==
    LET statuses == {r.status : r \in ToSet(RunsOf(t))} IN
    IF statuses \cap {"running", "draining", "catalog_syncing"} # {} THEN "running"
    ELSE IF statuses \cap {"failed", "error"} # {} THEN "failed"
    ELSE IF statuses = {"completed"} THEN "completed" ELSE "idle"

(* One record per ticket of the catalog and per ticket that has a run; the   *)
(* order by creation time is left out.                                       *)
TicketRecords == ToSet(hooks["page"].tickets) \cup {r.ticket : r \in ToSet(desk.runs)}

(* What is typed into the search field is not kept: it may match any set of  *)
(* tickets.                                                                  *)
FilteredTickets(matches) == TicketRecords \cap matches

(* TicketListCard: a spinner before anything is known, then a row for every  *)
(* record that matches, or none.                                             *)
TicketList(matches) ==
    IF desk.loading /\ TicketRecords = {} THEN [shows |-> "loading", rows |-> {}]
    ELSE IF FilteredTickets(matches) = {} THEN [shows |-> "none", rows |-> {}]
    ELSE [shows |-> "rows", rows |-> FilteredTickets(matches)]

(* TicketSummaryStrip and executionHealth, a percentage rounded to the       *)
(* nearest integer.                                                          *)
Summary ==
    LET count(S) == Cardinality({i \in DOMAIN desk.runs : desk.runs[i].status \in S})
        done  == count({"completed"})
        ended == IF done + count({"failed", "error"}) = 0 THEN 1
                 ELSE done + count({"failed", "error"})
    IN [tickets |-> Cardinality(TicketRecords), runs |-> Len(desk.runs),
        completed |-> Cardinality({t \in TicketRecords : OverallStatus(t) = "completed"}),
        health |-> IF desk.runs = <<>> THEN 100 ELSE (200 * done + ended) \div (2 * ended)]

(* When a run ended, as far as the inspector can tell: an update after the   *)
(* start counts as an end.                                                   *)
EndTime(r) == IF r.finished # 0 THEN r.finished
              ELSE IF r.updated # r.started THEN r.updated ELSE 0

EndAction(r) == CASE r.status \in {"failed", "error"} -> "failed"
                  [] r.status = "completed"           -> "completed"
                  [] OTHER                            -> "stopped"

(* RunnerTicketInspector: the actions it lists for the selected ticket; a    *)
(* ticket without runs shows its own creation.                               *)
History(t) ==
    LET runs    == ToSet(RunsOf(t))
        started == {[at |-> r.started, action |-> "started"] : r \in {x \in runs : x.started # 0}}
        ended   == {[at |-> EndTime(r), action |-> EndAction(r)] :
                        r \in {x \in runs : EndTime(x) # 0}}
    IN IF started \cup ended # {} THEN started \cup ended
       ELSE IF t \in TicketRecords THEN {[at |-> 0, action |-> "started"]} ELSE {}

-----------------------------------------------------------------------------
(* Operations.                                                               *)

CanReadRuns(d) == Cardinality(d.reads) < MaxRunReads
NextId(d) == CHOOSE i \in 1 .. MaxRunReads : \A r \in d.reads : r.id # i

(* loadRuns(showLoading): requests are neither joined nor numbered. *)
LoadRuns(d, loud) ==
    [d EXCEPT !.reads = @ \cup {[id |-> NextId(d), loud |-> loud, phase |-> "sent",
                                 body |-> <<>>]},
              !.loading = IF loud THEN TRUE ELSE @]

(* selectRun changes the URL, and with it the function that the mount effect *)
(* depends on: the effect runs again and loads the history once more.        *)
Selected(d, t) == IF d.selected = t THEN d ELSE LoadRuns([d EXCEPT !.selected = t], TRUE)

SelectTicket(t) ==
    /\ \E matches \in SUBSET Tickets : t \in TicketList(matches).rows
    /\ t # desk.selected => CanReadRuns(desk)
    /\ desk' = Selected(desk, t)
    /\ UNCHANGED <<runTable, ticketVars>>

(* handleCreateNew: the ticket is created and selected, and both lists are   *)
(* loaded, the catalog by a request that may overtake the creation.          *)
HandleCreateNew(t) ==
    /\ creations[t] = "unused" /\ CanRead
    /\ Cardinality(desk.reads) + 2 <= MaxRunReads
    /\ creations' = [creations EXCEPT ![t] = "sent"]
    /\ catalog' = [catalog EXCEPT !.active = t, !.inflight = FreshId]
    /\ reads' = reads \cup {NewRead({}, {"page"})}
    /\ hooks' = [Announced(hooks, t) EXCEPT !["page"].loading = TRUE]
    /\ desk' = LoadRuns(Selected(desk, t), FALSE)
    /\ UNCHANGED <<ticketTable, runTable>>

(* The newest runs, as many as the page asks for (TicketClickHouse.ListRuns). *)
Listed(table) ==
    SubSeq(table, 1, IF Len(table) > FACTORY_RUN_HISTORY_LIMIT THEN FACTORY_RUN_HISTORY_LIMIT
                     ELSE Len(table))

ServeRuns(r) ==
    /\ r.phase = "sent"
    /\ desk' = [desk EXCEPT !.reads = (@ \ {r}) \cup {[r EXCEPT !.phase = "served",
                                                                !.body = Listed(runTable)]}]
    /\ UNCHANGED <<runTable, ticketVars>>

(* After a load of the mount effect the first run is selected, when nothing  *)
(* is selected by then.                                                      *)
RunsAnswered(r) ==
    LET done == [desk EXCEPT !.reads = @ \ {r}, !.runs = r.body,
                             !.loading = IF r.loud THEN FALSE ELSE @]
    IN /\ r.phase = "served"
       /\ desk' = IF r.loud /\ desk.selected = NoTicket /\ r.body # <<>>
                  THEN Selected(done, Head(r.body).ticket) ELSE done
       /\ UNCHANGED <<runTable, ticketVars>>

RunsFailed(r) ==
    /\ desk' = [desk EXCEPT !.reads = @ \ {r},
                            !.loading = IF r.loud THEN FALSE ELSE @]
    /\ UNCHANGED <<runTable, ticketVars>>

(* A pipeline records progress, and go-api publishes a workflow event. *)
PipelineProgress(table) ==
    /\ table # runTable /\ ~desk.event
    /\ runTable' = table
    /\ desk' = [desk EXCEPT !.event = TRUE]
    /\ UNCHANGED ticketVars

(* scheduleRefresh: an event restarts the timer. *)
WorkflowEvent ==
    /\ desk.event
    /\ desk' = [desk EXCEPT !.event = FALSE, !.timer = TRUE]
    /\ UNCHANGED <<runTable, ticketVars>>

RefreshTimer ==
    /\ desk.timer /\ CanReadRuns(desk)
    /\ desk' = [LoadRuns(desk, FALSE) EXCEPT !.timer = FALSE]
    /\ LoadTickets("page")
    /\ UNCHANGED runTable

DeskAnswers ==
    \/ \E r \in desk.reads : ServeRuns(r) \/ RunsAnswered(r) \/ RunsFailed(r)
    \/ WorkflowEvent \/ RefreshTimer

DeskNext ==
    \/ DeskAnswers
    \/ \E t \in Tickets : SelectTicket(t)
    \/ \E t \in NewTickets : HandleCreateNew(t)
    \/ \E table \in RunTables : PipelineProgress(table)

-----------------------------------------------------------------------------
(* The list and the inspector compute a ticket's fate separately and agree:  *)
(* a completed ticket lists no end but completions, and one whose history    *)
(* has a failure is shown as failed unless a later stage still runs, and     *)
(* then the strip above the list reports less than full health.              *)
HistoryAgrees ==
    "page" \in DOMAIN hooks => \A t \in TicketRecords :
        LET ends == {a.action : a \in History(t)} \ {"started"} IN
        /\ OverallStatus(t) = "completed" => ends \subseteq {"completed"}
        /\ "failed" \in ends => /\ OverallStatus(t) \in {"failed", "running"}
                                /\ Summary.health < 100

=============================================================================
