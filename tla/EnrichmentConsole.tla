-------------------------- MODULE EnrichmentConsole --------------------------
(***************************************************************************)
(* The Data Enrichment page (dashboard/src/pages/enrichment): the control  *)
(* state of the Gold builder is polled every 5 seconds, one request at a   *)
(* time; events of the stream update the runtime and the workers in        *)
(* between; the ledger of the run that the control state names is read     *)
(* when that run, or its last snapshot, changes.  A snapshot is a number,  *)
(* 0 when there is none.  The alert of what failed, which nothing reads,   *)
(* is left out.                                                            *)
(***************************************************************************)
EXTENDS TicketCatalog

CONSTANTS
    GoldWorkers,    \* builder processes
    MaxSnapshots,   \* bound: snapshots committed
    MaxGoldEvents   \* bound: events of the stream on their way at once

ASSUME EnrichmentConstants ==
    IsFiniteSet(GoldWorkers) /\ MaxSnapshots \in Nat /\ MaxGoldEvents \in Nat

VARIABLES
    builder,   \* control and runtime state of the Gold builder
    gold       \* state of the page, its requests and its stream

goldVars == <<builder, gold>>

BuilderIdle == [mode |-> "PAUSED", ticket |-> NoTicket, snapshot |-> 0]
Builders == [mode : {"PAUSED", "STREAM"}, ticket : Tickets \cup {NoTicket},
             snapshot : 0 .. MaxSnapshots]
GoldServers(open) == IF open THEN Builders ELSE {BuilderIdle}
NoHistory == [ticket |-> NoTicket, phase |-> "none"]

(* The page as it mounts, subscribed to the events of ticket t. *)
MountedGold(t) ==
    [loaded |-> FALSE, overview |-> BuilderIdle, request |-> "sent", body |-> BuilderIdle,
     detail |-> NoTicket, history |-> NoHistory, historyLoading |-> FALSE,
     workers |-> [w \in GoldWorkers |-> "none"], busy |-> "no",
     topic |-> t, stream |-> <<>>]

-----------------------------------------------------------------------------
(* What the page shows.                                                      *)

IsFrozen(p) == p.loaded /\ p.overview.mode = "PAUSED"

(* EnrichmentControlCard: the form and the launch button while frozen, the   *)
(* freeze button otherwise.                                                  *)
GoldControls(p) ==
    IF p.busy # "no" THEN {} ELSE IF IsFrozen(p) THEN {"edit", "launch"} ELSE {"freeze"}

(* AssemblySequenceCard: the workers whose last event is not their end.      *)
ActiveWorkers(p) == {w \in GoldWorkers : p.workers[w] \notin {"none", "KILLED"}}

(* MaterializedSnapshotsTable: the batches of the run that was read; a badge *)
(* says that the ledger is being read.                                       *)
LedgerTable(p) == [of |-> p.detail, reading |-> p.historyLoading]

-----------------------------------------------------------------------------
(* loadHistory: without a run the ledger is cleared; a request on its way    *)
(* makes the call return without a trace.                                    *)
LoadHistory(p, t) ==
    IF t = NoTicket THEN [p EXCEPT !.detail = NoTicket]
    ELSE IF p.history.phase # "none" THEN p
    ELSE [p EXCEPT !.history = [ticket |-> t, phase |-> "sent"], !.historyLoading = TRUE]

(* The effect of an overview whose run or last snapshot changed. *)
Observed(p) ==
    IF /\ p.overview.ticket = gold.overview.ticket
       /\ p.overview.snapshot = gold.overview.snapshot
    THEN p ELSE LoadHistory(p, p.overview.ticket)

LoadOverview(p) == IF p.request # "none" THEN p ELSE [p EXCEPT !.request = "sent"]

(* The effect of an active ticket that changed. *)
GoldFollows(p, t) ==
    IF t = p.topic THEN p ELSE [LoadOverview(p) EXCEPT !.topic = t, !.stream = <<>>]

ServeOverview ==
    /\ gold.request = "sent"
    /\ gold' = [gold EXCEPT !.request = "served", !.body = builder]
    /\ UNCHANGED <<builder, ticketVars>>

(* Mistake: nothing ends the command that waits. *)
OverviewEndedBusy(p) == [p EXCEPT !.request = "none", !.body = BuilderIdle]

(* A command waits for the overview that it asked for. *)
OverviewEnded(p) == [p EXCEPT !.request = "none", !.body = BuilderIdle,
                                  !.busy = IF @ = "loading" THEN "no" ELSE @]

OverviewAnswered ==
    /\ gold.request = "served"
    /\ gold' = Observed(OverviewEnded([gold EXCEPT !.overview = gold.body, !.loaded = TRUE]))
    /\ UNCHANGED <<builder, ticketVars>>

OverviewFailed ==
    /\ gold.request # "none"
    /\ gold' = OverviewEnded(gold)
    /\ UNCHANGED <<builder, ticketVars>>

PollOverview ==
    /\ gold.request = "none"
    /\ gold' = LoadOverview(gold)
    /\ UNCHANGED <<builder, ticketVars>>

HistoryAnswered ==
    /\ gold.history.phase = "sent"
    /\ gold' = [gold EXCEPT !.detail = gold.history.ticket, !.history = NoHistory,
                            !.historyLoading = FALSE]
    /\ UNCHANGED <<builder, ticketVars>>

HistoryFailed ==
    /\ gold.history.phase = "sent"
    /\ gold' = [gold EXCEPT !.detail = NoTicket, !.history = NoHistory,
                            !.historyLoading = FALSE]
    /\ UNCHANGED <<builder, ticketVars>>

-----------------------------------------------------------------------------
(* The stream: events of the runtime, and of one worker.                     *)
WorkerEvent(w, action, t) == [kind |-> "worker", worker |-> w, action |-> action, of |-> t]
RuntimeEvent(s) == [kind |-> "runtime", snapshot |-> s]

(* The last event of a worker stands for it, whatever later overviews say; a *)
(* commit asks for the ledger of its ticket.                                 *)
GoldEvent ==
    LET e == Head(gold.stream)
        p == [gold EXCEPT !.stream = Tail(@)]
    IN /\ gold.stream # <<>>
       /\ gold' = IF e.kind = "runtime"
                  THEN IF p.loaded THEN Observed([p EXCEPT !.overview.snapshot = e.snapshot])
                       ELSE p
                  ELSE LET q == [p EXCEPT !.workers[e.worker] = e.action]
                       IN IF e.action = "SNAPSHOT_COMMITTED" THEN LoadHistory(q, e.of) ELSE q
       /\ UNCHANGED <<builder, ticketVars>>

(* A broken connection loses what it carried. *)
GoldReconnects ==
    /\ gold.stream # <<>>
    /\ gold' = [gold EXCEPT !.stream = <<>>]
    /\ UNCHANGED <<builder, ticketVars>>

(* The builder reports its workers and commits snapshots. *)
BuilderMoves ==
    /\ builder.mode = "STREAM" /\ Len(gold.stream) < MaxGoldEvents
    /\ \/ \E w \in GoldWorkers, a \in {"MATERIALIZING", "KILLED"} :
              /\ gold' = [gold EXCEPT !.stream = Append(@, WorkerEvent(w, a, builder.ticket))]
              /\ UNCHANGED builder
       \/ /\ builder.snapshot < MaxSnapshots
          /\ builder' = [builder EXCEPT !.snapshot = @ + 1]
          /\ \E e \in {RuntimeEvent(builder.snapshot + 1)} \cup
                      {WorkerEvent(w, "SNAPSHOT_COMMITTED", builder.ticket) : w \in GoldWorkers} :
                 gold' = [gold EXCEPT !.stream = Append(@, e)]
    /\ UNCHANGED ticketVars

-----------------------------------------------------------------------------
(* start and stop.  After the command the overview is loaded; when a poll is *)
(* under way the page takes the overview it has and goes on.                 *)
GoldCommand(name) ==
    /\ name \in GoldControls(gold)
    /\ gold' = [gold EXCEPT !.busy = name]
    /\ UNCHANGED <<builder, ticketVars>>

GoldCommandAnswered ==
    /\ gold.busy \in {"launch", "freeze"}
    /\ builder' = IF gold.busy = "launch"
                  THEN [builder EXCEPT !.mode = "STREAM", !.ticket = hooks["page"].active]
                  ELSE [builder EXCEPT !.mode = "PAUSED"]
    /\ gold' = IF gold.request = "none" THEN [LoadOverview(gold) EXCEPT !.busy = "loading"]
               ELSE [gold EXCEPT !.busy = "no"]
    /\ UNCHANGED ticketVars

GoldCommandFailed ==
    /\ gold.busy \in {"launch", "freeze"}
    /\ gold' = [gold EXCEPT !.busy = "no"]
    /\ UNCHANGED <<builder, ticketVars>>

GoldAnswers ==
    \/ ServeOverview \/ OverviewAnswered \/ OverviewFailed \/ PollOverview
    \/ HistoryAnswered \/ HistoryFailed \/ GoldEvent
    \/ GoldCommandAnswered \/ GoldCommandFailed

GoldNext ==
    \/ GoldAnswers \/ BuilderMoves \/ GoldReconnects
    \/ \E c \in {"launch", "freeze"} : GoldCommand(c)

=============================================================================
