------------------------ MODULE PreprocessingConsole ------------------------
(***************************************************************************)
(* The Preprocessing page (dashboard/src/pages/preprocessing): the run of  *)
(* the Bronze to Silver workers is read with the DAG graph at mount, every *)
(* 12 seconds and 300 ms after a workflow event; requests overlap and may  *)
(* be answered in any order.  A run is launched for the active ticket and  *)
(* stopped.  The alert of what failed, which nothing reads, is left out.   *)
(***************************************************************************)
EXTENDS TicketCatalog

CONSTANTS
    MaxGraphReads  \* bound: graph requests on their way at once

ASSUME PreprocessingConstants == MaxGraphReads \in Nat \ {0}

VARIABLES
    refiner,   \* the preprocessing run that the server reports
    prep       \* state of the page and its requests

prepVars == <<refiner, prep>>

PrepRun(t, s) == [ticket |-> t, status |-> s]
NoRun == PrepRun(NoTicket, "not_observed")
RefinerRuns == [ticket : Tickets, status : {"accepted", "running", "stopped", "completed"}]
               \cup {NoRun}

(* The page as it mounts, subscribed to the events of ticket t.  The timer   *)
(* of the debounce is set, unset, or cleared without being forgotten.        *)
MountedPrep(t) ==
    [run |-> NoRun, job |-> NoRun, loaded |-> FALSE,
     startBusy |-> FALSE, stopBusy |-> FALSE, command |-> NoRun, served |-> FALSE, mode |-> "stream",
     timer |-> "unset", events |-> {}, topic |-> t,
     reads |-> {[id |-> 1, phase |-> "sent", body |-> NoRun]}]

PrepServers(open) == IF open THEN RefinerRuns ELSE {NoRun}

-----------------------------------------------------------------------------
(* What the page shows: the run of the graph, or else the job of the last    *)
(* answer or event; the control card offers to launch or to stop it.         *)
ActiveRun(p) == IF p.run # NoRun THEN p.run ELSE p.job
PrepRunning(p) == ActiveRun(p).status \in {"running", "accepted"}

PrepControls(p) ==
    (IF PrepRunning(p) THEN {} ELSE {"ticket", "mode"})
    \cup (IF ~PrepRunning(p) /\ ~p.startBusy THEN {"launch"} ELSE {})
    \cup (IF PrepRunning(p) /\ ~p.stopBusy /\ ActiveRun(p).ticket # NoTicket
          THEN {"stop"} ELSE {})

-----------------------------------------------------------------------------
CanReadGraph(p) == Cardinality(p.reads) < MaxGraphReads
GraphId(p) == CHOOSE i \in 1 .. MaxGraphReads : \A r \in p.reads : r.id # i
LoadGraph(p) ==
    [p EXCEPT !.reads = @ \cup {[id |-> GraphId(p), phase |-> "sent", body |-> NoRun]}]

(* The effect of an active ticket that changed: answers to the requests of   *)
(* the old subscription will be ignored, its events are lost, and its timer  *)
(* is cleared while refreshTimer keeps its value.                            *)
PrepFollows(p, t) ==
    IF t = p.topic THEN p
    ELSE LoadGraph([p EXCEPT !.topic = t, !.reads = {}, !.events = {},
                             !.timer = IF @ = "set" THEN "cleared" ELSE @])

ServeGraph(r) ==
    /\ r.phase = "sent"
    /\ prep' = [prep EXCEPT !.reads = (@ \ {r}) \cup
                                {[r EXCEPT !.phase = "served", !.body = refiner]}]
    /\ UNCHANGED <<refiner, ticketVars>>

GraphAnswered(r) ==
    /\ r.phase = "served"
    /\ prep' = [prep EXCEPT !.reads = @ \ {r}, !.run = r.body, !.loaded = TRUE,
                            !.job = IF r.body.ticket # NoTicket THEN r.body ELSE @]
    /\ UNCHANGED <<refiner, ticketVars>>

GraphFailed(r) ==
    /\ prep' = [prep EXCEPT !.reads = @ \ {r}]
    /\ UNCHANGED <<refiner, ticketVars>>

(* The interval of 12 seconds. *)
PollGraph ==
    /\ CanReadGraph(prep)
    /\ prep' = LoadGraph(prep)
    /\ UNCHANGED <<refiner, ticketVars>>

(* A workflow event carries the job; a refresh is scheduled unless           *)
(* refreshTimer says that one is.                                            *)
PrepEvent(job) ==
    /\ job \in prep.events
    /\ prep' = [prep EXCEPT !.events = @ \ {job}, !.job = job,
                            !.timer = IF @ = "unset" THEN "set" ELSE @]
    /\ UNCHANGED <<refiner, ticketVars>>

RefreshGraph ==
    /\ prep.timer = "set" /\ CanReadGraph(prep)
    /\ prep' = [LoadGraph(prep) EXCEPT !.timer = "unset"]
    /\ UNCHANGED <<refiner, ticketVars>>

-----------------------------------------------------------------------------
(* startPreprocessing and stopPreprocessing. *)
LaunchPreprocessing ==
    /\ "launch" \in PrepControls(prep)
    /\ prep' = [prep EXCEPT !.startBusy = TRUE,
                            !.command = PrepRun(hooks["page"].active, "accepted")]
    /\ UNCHANGED <<refiner, ticketVars>>

StopPreprocessing ==
    /\ "stop" \in PrepControls(prep)
    /\ ~prep.startBusy   \* bound: one command on its way at a time
    /\ prep' = [prep EXCEPT !.stopBusy = TRUE,
                            !.command = PrepRun(ActiveRun(prep).ticket, "stopped")]
    /\ UNCHANGED <<refiner, ticketVars>>

(* The server takes the command, unless it names no ticket, and publishes    *)
(* the run.                                                                  *)
ServePrepCommand ==
    /\ (prep.startBusy \/ prep.stopBusy) /\ ~prep.served
    /\ prep.command.ticket # NoTicket
    /\ refiner' = prep.command
    /\ prep' = [prep EXCEPT !.served = TRUE, !.events = {prep.command}]
    /\ UNCHANGED ticketVars

CommandEnded(p) ==
    [p EXCEPT !.startBusy = FALSE, !.stopBusy = FALSE, !.served = FALSE, !.command = NoRun]

(* The answer to a stop also replaces the run of the graph that is shown. *)
PrepCommandAnswered ==
    /\ prep.served
    /\ prep' = CommandEnded([prep EXCEPT !.job = prep.command,
                    !.run = IF prep.stopBusy /\ prep.loaded THEN prep.command ELSE @])
    /\ UNCHANGED <<refiner, ticketVars>>

PrepCommandFailed ==
    /\ prep.startBusy \/ prep.stopBusy
    /\ prep' = CommandEnded(prep)
    /\ UNCHANGED <<refiner, ticketVars>>

ChooseMode(m) ==
    /\ "mode" \in PrepControls(prep)
    /\ prep' = [prep EXCEPT !.mode = m]
    /\ UNCHANGED <<refiner, ticketVars>>

(* The workers go on by themselves; the event of the change replaces one     *)
(* that the page has not seen.                                               *)
RefinerMoves ==
    /\ \/ refiner.status = "accepted" /\ refiner' = [refiner EXCEPT !.status = "running"]
       \/ refiner.status = "running" /\ refiner' = [refiner EXCEPT !.status = "completed"]
    /\ prep' = [prep EXCEPT !.events = {refiner'}]
    /\ UNCHANGED ticketVars

PrepAnswers ==
    \/ \E r \in prep.reads : ServeGraph(r) \/ GraphAnswered(r) \/ GraphFailed(r)
    \/ PollGraph \/ RefreshGraph
    \/ ServePrepCommand \/ PrepCommandAnswered \/ PrepCommandFailed
    \/ \E job \in prep.events : PrepEvent(job)

PrepNext ==
    \/ PrepAnswers \/ RefinerMoves \/ LaunchPreprocessing \/ StopPreprocessing
    \/ \E m \in {"stream", "batch"} : ChooseMode(m)

=============================================================================
