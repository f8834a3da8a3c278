---------------------------- MODULE IngestConsole ----------------------------
(***************************************************************************)
(* The Ingest page (dashboard/src/pages/ingest): snapshots of the run's    *)
(* status are fetched, one at a time, at mount, after a command, on the    *)
(* ready event of the stream and on workflow events the page cannot apply  *)
(* itself; the other events change the page in place.  The stream follows  *)
(* the active runner ticket.  The alert of what failed, which nothing      *)
(* reads, is left out.                                                     *)
(***************************************************************************)
EXTENDS TicketCatalog

CONSTANTS
    MaxIngestWorkers,  \* download workers are 1 .. MaxIngestWorkers
    MaxIngestEvents    \* bound: events of the stream on their way at once

ASSUME IngestConstants == MaxIngestWorkers \in Nat /\ MaxIngestEvents \in Nat

VARIABLES
    ingester,   \* what go-ingester would report: status, active downloads
    ingest      \* state of the page, its request and its stream

ingestVars == <<ingester, ingest>>

IngestWorkers == 1 .. MaxIngestWorkers
Busy == {"planning", "running", "downloading", "draining", "cancelling"}
NotReported == "none"
NoReport == [status |-> NotReported, downloading |-> 0]

(* An event of the stream, with its worker or its count of active workers. *)
Event(kind, n) == [kind |-> kind, n |-> n]

(* The page as it mounts: the effect has sent the first request and opened   *)
(* the stream of ticket t.                                                   *)
MountedIngest(t) ==
    [status |-> NotReported, downloading |-> 0, job |-> NotReported,
     busy |-> "no", signals |-> {}, highWater |-> 0,
     load |-> "sent", body |-> NoReport,
     topic |-> t, stream |-> <<Event("ready", 0)>>]

(* The page finds the ingester idle, finished or at work. *)
IngesterIdle == [status |-> "not_observed", downloading |-> 0]
IngestServers(open) ==
    {IngesterIdle} \cup (IF open THEN [status : {"planning", "running", "completed"},
                                      downloading : {0}] ELSE {})

-----------------------------------------------------------------------------
(* What the page derives from its state.                                     *)

ReportedStatus(p) == IF p.status # NotReported THEN p.status ELSE p.job
IsIngesting(p) == ReportedStatus(p) \in Busy \/ p.downloading > 0
IsDraining(p) == ReportedStatus(p) = "draining"

RawSpawned(p) == IF p.downloading > Cardinality(p.signals) THEN p.downloading
                 ELSE Cardinality(p.signals)
SpawnedWorkers(p) ==
    IF IsIngesting(p) /\ p.highWater > RawSpawned(p) THEN p.highWater ELSE RawSpawned(p)

(* IngestWorkerTelemetrySection: one row per spawned worker, with the worker *)
(* whose signal it shows; without one it shows a product of the status, or   *)
(* waits for an assignment.                                                  *)
WorkerRows(p) ==
    [i \in 1 .. SpawnedWorkers(p) |->
        CASE i \in p.signals    -> "signal"
          [] i \notin p.signals /\ i <= p.downloading -> "product"
          [] OTHER              -> "awaiting"]

(* IngestControlSection: the form can be edited, the run launched or         *)
(* stopped.  IngestMetricCardsSection and the product table show numbers of  *)
(* the status, filtered by state.                                            *)
IngestControls(p) ==
    (IF p.busy = "no" /\ ~IsIngesting(p) THEN {"edit", "launch"} ELSE {})
    \cup (IF p.busy = "no" /\ IsIngesting(p) /\ ~IsDraining(p) THEN {"stop"} ELSE {})

-----------------------------------------------------------------------------
(* Mistake: no high-water mark. *)
RenderedUnmarked(p) ==
    IF IsIngesting(ingest) /\ ~IsIngesting(p) THEN [p EXCEPT !.signals = {}] ELSE p

(* What follows every change of the page's state: the high-water mark is     *)
(* raised while rendering, and when the run is over an effect forgets the    *)
(* workers.                                                                  *)
Rendered(p) ==
    IF IsIngesting(ingest) /\ ~IsIngesting(p)
    THEN [p EXCEPT !.signals = {}, !.highWater = 0]
    ELSE IF IsIngesting(p) /\ RawSpawned(p) > p.highWater
    THEN [p EXCEPT !.highWater = RawSpawned(p)]
    ELSE p

(* load joins a request that is on its way. *)
Load(p) == IF p.load # "none" THEN p ELSE [p EXCEPT !.load = "sent"]

(* The effect of an active ticket that changed: load, and subscribe anew.    *)
(* What the old stream still carried is lost.                                *)
IngestFollows(p, t) ==
    IF t = p.topic THEN p ELSE [Load(p) EXCEPT !.topic = t, !.stream = <<Event("ready", 0)>>]

ServeLoad ==
    /\ ingest.load = "sent"
    /\ ingest' = [ingest EXCEPT !.load = "served", !.body = ingester]
    /\ UNCHANGED <<ingester, ticketVars>>

(* A command waits for the load it asked for, and is over with it, whether   *)
(* the load succeeds or not.                                                 *)
LoadEnded(p) == [p EXCEPT !.load = "none", !.body = NoReport, !.busy = IF @ = "loading" THEN "no" ELSE @]

LoadAnswered ==
    /\ ingest.load = "served"
    /\ ingest' = Rendered(LoadEnded([ingest EXCEPT !.status = ingest.body.status,
                                                   !.downloading = ingest.body.downloading]))
    /\ UNCHANGED <<ingester, ticketVars>>

LoadFailed ==
    /\ ingest.load # "none"
    /\ ingest' = LoadEnded(ingest)
    /\ UNCHANGED <<ingester, ticketVars>>

(* The handlers of the stream's events. *)
Applied(p, e) ==
    CASE e.kind = "planning" -> IF p.status = NotReported THEN p
                                ELSE [p EXCEPT !.status = "planning"]
      [] e.kind = "progress" -> IF p.status = NotReported THEN p
                                ELSE [p EXCEPT !.downloading = e.n]
      [] e.kind = "transfer" -> [p EXCEPT !.signals = @ \cup {e.n}]
      [] e.kind = "transfer_complete" -> [p EXCEPT !.signals = @ \ {e.n}]
      [] e.kind \in {"ready", "status"} -> Load(p)

IngestEvent ==
    /\ ingest.stream # <<>>
    /\ ingest' = Rendered(Applied([ingest EXCEPT !.stream = Tail(@)], Head(ingest.stream)))
    /\ UNCHANGED <<ingester, ticketVars>>

(* The connection breaks and EventSource opens it again: what it carried is  *)
(* lost, and the server says ready.                                          *)
StreamReconnects ==
    /\ ingest' = [ingest EXCEPT !.stream = <<Event("ready", 0)>>]
    /\ UNCHANGED <<ingester, ticketVars>>

-----------------------------------------------------------------------------
(* handleStart and handleCancel. *)
Launch ==
    /\ "launch" \in IngestControls(ingest)
    /\ hooks["page"].active # NoTicket
    /\ ingest' = Rendered([ingest EXCEPT !.busy = "starting", !.signals = {}])
    /\ UNCHANGED <<ingester, ticketVars>>

Stop ==
    /\ "stop" \in IngestControls(ingest)
    /\ ingest' = [ingest EXCEPT !.busy = "stopping"]
    /\ UNCHANGED <<ingester, ticketVars>>

(* The ingester accepts the command and its new state is published; the page *)
(* takes the job of the answer and then loads, or joins the load under way.  *)
CommandAnswered ==
    LET accepted == [ingester EXCEPT !.status = IF ingest.busy = "starting" THEN "planning"
                                                ELSE "draining"]
    IN /\ ingest.busy \in {"starting", "stopping"}
       /\ Len(ingest.stream) < MaxIngestEvents
       /\ ingester' = accepted
       /\ ingest' = Rendered([Load(ingest) EXCEPT !.busy = "loading", !.job = accepted.status,
                                                  !.stream = Append(@, Event("status", 0))])
       /\ UNCHANGED ticketVars

CommandFailed ==
    /\ ingest.busy \in {"starting", "stopping"}
    /\ ingest' = [ingest EXCEPT !.busy = "no"]
    /\ UNCHANGED <<ingester, ticketVars>>

(* The ingester goes on by itself; the stream tells the page. *)
IngesterMoves ==
    LET publish(kind, n) == ingest' = [ingest EXCEPT !.stream = Append(@, Event(kind, n))]
        transferring == ingester.status \in {"running", "draining"}
    IN /\ Len(ingest.stream) < MaxIngestEvents
       /\ \/ /\ ingester.status = "planning" /\ publish("planning", 0)
             /\ UNCHANGED ingester
          \/ /\ ingester.status = "planning" /\ publish("status", 0)
             /\ ingester' = [ingester EXCEPT !.status = "running"]
          \/ /\ transferring
             /\ \E n \in (0 .. MaxIngestWorkers) \ {ingester.downloading} :
                    /\ ingester' = [ingester EXCEPT !.downloading = n]
                    /\ publish("progress", n)
          \/ /\ transferring /\ UNCHANGED ingester
             /\ \E w \in IngestWorkers, k \in {"transfer", "transfer_complete"} : publish(k, w)
          \/ /\ transferring /\ publish("status", 0)
             /\ ingester' = [status |-> "completed", downloading |-> 0]
       /\ UNCHANGED ticketVars

IngestAnswers ==
    ServeLoad \/ LoadAnswered \/ LoadFailed \/ IngestEvent \/ CommandAnswered \/ CommandFailed

IngestNext ==
    \/ IngestAnswers \/ IngesterMoves \/ StreamReconnects \/ Launch \/ Stop

-----------------------------------------------------------------------------
(* While a run goes on, before and after a step on the same open page, the   *)
(* rows of the worker field never go away, whatever events and snapshots     *)
(* arrive in whatever order: the high-water mark covers every count that was *)
(* shown.  Once the run is over no row claims the signal of a worker.        *)
WorkerFieldHolds ==
    [][/\ IsIngesting(ingest) /\ IsIngesting(ingest') =>
             DOMAIN WorkerRows(ingest) \subseteq DOMAIN WorkerRows(ingest')
       /\ IsIngesting(ingest) /\ ~IsIngesting(ingest') =>
             \A i \in DOMAIN WorkerRows(ingest') : WorkerRows(ingest')[i] # "signal"]_ingest

=============================================================================
