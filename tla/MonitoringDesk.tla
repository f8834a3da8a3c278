--------------------------- MODULE MonitoringDesk ---------------------------
(***************************************************************************)
(* Monitoring (dashboard/src/pages/monitoring): the telemetry of one       *)
(* component over one time range, both kept in the address of the page.    *)
(* A change of either, the refresh button, the retry button and a timer    *)
(* ask again; requests are numbered and only the answer of the latest one  *)
(* is shown.                                                               *)
(***************************************************************************)
EXTENDS Integers, FiniteSets

CONSTANTS
    Monitored,       \* the components of the selector
    TimeRanges,      \* the ranges of the header
    SignalStates,    \* what Prometheus may hold of a component
    MaxMonitorReads  \* bound: requests on their way at once

MetricKeys == {"gpu_available", "gpu_memory_used", "gpu_memory_total", "throughput", "errors"}

(* The last value of every metric that has points, and the status.           *)
ASSUME MonitoringConstants ==
    /\ Monitored # {} /\ TimeRanges # {} /\ SignalStates # {} /\ MaxMonitorReads \in Nat \ {0}
    /\ \A s \in SignalStates :
          /\ s.status \in {"up", "degraded", "no_data"}
          /\ DOMAIN s.last \subseteq MetricKeys
          /\ \A k \in DOMAIN s.last : s.last[k] \in Nat

VARIABLES
    telemetry,   \* the server: the signals of every component
    monitor      \* state of the page and its requests

monitorVars == <<telemetry, monitor>>

NoResponse == [component |-> "none", range |-> "none", status |-> "none", last |-> <<>>]
AutoRefresh == {"off", "30s"}   \* 15s, 30s and 60s differ in time only

MonitorServers(open) ==
    IF open THEN [Monitored -> SignalStates] ELSE {[c \in Monitored |-> CHOOSE s \in SignalStates : TRUE]}

-----------------------------------------------------------------------------
(* What the grid makes of an answer.                                         *)

LastOf(r, key) == IF key \in DOMAIN r.last THEN r.last[key] ELSE 0

HiddenMetricKeys(r) ==
    {"gpu_available"} \cup
    (IF r.component = "python-ml-worker" /\ LastOf(r, "gpu_available") = 0
     THEN {"gpu_memory_used", "gpu_memory_total"} ELSE {})

(* CapacityChart: the share of the total, clamped, in percent. *)
Utilization(used, total) ==
    IF total = 0 THEN -1 ELSE IF used > total THEN 100 ELSE (100 * used) \div total

MetricDisplays(r) ==
    LET shown == (DOMAIN r.last \ HiddenMetricKeys(r)) \ {"gpu_memory_total"}
        capacity(k) == k = "gpu_memory_used" /\ "gpu_memory_total" \in DOMAIN r.last
    IN {[key |-> k,
         kind |-> IF capacity(k) THEN "capacity" ELSE "metric",
         value |-> IF capacity(k) THEN Utilization(r.last[k], r.last["gpu_memory_total"])
                   ELSE r.last[k]] : k \in shown}

TelemetryGrid(p) ==
    LET selected == p.response # NoResponse
        displays == IF selected THEN MetricDisplays(p.response) ELSE {}
    IN [shows |-> IF p.loading /\ ~selected THEN "skeleton"
                  ELSE IF p.error THEN "interrupted"
                  ELSE IF displays # {} THEN "charts" ELSE "no signals",
        charts |-> displays]

(* The dot of a component in the selector. *)
StatusDot(p, c) ==
    IF p.statuses[c] # "none" THEN p.statuses[c]
    ELSE IF c = p.component THEN p.response.status ELSE "none"

RefreshOffered(p) == ~p.loading

-----------------------------------------------------------------------------
LoadTelemetry(p) ==
    [p EXCEPT !.reads = {[r EXCEPT !.latest = FALSE] : r \in @} \cup
                        {[component |-> p.component, range |-> p.range, phase |-> "sent",
                          body |-> NoResponse, latest |-> TRUE]},
              !.loading = TRUE, !.error = FALSE]

MountedMonitor(c) ==
    LoadTelemetry([component |-> c, range |-> CHOOSE r \in TimeRanges : TRUE,
                   response |-> NoResponse, loading |-> TRUE, error |-> FALSE, auto |-> "30s",
                   statuses |-> [m \in Monitored |-> "none"], reads |-> {}])

Queries(p) ==
    Cardinality(p.reads) <= MaxMonitorReads /\ monitor' = p /\ UNCHANGED telemetry

(* go-api asks Prometheus (external). *)
ServeTelemetry(r) ==
    /\ r.phase = "sent"
    /\ monitor' = [monitor EXCEPT !.reads = (@ \ {r}) \cup
          {[r EXCEPT !.phase = "served",
                     !.body = [component |-> r.component, range |-> r.range,
                               status |-> telemetry[r.component].status,
                               last |-> telemetry[r.component].last]]}]
    /\ UNCHANGED telemetry

(* Mistake: the number of the request is not compared. *)
CurrentUnchecked(r) == TRUE

(* requestID === requestSequence.current *)
CurrentRequest(r) == r.latest

TelemetryAnswered(r) ==
    LET p == [monitor EXCEPT !.reads = @ \ {r}] IN
    /\ r.phase = "served"
    /\ monitor' = IF ~CurrentRequest(r) THEN p
                  ELSE [p EXCEPT !.response = r.body, !.loading = FALSE,
                                 !.statuses[r.component] = r.body.status]
    /\ UNCHANGED telemetry

TelemetryFailed(r) ==
    LET p == [monitor EXCEPT !.reads = @ \ {r}] IN
    /\ monitor' = IF ~CurrentRequest(r) THEN p ELSE [p EXCEPT !.error = TRUE, !.loading = FALSE]
    /\ UNCHANGED telemetry

SignalsChange(c, s) ==
    /\ s # telemetry[c]
    /\ telemetry' = [telemetry EXCEPT ![c] = s]
    /\ UNCHANGED monitor

(* updateQuery changes the address; load is new with it and runs. *)
SelectComponent(c) == c # monitor.component /\ Queries(LoadTelemetry([monitor EXCEPT !.component = c]))
SelectRange(r) == r # monitor.range /\ Queries(LoadTelemetry([monitor EXCEPT !.range = r]))

SetAutoRefresh(a) ==
    /\ a # monitor.auto
    /\ monitor' = [monitor EXCEPT !.auto = a]
    /\ UNCHANGED telemetry

RefreshTelemetry == RefreshOffered(monitor) /\ Queries(LoadTelemetry(monitor))
RetryQuery == TelemetryGrid(monitor).shows = "interrupted" /\ Queries(LoadTelemetry(monitor))
RefreshTick == monitor.auto # "off" /\ Queries(LoadTelemetry(monitor))

MonitorNext ==
    \/ \E r \in monitor.reads : ServeTelemetry(r) \/ TelemetryAnswered(r) \/ TelemetryFailed(r)
    \/ \E c \in Monitored, s \in SignalStates : SignalsChange(c, s)
    \/ \E c \in Monitored : SelectComponent(c)
    \/ \E r \in TimeRanges : SelectRange(r)
    \/ \E a \in AutoRefresh : SetAutoRefresh(a)
    \/ RefreshTelemetry \/ RetryQuery \/ RefreshTick

-----------------------------------------------------------------------------
(* Charts that stand without a running query and without an error are those  *)
(* of the component and the range that the header names, whatever was        *)
(* selected while they were on their way, and the dot of that component      *)
(* agrees with them.                                                         *)
TelemetryOfChoice ==
    TelemetryGrid(monitor).shows \in {"charts", "no signals"} /\ ~monitor.loading =>
        /\ monitor.response.component = monitor.component
        /\ monitor.response.range = monitor.range
        /\ StatusDot(monitor, monitor.component) = monitor.response.status

=============================================================================
