------------------------------ MODULE Overview ------------------------------
(***************************************************************************)
(* The overview (dashboard/src/pages/overview): five endpoints are read    *)
(* together when the page mounts, every 15 seconds and on request.  One    *)
(* that fails leaves its part empty; requests are neither numbered nor     *)
(* given up, so the state shown is that of the load that ended last.       *)
(***************************************************************************)
EXTENDS Integers, Sequences, FiniteSets

CONSTANTS
    OverviewBodies,     \* what the five endpoints may answer at one moment
    MaxOverviewReads    \* bound: loads on their way at once

(* A body: "" and <<>> stand for an endpoint that failed. *)
Bodies ==
    [system : {"", "HEALTHY", "DEGRADED"}, minio : STRING, clickhouse : STRING,
     fleet : Seq([id : STRING, status : {"up", "degraded", "no_data"}, signals : Seq(Seq(Int))]),
     ingest : Seq([observed : BOOLEAN, done : Nat, total : Nat]), targets : Seq(Nat)]

ASSUME OverviewConstants == OverviewBodies \subseteq Bodies /\ MaxOverviewReads \in Nat \ {0}

VARIABLE overview

EmptyState == [system |-> "", minio |-> "", clickhouse |-> "", fleet |-> <<>>, ingest |-> <<>>,
               targets |-> <<>>]

(* The load that mounting starts. *)
MountedOverview ==
    [data |-> EmptyState, loading |-> TRUE, refreshing |-> FALSE, updated |-> FALSE, reads |-> 1]

-----------------------------------------------------------------------------
(* What the page makes of its data d.                                        *)
ComponentTone(status) ==
    CASE status = "up" -> "healthy" [] status = "degraded" -> "partial" [] OTHER -> "silent"
SubsystemTone(value) ==
    CASE value = "" -> "silent" [] value \in {"up", "ready", "healthy"} -> "healthy" [] OTHER -> "partial"

StatusOf(d, id) ==
    IF \E i \in DOMAIN d.fleet : d.fleet[i].id = id
    THEN d.fleet[CHOOSE i \in DOMAIN d.fleet :
                   d.fleet[i].id = id /\ \A j \in 1 .. i - 1 : d.fleet[j].id # id].status
    ELSE "unknown"

Services(d, status) == Cardinality({i \in DOMAIN d.fleet : d.fleet[i].status = status})
FleetTone(d) ==
    CASE Services(d, "no_data") > 0 \/ d.fleet = <<>> -> "silent"
      [] Services(d, "no_data") = 0 /\ Services(d, "degraded") > 0 -> "partial"
      [] OTHER -> "healthy"

(* The newest point of the first metric that has one. *)
LatestSignal(c) ==
    LET seen == {i \in DOMAIN c.signals : c.signals[i] # <<>>}
        first == CHOOSE i \in seen : \A j \in seen : i <= j
    IN IF seen = {} THEN <<>> ELSE <<c.signals[first][Len(c.signals[first])]>>

IngestObserved(d) == d.ingest # <<>> /\ d.ingest[1].observed
IngestProgress(d) ==
    IF d.ingest # <<>> /\ d.ingest[1].total > 0
    THEN LET share == (100 * d.ingest[1].done) \div d.ingest[1].total
         IN IF share > 100 THEN 100 ELSE share
    ELSE 0

Pipeline(d) ==
    [id \in {"go-ingester", "minio", "rust-preprocessor", "python-ml-worker", "rust-inference"} |->
        ComponentTone(StatusOf(d, id))]
PlatformRows(d) ==
    [api |-> IF d.system = "HEALTHY" THEN "healthy" ELSE "silent", minio |-> SubsystemTone(d.minio),
     clickhouse |-> SubsystemTone(d.clickhouse), nats |-> ComponentTone(StatusOf(d, "nats"))]
ServiceRows(d) ==
    [i \in DOMAIN d.fleet |-> [tone |-> ComponentTone(d.fleet[i].status),
                               signal |-> LatestSignal(d.fleet[i])]]
Notices(d) ==
    (IF IngestObserved(d) THEN {} ELSE {"no ingest checkpoint"})
    \cup (IF d.targets = <<0>> THEN {"empty catalog"} ELSE {})
    \cup (IF Services(d, "degraded") > 0 THEN {"partial telemetry"} ELSE {})
    \cup (IF Services(d, "no_data") > 0 THEN {"without telemetry"} ELSE {})

Unavailable(p) == ~p.loading /\ p.data = EmptyState
Summary(p) ==
    IF p.loading THEN "skeleton"
    ELSE [healthy |-> Services(p.data, "up"), of |-> Len(p.data.fleet),
          ingest |-> IF IngestObserved(p.data) THEN IngestProgress(p.data) ELSE 0]
OverviewControls(p) == IF p.refreshing THEN {} ELSE {"refresh"}

-----------------------------------------------------------------------------
LoadOverview(p, manual) == [p EXCEPT !.refreshing = @ \/ manual, !.reads = @ + 1]

RefreshOverview ==
    /\ "refresh" \in OverviewControls(overview) /\ overview.reads < MaxOverviewReads
    /\ overview' = LoadOverview(overview, TRUE)

OverviewTimer ==
    /\ overview.reads < MaxOverviewReads
    /\ overview' = LoadOverview(overview, FALSE)

(* All five have answered or failed. *)
OverviewLoaded(body) ==
    /\ overview.reads > 0
    /\ overview' = [overview EXCEPT !.reads = @ - 1, !.data = body, !.updated = TRUE,
                                    !.loading = FALSE, !.refreshing = FALSE]

OverviewNext ==
    \/ RefreshOverview \/ OverviewTimer
    \/ \E body \in OverviewBodies \cup {EmptyState} : OverviewLoaded(body)

=============================================================================
