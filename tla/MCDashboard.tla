----------------------------- MODULE MCDashboard -----------------------------
(* Instances of the dashboard: an empty ticket table or one with a ticket,   *)
(* and a ticket whose preprocessing may fail after its ingest was completed. *)
EXTENDS Dashboard

CONSTANTS t1, t2

SomeTables == {<<>>, <<t1>>}
OneTable == {<<t1>>}

ARun(t, pipeline, status, updated, finished) ==
    [ticket |-> t, pipeline |-> pipeline, status |-> status, started |-> 1,
     updated |-> updated, finished |-> finished]
Ingested == ARun(t1, "bronze_ingest", "completed", 2, 2)
OneHistory == {<<Ingested>>}
TwoHistories == {<<ARun(t1, "silver_preprocess", "failed", 3, 0), Ingested>>, <<Ingested>>}

=============================================================================
