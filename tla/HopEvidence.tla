----------------------------- MODULE HopEvidence -----------------------------
(***************************************************************************)
(* What the Pipeline DAG page makes of the evidence of a hop               *)
(* (dashboard/src/pages/pipeline-dag): the status of its node, the chart   *)
(* of its drawer and the counts of that chart.  Metrics are a function     *)
(* from the keys that were reported to integers; a status is in lower      *)
(* case, as the page compares it.                                          *)
(***************************************************************************)
EXTENDS Integers, Sequences, FiniteSets

NotObserved == "not_observed"

(* goldBuilderStatus and hopStatus. *)
GoldBuilderStatus(state) ==
    IF state \in {"running", "draining", "frozen", "idle", "catalog_syncing", "failed"}
    THEN state ELSE NotObserved

HopStatus(value, fallback) ==
    IF value \in {"failed", "error"} THEN "failed"
    ELSE IF value \in {"completed", "running", "draining", "idle", "catalog_syncing", "frozen"}
    THEN value ELSE fallback

(* The evidence that a hop before Gold has left in the totals of the graph. *)
UpstreamEvidence(hop, total) ==
    CASE hop = "bronze" -> total.bronze > 0 /\ total.bronzeBytes > 0
      [] hop = "route" -> total.bronze > 0
      [] hop \in {"lc-quality", "lc-transform", "lc-parquet"} -> total.lightcurves > 0
      [] hop \in {"tpf-quality", "tpf-transform", "tpf-parquet"} -> total.targetPixels > 0
      [] hop = "silver" -> total.silver > 0 /\ total.silverBytes > 0
      [] hop = "checkpoint" -> total.checkpoints > 0
      [] hop \in {"lineage", "event", "ack"} -> total.checkpoints > 0 /\ total.silver > 0
      [] OTHER -> FALSE

UpstreamStatus(hop, history, reported, total) ==
    IF history \/ (reported = "completed" /\ ~UpstreamEvidence(hop, total))
    THEN NotObserved ELSE reported

-----------------------------------------------------------------------------
(* The hops of Gold.  An event of a component has its hop, status and input, *)
(* and says whether it names a snapshot.                                     *)
EventsOf(events, hop) == SelectSeq(events, LAMBDA e : e.hop = hop)
CompletedInput(e) == e.status = "completed" /\ e.input > 0 /\ e.snapshot

(* The coarse event of the features stands for every fine phase. *)
PhaseEvidence(events, hop) ==
    \E i \in DOMAIN events :
        /\ events[i].hop = hop \/ (events[i].hop = "gold-features" /\ events[i].output > 0)
        /\ CompletedInput(events[i])

EvidencedPhaseStatus(events, hop, evidence, fallback) ==
    LET own      == EventsOf(events, hop)
        reported == IF own = <<>> THEN fallback ELSE HopStatus(own[Len(own)].status, fallback)
    IN IF evidence THEN "completed"
       ELSE IF reported = "completed" THEN NotObserved ELSE reported

FinePhaseStatus(events, hop, runStatus) ==
    EvidencedPhaseStatus(events, hop, PhaseEvidence(events, hop), runStatus)

(* The live status of the phase number stage, from what the workers of the   *)
(* builder that are not killed say they do.                                  *)
LiveFineStatus(actions, stage, builder) ==
    IF "SNAPSHOT_COMMITTED" \in actions THEN "completed"
    ELSE IF "COMMITTING_SNAPSHOT" \in actions
    THEN IF stage < 8 THEN "completed" ELSE IF stage = 8 THEN "running" ELSE NotObserved
    ELSE IF "MATERIALIZING_AND_INDEXING" \in actions
    THEN IF stage < 2 THEN "completed" ELSE IF stage < 8 THEN "running" ELSE NotObserved
    ELSE IF "SYNCING_CATALOGS" \in actions
    THEN IF stage = 0 THEN "completed" ELSE IF stage = 1 THEN "running" ELSE NotObserved
    ELSE IF actions \cap {"RETRYING_CATALOG_SYNC", "FAILED_RETRY_SCHEDULED"} # {}
    THEN IF stage = 1 THEN "retry" ELSE NotObserved
    ELSE IF stage = 0 THEN builder ELSE NotObserved

CommitEvidence(batches) ==
    \E i \in DOMAIN batches : batches[i].status = "completed" /\ batches[i].rows > 0
                              /\ batches[i].indexed > 0 /\ batches[i].snapshot

(* Live, a snapshot of any earlier time completes the last hop. *)
GoldCommitStatus(history, events, batches, goldTotal, runStatus) ==
    IF history
    THEN EvidencedPhaseStatus(events, "gold-commit", CommitEvidence(batches), runStatus)
    ELSE IF goldTotal > 0 THEN "completed" ELSE runStatus

-----------------------------------------------------------------------------
(* The chart of the drawer, by the hop and by what was observed of it; the   *)
(* other hops have a chart of their own.                                     *)
HopChart(hop, metrics) ==
    LET observed(key) == key \in DOMAIN metrics /\ metrics[key] = 1 IN
    CASE hop = "gold-pairing" -> IF observed("readiness_observed") THEN "pairing" ELSE "gold-phase"
      [] hop = "gold-catalog" -> IF observed("catalog_observed") THEN "catalog" ELSE "gold-phase"
      [] hop \in {"decode", "lc-quality"} -> "quality-mask"
      [] hop \in {"gold-lc-features", "gold-bls"} -> "light-curve-features"
      [] hop \in {"gold-parquet", "gold-index", "gold-commit"} -> "gold-commit"
      [] hop \in {"bronze", "route", "transform", "lc-transform", "lc-parquet", "tpf-quality",
                  "tpf-transform", "tpf-parquet", "silver", "checkpoint", "lineage", "event",
                  "ack", "gold-tpf-evidence", "gold-candidate"} -> hop
      [] OTHER -> "stage-evidence"

(* The metrics of the page, overridden by those that the drawer has read. *)
MergedMetrics(listed, read) ==
    [k \in DOMAIN listed \cup DOMAIN read |-> IF k \in DOMAIN read THEN read[k] ELSE listed[k]]

(* The hops whose formulas and terms the drawer knows; another hop shows the *)
(* formula that it declares.                                                 *)
ScientificReference(hop, declared) ==
    IF hop \in {"bronze", "route", "lc-quality", "tpf-quality", "lc-transform", "tpf-transform",
                "lc-parquet", "tpf-parquet", "silver", "checkpoint", "lineage", "event", "ack",
                "gold-pairing", "gold-catalog", "gold-lc-features", "gold-bls",
                "gold-tpf-evidence", "gold-candidate", "gold-parquet", "gold-index",
                "gold-commit"}
    THEN hop ELSE declared

-----------------------------------------------------------------------------
(* The counts of the charts.  A metric that is missing or not positive       *)
(* counts as zero, and zero falls through to the next source.                *)
Metric(metrics, key) ==
    IF key \in DOMAIN metrics /\ metrics[key] > 0 THEN metrics[key] ELSE 0

Or(a, b) == IF a # 0 THEN a ELSE b
AtLeastZero(n) == IF n > 0 THEN n ELSE 0
Given(metrics, key, otherwise) ==
    IF key \in DOMAIN metrics THEN AtLeastZero(metrics[key]) ELSE AtLeastZero(otherwise)

AckCounts(m) ==
    LET lc       == Or(Metric(m, "acknowledged_lightcurves"), Metric(m, "silver_lightcurves"))
        tpf      == Or(Metric(m, "acknowledged_target_pixels"), Metric(m, "silver_target_pixels"))
        messages == Or(Metric(m, "stream_messages"), Or(Metric(m, "bronze_total_files"),
                    Or(Metric(m, "completed_products"), Or(Metric(m, "silver_objects"), lc + tpf))))
        unacked  == Metric(m, "ack_pending") + Metric(m, "pending")
    IN [messages |-> messages, unacked |-> unacked,
        acknowledged |-> Or(Metric(m, "acknowledged_stream_positions"),
                         Or(Metric(m, "acknowledged_deliveries"), AtLeastZero(messages - unacked)))]

(* capacity 0 stands for a batch without a limit. *)
PairingCounts(m) ==
    LET ready    == Metric(m, "ready_lightcurves")
        missing  == Metric(m, "missing_tpf")
        pending  == Or(Metric(m, "pending_lightcurves"), ready + missing)
        capacity == Metric(m, "max_batch_records")
    IN [ready |-> ready, missing |-> missing, pending |-> pending,
        contracted |-> Or(Metric(m, "contracted_lightcurves"), pending),
        firstBatch |-> IF capacity > 0 /\ capacity < ready THEN capacity ELSE ready]

(* One TIC record is taken to resolve every target. *)
CatalogCounts(m) ==
    LET targets == Or(Metric(m, "catalog_target_count"), Metric(m, "input_records"))
        missing == IF Metric(m, "tic_records") > 0 THEN 0 ELSE targets
    IN [targets |-> targets, missing |-> missing, resolved |-> targets - missing,
        cacheHit |-> Metric(m, "catalog_cache_hit") = 1]

(* The inventory of the checkpoints, or the metrics where there is none. *)
CheckpointCounts(m, checkpoints, points) ==
    LET total == Or(Len(checkpoints), Or(Metric(m, "checkpoint_total"), points))
        completed == IF checkpoints # <<>> THEN Cardinality({i \in DOMAIN checkpoints : checkpoints[i].state = "COMPLETED"})
                     ELSE Given(m, "checkpoint_completed", total)
        ready == IF checkpoints # <<>> THEN Cardinality({i \in DOMAIN checkpoints : checkpoints[i].resume = "reuse_and_ack"})
                 ELSE Given(m, "resume_ready", completed)
    IN [total |-> total, completed |-> completed, ready |-> ready,
        loss |-> Given(m, "compute_loss_risk", total - ready)]

PublishCounts(m, points) ==
    LET eligible == Or(Metric(m, "eligible_artifacts"), points)
    IN [eligible |-> eligible, emissions |-> Or(Metric(m, "event_emissions"), eligible),
        consumers |-> Or(Metric(m, "event_consumers"), 1),
        pendingAck |-> Metric(m, "nats_pending_ack")]

LedgerCounts(m, points) ==
    LET committed == Or(Metric(m, "lineage_committed"), Or(Metric(m, "completed_products"),
                     Or(Metric(m, "silver_objects"), points)))
    IN [committed |-> committed, pending |-> Metric(m, "lineage_pending"),
        verified |-> Or(Metric(m, "dual_hash_verified"), committed)]

=============================================================================
