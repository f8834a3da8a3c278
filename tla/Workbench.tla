------------------------------ MODULE Workbench ------------------------------
(***************************************************************************)
(* The pages of the dashboard that do not follow the runner ticket, one of *)
(* which the router (dashboard/src/App.tsx) shows at a time: the AI        *)
(* factory (labeling, training, model evaluation, evolution evidence and   *)
(* inference), target discovery and analysis, monitoring, the lakehouse,   *)
(* the object inspector, the lineage explorer and the overview.  Leaving a *)
(* page drops its state and the answers still on their way to it, and      *)
(* opening one mounts it afresh.  Only the scope of the labeling studio is *)
(* kept, in the storage of the browser, where it may hold what an earlier  *)
(* visit left.                                                             *)
(***************************************************************************)
EXTENDS LabelingStudio, TrainingLab, ModelDesk, TargetDiscovery, TargetDetail,
        MonitoringDesk, LakehouseDesk, ObjectInspector, LineageExplorer, Overview

CONSTANT WorkPages   \* the pages that are opened

ASSUME WorkPagesAssumption ==
    WorkPages \subseteq {"labeling", "training", "evaluation", "evolution", "inference",
                        "discovery", "detail", "monitoring", "lakehouse", "inspector", "lineage", "overview"}

VARIABLE view

factoryVars == <<labelVars, trainVars, modelVars>>
observatoryVars == <<discoveryVars, detailVars, monitorVars>>
storeVars == <<lakeVars, inspector, ledgerVars, overview>>
vars == <<view, factoryVars, observatoryVars, storeVars>>

(* A page that is not open is represented by its state right after mounting. *)
Init ==
    /\ view = "start"
    /\ storedScope = NoScope
    /\ cohort \in LabelServers(FALSE) /\ studio = MountedStudio(NoScope)
    /\ trainer \in TrainServers(FALSE) /\ lab = MountedLab
    /\ jobs \in ModelServers(FALSE) /\ engine = MountedEngine
    /\ evidence = MountedEvidence("evaluation")
    /\ catalog \in CatalogServers(FALSE) /\ discovery = MountedDiscovery
    /\ insight \in InsightServers(FALSE) /\ detail = MountedDetail
    /\ telemetry \in MonitorServers(FALSE)
    /\ monitor = MountedMonitor(CHOOSE c \in Monitored : TRUE)
    /\ lake \in LakeServers(FALSE) /\ desk = MountedDesk
    /\ inspector = MountedInspector("")
    /\ ledger \in LedgerServers(FALSE) /\ explorer = MountedExplorer
    /\ overview = MountedOverview

Mounts(p) ==
    /\ cohort' \in LabelServers(p = "labeling")
    /\ \E stored \in (IF p = "labeling" THEN SUBSET Snapshots ELSE {}) \cup {NoScope} :
          /\ studio' = MountedStudio(stored)
          /\ storedScope' = IF p = "labeling" THEN ScopeAtMount(stored) ELSE NoScope
    /\ trainer' \in TrainServers(p = "training") /\ lab' = MountedLab
    /\ jobs' \in ModelServers(p = "evolution") /\ engine' = MountedEngine
    /\ evidence' = MountedEvidence(IF p = "evolution" THEN "evolution" ELSE "evaluation")
    /\ catalog' \in CatalogServers(p = "discovery") /\ discovery' = MountedDiscovery
    /\ insight' \in InsightServers(p = "detail") /\ detail' = MountedDetail
    /\ telemetry' \in MonitorServers(p = "monitoring")
    /\ monitor' = MountedMonitor(CHOOSE c \in Monitored : TRUE)
    /\ lake' \in LakeServers(p = "lakehouse") /\ desk' = MountedDesk
    /\ \E k \in (IF p = "inspector" THEN InspectedKeys ELSE {""}) : inspector' = MountedInspector(k)
    /\ ledger' \in LedgerServers(p = "lineage") /\ explorer' = MountedExplorer
    /\ overview' = MountedOverview

Leave == view # "start" /\ view' = "start" /\ Mounts("start")
Open(p) == view = "start" /\ view' = p /\ Mounts(p)

InFactory ==
    /\ \/ view = "labeling" /\ LabelNext /\ UNCHANGED <<trainVars, modelVars>>
       \/ view = "training" /\ LabNext /\ UNCHANGED <<labelVars, modelVars>>
       \/ /\ view \in {"evaluation", "evolution"} /\ EvidenceNext
          /\ UNCHANGED <<labelVars, trainVars>>
       \/ view = "inference" /\ EngineNext /\ UNCHANGED <<labelVars, trainVars>>
    /\ UNCHANGED <<view, observatoryVars, storeVars>>

InObservatory ==
    /\ \/ view = "discovery" /\ DiscoveryNext /\ UNCHANGED <<detailVars, monitorVars>>
       \/ view = "detail" /\ DetailNext /\ UNCHANGED <<discoveryVars, monitorVars>>
       \/ view = "monitoring" /\ MonitorNext /\ UNCHANGED <<discoveryVars, detailVars>>
    /\ UNCHANGED <<view, factoryVars, storeVars>>

InStore ==
    /\ \/ view = "lakehouse" /\ LakeNext /\ UNCHANGED <<inspector, ledgerVars, overview>>
       \/ view = "inspector" /\ InspectorNext /\ UNCHANGED <<lakeVars, ledgerVars, overview>>
       \/ view = "lineage" /\ LineageNext /\ UNCHANGED <<lakeVars, inspector, overview>>
       \/ view = "overview" /\ OverviewNext /\ UNCHANGED <<lakeVars, inspector, ledgerVars>>
    /\ UNCHANGED <<view, factoryVars, observatoryVars>>

Next ==
    \/ Leave
    \/ \E p \in WorkPages : Open(p)
    \/ InFactory \/ InObservatory \/ InStore

Spec == Init /\ [][Next]_vars

-----------------------------------------------------------------------------
(* A page that says it is loading has a request on its way whose answer will *)
(* end the loading, also where the answers of overlapping requests end it:   *)
(* no failure and no order of the answers leaves a spinner behind for good,  *)
(* or the buttons that it disables.  And exactly the listings on their way   *)
(* are held back from being asked again: one that failed can be asked for    *)
(* once more.                                                                *)
SpinnersHaveRequests ==
    /\ studio.loading => \E r \in studio.reads : Newest(r)
    /\ discovery.loading \/ discovery.updating => \E r \in discovery.reads : LatestRequest(r)
    /\ monitor.loading => \E r \in monitor.reads : CurrentRequest(r)
    /\ inspector.loading => inspector.reads # {}
    /\ explorer.loading => explorer.reads # {}
    /\ desk.loading => desk.reads # {}
    /\ overview.loading \/ overview.refreshing => overview.reads > 0
    /\ desk.inFlight = {r.query : r \in desk.reads}

=============================================================================
