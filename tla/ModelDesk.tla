------------------------------ MODULE ModelDesk ------------------------------
(***************************************************************************)
(* The AI factory pages over registered runtime packages: model evaluation *)
(* and evolution evidence (one package selected, its evidence read by an   *)
(* effect that gives up the read of the package before), and the inference *)
(* engine (the jobs of the selected package, filtered and paged, with a    *)
(* button that queues a job again).  Alerts, which nothing reads, are left *)
(* out of the inference engine.                                            *)
(***************************************************************************)
EXTENDS EvaluationBoard

CONSTANTS
    Packages,       \* the registered packages, in the order of the registry
    JobModel,       \* for every job, the package it is bound to
    Evaluations,    \* for every package, what its evaluator wrote
    JobOrder,       \* the jobs in the order of the listing
    JobCreated,     \* when every job was created
    JobOutcomes,    \* how a worker may end a job
    JobFilters,     \* the status filters in use
    JobPageSize,    \* 12 in the code
    FootprintBars,  \* 16 in the code: the jobs of the footprint chart
    MaxJobReads,    \* bound: loads of the inference engine on their way at once
    MaxQueuePosts   \* bound: requests to queue the same job on their way at once

PackageIds == {Packages[i].id : i \in DOMAIN Packages}
Jobs == DOMAIN JobModel
NoPackage == "none"

(* go-api answers with the manifest of the package that was asked for.       *)
ASSUME ModelDeskConstants ==
    /\ Packages \in Seq(PackageRecords) /\ Evaluations \in [PackageIds -> EvaluationRecords]
    /\ NoPackage \notin PackageIds
    /\ \A id \in PackageIds : Evaluations[id].package \in {"", id}
    /\ JobModel \in [Jobs -> PackageIds]
    /\ JobOutcomes \subseteq {"completed", "failed"}
    /\ JobFilters \subseteq {"all", "planned", "active", "completed", "failed"}
    /\ JobOrder \in Seq(Jobs) /\ JobPageSize \in Nat \ {0} /\ MaxJobReads \in Nat \ {0}
    /\ MaxQueuePosts \in Nat \ {0} /\ FootprintBars \in Nat \ {0}
    /\ JobCreated \in [Jobs -> Nat]

VARIABLES
    jobs,        \* the server: the status of every job, and the requests for it
    evidence,    \* state of model evaluation or evolution evidence
    engine       \* state of the inference engine

modelVars == <<jobs, evidence, engine>>

PackageOf(id) == Packages[CHOOSE i \in DOMAIN Packages : Packages[i].id = id]

ModelServers(open) ==
    [status : IF open THEN [Jobs -> {"planned", "completed"}] ELSE {[j \in Jobs |-> "planned"]},
     wanted : {{}}]

-----------------------------------------------------------------------------
(* Evaluation and evolution.  kind says which of the two pages it is.        *)
MountedEvidence(kind) ==
    [kind |-> kind, listing |-> TRUE, loaded |-> FALSE, listError |-> FALSE,
     selected |-> NoPackage, shown |-> NoPackage, loading |-> FALSE, error |-> FALSE, reads |-> {}]

(* What the page shows of its subject. *)
EvidencePane(p) ==
    IF p.kind = "evaluation" /\ p.listing /\ ~p.loaded THEN "loading packages"
    ELSE IF ~p.loaded \/ p.selected = NoPackage THEN "no package"
    ELSE IF p.loading THEN "loading evidence"
    ELSE IF p.error \/ p.shown = NoPackage THEN "unavailable" ELSE "evidence"

(* The jobs of a package: bound to it, or to another package of its model. *)
JobsOfPackage ==
    [id \in PackageIds |-> ElementsAt(JobOrder, {i \in DOMAIN JobOrder :
                           \/ JobModel[JobOrder[i]] = id
                           \/ PackageOf(JobModel[JobOrder[i]]).model = PackageOf(id).model})]

(* What the panels are given: the evaluation that was read, the record of    *)
(* the selected package, and the jobs linked with it.                        *)
EvaluationShown(p) == Evaluations[p.shown]
LinkedJobs(p) == JobsOfPackage[p.selected]
EvolutionRail(p) ==
    PipelineRail(EvaluationShown(p), PackageOf(p.selected),
                 Cardinality({i \in DOMAIN LinkedJobs(p) : jobs.status[LinkedJobs(p)[i]] = "completed"}),
                 Len(LinkedJobs(p)))
EvolutionFootprint(p) == Footprint(LinkedJobs(p), JobCreated, FootprintBars)

(* The packages that the selector, the sidebar or the ledger lets choose. *)
Choosable(p) == IF p.loaded THEN PackageIds \ {p.selected} ELSE {}

(* Mistake: the effect has no cleanup. *)
KeepRead(r) == r

(* The effect of the selected package; its cleanup sets the active of the    *)
(* read before to false.                                                     *)
GiveUpRead(r) == [r EXCEPT !.active = FALSE]
EvidenceEffect(p) ==
    [p EXCEPT !.reads = {GiveUpRead(r) : r \in @} \cup {[pkg |-> p.selected, active |-> TRUE]},
              !.loading = TRUE, !.shown = NoPackage, !.error = FALSE]

PackagesAnswered ==
    /\ evidence.listing
    /\ evidence' =
         LET p == [evidence EXCEPT !.listing = FALSE, !.loaded = TRUE]
         IN IF Packages = <<>> THEN p
            ELSE EvidenceEffect([p EXCEPT !.selected = Packages[1].id])
    /\ UNCHANGED <<jobs, engine>>

PackagesFailed ==
    /\ evidence.listing
    /\ evidence' = [evidence EXCEPT !.listing = FALSE, !.listError = TRUE]
    /\ UNCHANGED <<jobs, engine>>

SelectPackage(id) ==
    /\ id \in Choosable(evidence)
    /\ evidence' = EvidenceEffect([evidence EXCEPT !.selected = id])
    /\ UNCHANGED <<jobs, engine>>

PackageEvidenceAnswered(r) ==
    LET p == [evidence EXCEPT !.reads = @ \ {r}]
    IN /\ \E ok \in BOOLEAN : evidence' =
            IF ~r.active THEN p
            ELSE IF ok THEN [p EXCEPT !.shown = r.pkg, !.loading = FALSE]
            ELSE [p EXCEPT !.error = TRUE, !.loading = FALSE]
       /\ UNCHANGED <<jobs, engine>>

-----------------------------------------------------------------------------
(* The inference engine: what its table makes of the jobs that were read.    *)
ActiveStatus(s) == s \in {"running", "retrying", "queued"}
MatchesFilter(f, s) == CASE f = "all" -> TRUE [] f = "active" -> ActiveStatus(s) [] OTHER -> s = f

SelectedModel(e) == IF e.runtime = NoPackage THEN Packages[1] ELSE PackageOf(e.runtime)

ModelJobs(e) ==
    IF ~e.loaded \/ Packages = <<>> THEN <<>> ELSE JobsOfPackage[SelectedModel(e).id]
Filtered(e) ==
    ElementsAt(ModelJobs(e),
               {i \in DOMAIN ModelJobs(e) : MatchesFilter(e.filter, e.status[ModelJobs(e)[i]])})
PageCount(e) ==
    LET n == Len(Filtered(e)) IN IF n = 0 THEN 1 ELSE (n + JobPageSize - 1) \div JobPageSize
JobRows(e) ==
    LET all == Filtered(e)
        last == IF e.page * JobPageSize > Len(all) THEN Len(all) ELSE e.page * JobPageSize
    IN SubSeq(all, (e.page - 1) * JobPageSize + 1, last)

InspectedJob(e) ==
    IF \E i \in DOMAIN ModelJobs(e) : ModelJobs(e)[i] = e.job THEN {e.job}
    ELSE IF JobRows(e) # <<>> THEN {JobRows(e)[1]}
    ELSE IF ModelJobs(e) # <<>> THEN {ModelJobs(e)[1]} ELSE {}

(* Only a package that passed every gate may run. *)
RuntimeVerified(pkg) == pkg.status # "invalid" /\ StatusPass(pkg.parity) /\ StatusPass(pkg.integrity)

(* The button of a row and of the inspector. *)
QueueOffered(e, j) ==
    /\ j \in InspectedJob(e) \cup {JobRows(e)[i] : i \in DOMAIN JobRows(e)}
    /\ e.queueing # j /\ RuntimeVerified(SelectedModel(e)) /\ ~ActiveStatus(e.status[j])

(* Mistake: the page number outlives its page. *)
KeepPage(e) == e

(* The effects that follow every change of what is filtered. *)
KeepPageInRange(e) == IF e.page > PageCount(e) THEN [e EXCEPT !.page = PageCount(e)] ELSE e

-----------------------------------------------------------------------------
LoadJobs(e, refresh) ==
    [e EXCEPT !.refreshing = @ \/ refresh, !.loading = @ \/ ~refresh,
              !.reads = @ \cup {[phase |-> "sent", body |-> e.status]}]

MountedEngine ==
    LoadJobs([loaded |-> FALSE, runtime |-> NoPackage, status |-> [j \in Jobs |-> "planned"],
              filter |-> "all", page |-> 1, job |-> "none", queueing |-> "none",
              posts |-> [j \in Jobs |-> 0],
              loading |-> FALSE, refreshing |-> FALSE, reads |-> {}], FALSE)

ServeJobs(r) ==
    /\ r.phase = "sent"
    /\ engine' = [engine EXCEPT !.reads = (@ \ {r}) \cup {[phase |-> "served", body |-> jobs.status]}]
    /\ UNCHANGED <<jobs, evidence>>

(* The first answer selects a package, whose effect goes back to page 1. *)
JobsAnswered(r) ==
    LET e == [engine EXCEPT !.reads = @ \ {r}, !.loaded = TRUE, !.status = r.body,
                            !.loading = FALSE, !.refreshing = FALSE]
    IN /\ r.phase = "served"
       /\ engine' = KeepPageInRange(
             IF e.runtime # NoPackage \/ Packages = <<>> THEN e
             ELSE [e EXCEPT !.runtime = Packages[1].id, !.page = 1, !.job = "none"])
       /\ UNCHANGED <<jobs, evidence>>

JobsFailed(r) ==
    /\ engine' = [engine EXCEPT !.reads = @ \ {r}, !.loading = FALSE, !.refreshing = FALSE]
    /\ UNCHANGED <<jobs, evidence>>

RefreshJobs ==
    /\ ~engine.loading /\ ~engine.refreshing
    /\ Cardinality(engine.reads) < MaxJobReads
    /\ engine' = LoadJobs(engine, TRUE)
    /\ UNCHANGED <<jobs, evidence>>

SelectRuntime(id) ==
    /\ engine.loaded /\ id \in PackageIds /\ id # engine.runtime
    /\ engine' = KeepPageInRange([engine EXCEPT !.runtime = id, !.page = 1, !.job = "none"])
    /\ UNCHANGED <<jobs, evidence>>

SetJobFilter(f) ==
    /\ engine' = KeepPageInRange([engine EXCEPT !.filter = f, !.page = 1, !.job = "none"])
    /\ f # engine.filter /\ UNCHANGED <<jobs, evidence>>

TurnJobPage(n) ==
    /\ n \in 1 .. PageCount(engine) /\ n \in {engine.page - 1, engine.page + 1}
    /\ engine' = [engine EXCEPT !.page = n]
    /\ UNCHANGED <<jobs, evidence>>

InspectJob(j) ==
    /\ \E i \in DOMAIN JobRows(engine) : JobRows(engine)[i] = j
    /\ j # engine.job /\ engine' = [engine EXCEPT !.job = j]
    /\ UNCHANGED <<jobs, evidence>>

(* queueJob: one field holds the job that is being queued, so the end of one *)
(* request also frees the button of another job.                             *)
QueueJob(j) ==
    /\ QueueOffered(engine, j) /\ engine.posts[j] < MaxQueuePosts
    /\ engine' = [engine EXCEPT !.queueing = j, !.posts[j] = @ + 1]
    /\ UNCHANGED <<jobs, evidence>>

(* go-api publishes the request and answers "queued"; the status in the      *)
(* listing stays until a worker reports (external).                          *)
JobQueued(j) ==
    /\ engine.posts[j] > 0
    /\ engine' = KeepPageInRange([engine EXCEPT !.posts[j] = @ - 1, !.status[j] = "queued",
                                                !.queueing = "none"])
    /\ jobs' = [jobs EXCEPT !.wanted = @ \cup {j}]
    /\ UNCHANGED evidence

QueueFailed(j) ==
    /\ engine.posts[j] > 0
    /\ engine' = [engine EXCEPT !.posts[j] = @ - 1, !.queueing = "none"]
    /\ UNCHANGED <<jobs, evidence>>

(* A worker takes a requested job, and ends it (external). *)
JobMoves(j) ==
    /\ \/ /\ j \in jobs.wanted /\ jobs.status[j] # "running"
          /\ jobs' = [jobs EXCEPT !.wanted = @ \ {j}, !.status[j] = "running"]
       \/ /\ jobs.status[j] = "running"
          /\ \E s \in JobOutcomes : jobs' = [jobs EXCEPT !.status[j] = s]
    /\ UNCHANGED <<evidence, engine>>

EvidenceNext ==
    \/ PackagesAnswered \/ PackagesFailed
    \/ \E id \in PackageIds : SelectPackage(id)
    \/ \E r \in evidence.reads : PackageEvidenceAnswered(r)

EngineNext ==
    \/ \E r \in engine.reads : ServeJobs(r) \/ JobsAnswered(r) \/ JobsFailed(r)
    \/ RefreshJobs
    \/ \E id \in PackageIds : SelectRuntime(id)
    \/ \E f \in JobFilters : SetJobFilter(f)
    \/ \E n \in 1 .. Len(JobOrder) : TurnJobPage(n)
    \/ \E j \in Jobs : InspectJob(j) \/ QueueJob(j) \/ JobQueued(j) \/ QueueFailed(j) \/ JobMoves(j)

-----------------------------------------------------------------------------
(* Evidence that is shown is that of the selected package, whichever read    *)
(* ended last, so that the stages of the rail, which mix the evaluation with *)
(* the registry's record, tell of one package, and the footprint has jobs of *)
(* it whenever there are some; and while a read of the selected package is   *)
(* on its way the page says so instead of calling its evidence unavailable.  *)
EvidenceOfPackage ==
    /\ EvidencePane(evidence) = "evidence" =>
         LET rail == EvolutionRail(evidence)
         IN /\ evidence.shown = evidence.selected
            /\ rail.package.primary = evidence.selected
            /\ rail.serve.primary[2] > 0 => EvolutionFootprint(evidence) # <<>>
    /\ EvidencePane(evidence) = "unavailable" => evidence.error
    /\ \A r \in evidence.reads : r.active => EvidencePane(evidence) = "loading evidence"

(* The table is never empty while jobs match the filter: a refresh, a queued *)
(* job that leaves the filter, or another package do not strand the page     *)
(* behind the last one.                                                      *)
MatchingJobsShown == Filtered(engine) # <<>> => JobRows(engine) # <<>>

=============================================================================
