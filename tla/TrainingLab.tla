----------------------------- MODULE TrainingLab -----------------------------
(***************************************************************************)
(* The Training Lab (dashboard/src/pages/training-lab): the operator       *)
(* chooses Gold snapshots, whose readiness is audited, and launches a      *)
(* training run; the page follows the active run through the event stream. *)
(* The effect that opens the stream depends on the active run itself, so   *)
(* every event that changes it closes the stream and opens another one;    *)
(* go-api keeps nothing for a stream that is not connected.                *)
(***************************************************************************)
EXTENDS Integers, FiniteSets, Sequences, TrainingPanels

CONSTANTS
    GoldSets,      \* committed Gold snapshots
    ReadyCohorts,  \* selections that the server finds ready for training
    TrainingRuns,  \* runs, named by their tickets
    RunPhases,     \* phases that a running worker reports, in their order
    RunOutcomes,   \* how the worker may end a run
    Forms          \* specifications of an experiment that are typed

ASSUME TrainingConstants ==
    /\ IsFiniteSet(GoldSets) /\ ReadyCohorts \in SUBSET (SUBSET GoldSets) /\ IsFiniteSet(TrainingRuns)
    /\ RunPhases \in Seq((UNION {StepPhases[i] : i \in Steps}) \ {"completed"}) /\ RunPhases # <<>>
    /\ \A i, j \in DOMAIN RunPhases : i <= j => PhaseIndex(RunPhases[i]) <= PhaseIndex(RunPhases[j])
    /\ Forms \subseteq Specs /\ Forms # {}
    /\ RunOutcomes \subseteq {"completed", "failed", "cancelled"}

VARIABLES
    trainer,   \* the server: the status and the phase of every run
    lab        \* state of the page, its requests and its stream

trainVars == <<trainer, lab>>

Run(status, phase) == [status |-> status, phase |-> phase]
NoTraining == [run |-> "none", status |-> "none", phase |-> "none"]
NoAudit == [of |-> {}, ready |-> FALSE, known |-> FALSE]
Ended == {"completed", "failed", "cancelled"}
UnderWay == {"queued", "running"}

(* When the page opens nothing has run yet, or one run is under way. *)
TrainServers(open) ==
    LET idle == [r \in TrainingRuns |-> Run("none", "none")]
    IN {idle} \cup (IF open THEN {[idle EXCEPT ![CHOOSE x \in TrainingRuns : TRUE] =
                                        Run("running", RunPhases[1])]} ELSE {})

(* The page as it mounts: snapshots and the active run are asked for. *)
MountedLab ==
    [listed |-> {}, listing |-> TRUE, selected |-> {}, readiness |-> NoAudit, auditing |-> FALSE, audits |-> {},
     submitting |-> "no", active |-> NoTraining, config |-> FALSE, rehydrate |-> "sent",
     found |-> NoTraining, control |-> "none", connected |-> FALSE, stream |-> <<>>]

-----------------------------------------------------------------------------
(* What the page shows: the monitor of the active run, or the configuration. *)

LiveView(p) == p.active # NoTraining /\ ~p.config
IsRunning(p) == p.active.status \in UnderWay

(* LiveTrainingMonitor: a run stops at its best checkpoint while it trains. *)
MonitorControls(p) ==
    IF ~LiveView(p) THEN {}
    ELSE IF IsRunning(p)
    THEN {"view config"} \cup
         (IF p.control # "none" THEN {}
          ELSE {"cancel"} \cup (IF p.active.phase = "training" THEN {"checkpoint"} ELSE {}))
    ELSE {"new run"}

(* TrainingCohortReadiness. *)
CohortPanel(p) ==
    CASE p.selected = {}                   -> "select snapshots"
      [] p.selected # {} /\ p.auditing     -> "calculating"
      [] OTHER -> IF ~p.readiness.known THEN "locked" ELSE IF p.readiness.ready THEN "ready"
                  ELSE "blocked"

(* The readiness that was answered last decides, whatever is selected now. *)
LaunchReady(p, form) ==
    /\ ~LiveView(p) /\ p.selected # {} /\ p.readiness.known /\ p.readiness.ready
    /\ NumericConfigValid(form) /\ p.submitting = "no"

-----------------------------------------------------------------------------
(* The active run changes: the stream is closed with what it carried, and a  *)
(* run that begins brings the monitor back.                                  *)
Tracking(p, run) ==
    IF run = p.active THEN p
    ELSE [p EXCEPT !.active = run, !.connected = FALSE, !.stream = <<>>,
                   !.config = IF run.status \in UnderWay /\ run.status # p.active.status
                              THEN FALSE ELSE @]

StreamOpens ==
    /\ lab.active # NoTraining /\ ~lab.connected
    /\ lab' = [lab EXCEPT !.connected = TRUE]
    /\ UNCHANGED trainer

(* loadAvailableSnapshots; it is called again when a run completes. *)
SnapshotsListed ==
    /\ lab.listing
    /\ lab' = [lab EXCEPT !.listing = FALSE, !.listed = GoldSets]
    /\ UNCHANGED trainer

SelectSnapshots(S) ==
    /\ ~LiveView(lab) /\ S \in SUBSET lab.listed /\ S # lab.selected
    /\ lab' = IF S = {} THEN [lab EXCEPT !.selected = S, !.readiness = NoAudit, !.auditing = FALSE]
              ELSE [lab EXCEPT !.selected = S, !.auditing = TRUE, !.audits = @ \cup {S}]
    /\ UNCHANGED trainer

(* Mistake: an audit of another selection counts. *)
AuditUnchecked(S) == TRUE

(* An audit counts only for the selection that is still the current one. *)
CurrentAudit(S) == S = lab.selected

ReadinessAnswered(S) ==
    /\ S \in lab.audits
    /\ \E answer \in {[of |-> S, ready |-> S \in ReadyCohorts, known |-> TRUE], NoAudit} :
          lab' = [lab EXCEPT !.audits = @ \ {S},
                             !.readiness = IF CurrentAudit(S) THEN answer ELSE @,
                             !.auditing = IF CurrentAudit(S) THEN FALSE ELSE @]
    /\ UNCHANGED trainer

(* The active run of the server replaces another one; the same run keeps     *)
(* what the page knows of it.                                                *)
ServeActive ==
    /\ lab.rehydrate = "sent"
    /\ \E run \in {r \in TrainingRuns : trainer[r].status # "none"} :
          /\ (\E r \in TrainingRuns : trainer[r].status \in UnderWay) =>
                 trainer[run].status \in UnderWay
          /\ lab' = [lab EXCEPT !.rehydrate = "served",
                                !.found = [run |-> run, status |-> trainer[run].status,
                                           phase |-> trainer[run].phase]]
    /\ UNCHANGED trainer

Rehydrated ==
    /\ lab.rehydrate = "served"
    /\ lab' = [(IF lab.active.run = lab.found.run THEN lab ELSE Tracking(lab, lab.found))
                 EXCEPT !.rehydrate = "done", !.found = NoTraining]
    /\ UNCHANGED trainer

-----------------------------------------------------------------------------
(* handleStartTraining, with what the form holds, and handleControlTraining. *)
StartTraining(form) ==
    /\ LaunchReady(lab, form)
    /\ lab' = [lab EXCEPT !.submitting = "sent"]
    /\ UNCHANGED trainer

TrainingAccepted(run) ==
    /\ lab.submitting = "sent" /\ trainer[run].status = "none"
    /\ trainer' = [trainer EXCEPT ![run] = Run("queued", "queued")]
    /\ lab' = [Tracking(lab, [run |-> run, status |-> "queued", phase |-> "queued"])
                 EXCEPT !.submitting = "no", !.config = FALSE]

TrainingRefused ==
    /\ lab.submitting = "sent"
    /\ lab' = [lab EXCEPT !.submitting = "no"]
    /\ UNCHANGED trainer

ControlTraining(action) ==
    /\ action \in MonitorControls(lab) \cap {"cancel", "checkpoint"}
    /\ lab' = [lab EXCEPT !.control = action]
    /\ UNCHANGED trainer

(* The worker may be done before the request reaches it. *)
ControlAnswered ==
    /\ lab.control # "none"
    /\ lab' = [(IF lab.control = "cancel" /\ lab.active # NoTraining
                THEN Tracking(lab, [lab.active EXCEPT !.status = "cancelled", !.phase = "cancelled"]) ELSE lab)
                 EXCEPT !.control = "none"]
    /\ UNCHANGED trainer

ControlFailed ==
    /\ lab.control # "none"
    /\ lab' = [lab EXCEPT !.control = "none"]
    /\ UNCHANGED trainer

ConfigureRun(show) ==
    /\ IF show THEN MonitorControls(lab) \cap {"view config", "new run"} # {}
       ELSE lab.config /\ lab.active # NoTraining
    /\ lab' = [lab EXCEPT !.config = show]
    /\ UNCHANGED trainer

-----------------------------------------------------------------------------
(* The worker, which does not wait for the page, and the events of its runs. *)
TrainerMoves(run) ==
    LET at == trainer[run]
        failing == {Run(o, o) : o \in RunOutcomes \ {"completed"}}
        to == CASE at.status = "queued"  -> {Run("running", RunPhases[1])} \cup failing
                [] at.status = "running" ->
                     failing \cup {Run("running", RunPhases[i + 1]) :
                                     i \in {j \in 1 .. Len(RunPhases) - 1 : RunPhases[j] = at.phase}}
                     \cup (IF at.phase = RunPhases[Len(RunPhases)]
                           THEN {Run(o, o) : o \in RunOutcomes} ELSE {})
                [] OTHER                 -> {}
    IN \E next \in to :
         /\ trainer' = [trainer EXCEPT ![run] = next]
         /\ lab' = [lab EXCEPT !.stream =
                        IF lab.connected
                        THEN Append(@, [run |-> run, status |-> next.status, phase |-> next.phase])
                        ELSE @]

(* Mistake: an event of another run counts. *)
EventUnchecked(p, e) == TRUE

(* The handlers of the stream: another run's event is ignored; after a       *)
(* completion the snapshots are read again.                                  *)
Concerns(p, e) == e.run = p.active.run

WorkflowUpdate ==
    LET e == Head(lab.stream)
        p == [lab EXCEPT !.stream = Tail(@)]
        q == Tracking(p, [p.active EXCEPT !.status = e.status, !.phase = e.phase])
    IN /\ lab.stream # <<>>
       /\ lab' = IF ~Concerns(p, e) THEN p
                 ELSE [q EXCEPT !.listing = @ \/ e.status = "completed"]
       /\ UNCHANGED trainer

LabAnswers ==
    \/ StreamOpens \/ WorkflowUpdate \/ SnapshotsListed \/ ServeActive \/ Rehydrated
    \/ \E S \in lab.audits : ReadinessAnswered(S)
    \/ \E run \in TrainingRuns : TrainingAccepted(run) \/ TrainerMoves(run)
    \/ TrainingRefused \/ ControlAnswered \/ ControlFailed

LabNext ==
    \/ LabAnswers
    \/ \E S \in SUBSET GoldSets : SelectSnapshots(S)
    \/ \E f \in Forms : StartTraining(f)
    \/ \E a \in {"cancel", "checkpoint"} : ControlTraining(a)
    \/ \E show \in BOOLEAN : ConfigureRun(show)

-----------------------------------------------------------------------------
(* A verdict on the cohort is a verdict on the snapshots that are selected,  *)
(* in whatever order the audits were answered, and nothing of an earlier     *)
(* audit is left once nothing is selected.                                   *)
ReadinessOfSelection ==
    /\ CohortPanel(lab) \in {"ready", "blocked"} => lab.readiness.of = lab.selected
    /\ lab.selected = {} => ~lab.readiness.known

(* The monitor is never ahead of the worker: a run that it reports as        *)
(* completed or failed has ended that way, and a step that it ticks off is   *)
(* behind the worker.  Neither the events of other runs nor a late answer of *)
(* the active-run endpoint make it so on screen only.                        *)
FinishedIsFinished ==
    lab.active # NoTraining =>
        LET at == trainer[lab.active.run]
        IN /\ lab.active.status \in {"completed", "failed"} => at.status = lab.active.status
           /\ \A i \in Steps : StepState(lab.active, i) = "done" =>
                 PhaseIndex(at.phase) > i \/ at.status \in Ended

=============================================================================
