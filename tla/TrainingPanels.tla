--------------------------- MODULE TrainingPanels ---------------------------
(***************************************************************************)
(* The panels of the Training Lab as functions of what they are given: the *)
(* specification of an experiment, the audit of a cohort, and the run that *)
(* the monitor follows, a record with its status, its phase, its progress  *)
(* in percent, its losses and its logs.                                    *)
(***************************************************************************)
EXTENDS Integers, Sequences

(* The form: its numbers are those that the typed text stands for. *)
Specs ==
    [intent : {"new", "evolve"}, base : STRING, target : {"cpu", "gpu"},
     epochs : Int, batch : Int, rate : Int, seed : Int]

(* A base model is offered for an evolution only: the champion, or a model   *)
(* of the task.                                                              *)
ExperimentFields(spec, models) ==
    [numbers |-> {"epochs", "batch size", "learning rate", "seed"}, targets |-> {"gpu", "cpu"},
     bases |-> IF spec.intent = "evolve"
               THEN {"champion"} \cup {m.id : m \in {x \in models : x.task = "candidate_vetting"}}
               ELSE {}]

NumericConfigValid(spec) == spec.epochs > 0 /\ spec.batch > 0 /\ spec.rate > 0 /\ spec.seed >= 0

-----------------------------------------------------------------------------
(* The audit a of a cohort; ready and diverse are <<>> where the server did  *)
(* not send them.                                                            *)
CohortReady(a) == IF a.ready # <<>> THEN a.ready[1] ELSE a.tier # "BLOCKED"
CohortShare(rows, total) == IF total > 0 THEN <<rows, total>> ELSE <<0, 1>>
CohortGate(met, advisory) ==
    IF met THEN "gate met" ELSE IF advisory THEN "non-blocking" ELSE "gate not met"
CohortGates(a) ==
    [experimental |-> CohortGate(CohortReady(a), FALSE),
     production   |-> CohortGate(a.tier = "PRODUCTION_CANDIDATE", FALSE),
     diversity    |-> CohortGate(IF a.diverse # <<>> THEN a.diverse[1]
                                 ELSE a.negatives >= a.wanted, TRUE)]

-----------------------------------------------------------------------------
(* The monitor.  A phase that belongs to no step of the stepper, such as     *)
(* queued or failed, has index 0.                                            *)
Steps == 1 .. 5
StepPhases ==
    << {"worker_acknowledged", "loading_gold"}, {"preparing_dataset"}, {"training"},
       {"evaluating"},
       {"packaging_runtime", "persisting_artifacts", "planning_inference", "completed"} >>
PhaseIndex(phase) ==
    IF \E i \in Steps : phase \in StepPhases[i]
    THEN CHOOSE i \in Steps : phase \in StepPhases[i] ELSE 0

StepState(run, i) ==
    IF run.status = "completed" \/ PhaseIndex(run.phase) > i THEN "done"
    ELSE IF run.status \notin {"failed", "cancelled"} /\ PhaseIndex(run.phase) = i THEN "active"
    ELSE "waiting"
Stepper(run) == [i \in Steps |-> StepState(run, i)]

ObservedPercent(run) == IF run.percent < 0 THEN 0 ELSE IF run.percent > 100 THEN 100 ELSE run.percent

(* A facet that was not observed is a dash, written <<>>. *)
FactStrip(run) ==
    [epoch |-> <<run.epoch, run.epochs>>,
     best |-> IF run.best > 0 THEN <<run.best>> ELSE <<>>]

(* Without a loss the chart waits, also when the run has ended. *)
LossCurve(run) ==
    CASE run.losses # <<>>                          -> "curve"
      [] run.losses = <<>> /\ run.phase = "training" -> "first epoch"
      [] OTHER                                        -> "preparing"

ConsoleLogs(run) == [lines |-> Len(run.logs), copies |-> run.logs # <<>>]

MonitorFooter(run) == IF run.status = "completed" THEN {"configure new run"} ELSE {}

=============================================================================
