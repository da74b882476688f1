-------------------------- MODULE AdaptiveThresholds --------------------------
(***************************************************************************)
(* The adaptive thresholds of the P4 gateway (src/68): the model that      *)
(* computes thresholds from the traffic, the threads that retrain it and   *)
(* put them to use, the monitoring thread, and the REST calls that set the *)
(* mode and the bounds and approve or reject what waits.                   *)
(*                                                                         *)
(* A threshold is one of a few levels, any two of which differ by more     *)
(* than the 10 % below which the code leaves a threshold alone; what the   *)
(* model computes from its data may be any of them.  The meters that a new *)
(* threshold is written to do not exist: see P4Gateway.                    *)
(***************************************************************************)
EXTENDS Integers, FiniteSets

CONSTANTS ThresholdTypes,
          Trainers,         \* threads in _retrain_model: the loop's, REST calls'
          MaxLevel,         \* levels are 0..MaxLevel
          MaxTrainings,     \* bound: trainings
          MaxSettings       \* bound: changes of mode and of bounds

ASSUME AdaptiveAssumption ==
    MaxLevel \in Nat \ {0} /\ MaxTrainings \in Nat /\ MaxSettings \in Nat

VARIABLES
    sklearn,        \* SKLEARN_AVAILABLE
    mode,
    thresholds,     \* the model's _thresholds
    pending,        \* the model's _pending_thresholds
    current,        \* the manager's _current_thresholds
    bounds,         \* _min_thresholds and _max_thresholds
    trainers,       \* the threads in _retrain_model
    checker,        \* the thread in _check_and_adjust
    unclamped,      \* types whose current threshold a retraining set (history)
    rebounded,      \* types whose bounds were changed (history)
    trainings, settings

adaptiveVars == <<sklearn, mode, thresholds, pending, current, bounds, trainers, checker,
                  unclamped, rebounded, trainings, settings>>

Levels == 0..MaxLevel
\* approved: computed in AUTO mode, or approved by hand.
Threshold == [level : Levels, approved : BOOLEAN]
NoThreshold == [level |-> -1, approved |-> TRUE]
MaybeThreshold == Threshold \cup {NoThreshold}
NoThresholds == [t \in ThresholdTypes |-> NoThreshold]
Range2 == {b \in [low : Levels, high : Levels] : b.low <= b.high}
Trainer == [pc : {"idle", "train", "mode", "read", "apply"}, todo : SUBSET ThresholdTypes,
            seen : [ThresholdTypes -> MaybeThreshold]]
Checker == [pc : {"idle", "mode", "apply"}, seen : [ThresholdTypes -> MaybeThreshold]]

AdaptiveTypeOK ==
    /\ sklearn \in BOOLEAN /\ mode \in {"auto", "manual"}
    /\ thresholds \in [ThresholdTypes -> MaybeThreshold]
    /\ pending \in [ThresholdTypes -> MaybeThreshold]
    /\ current \in [ThresholdTypes -> Threshold]
    /\ bounds \in [ThresholdTypes -> Range2]
    /\ trainers \in [Trainers -> Trainer]
    /\ checker \in Checker
    /\ unclamped \subseteq ThresholdTypes /\ rebounded \subseteq ThresholdTypes
    /\ trainings \in Nat /\ settings \in Nat

IdleTrainer == [pc |-> "idle", todo |-> {}, seen |-> NoThresholds]
IdleChecker == [pc |-> "idle", seen |-> NoThresholds]

AdaptiveInit ==
    /\ sklearn \in BOOLEAN /\ mode \in {"auto", "manual"}
    /\ thresholds = NoThresholds /\ pending = NoThresholds
    /\ current = [t \in ThresholdTypes |-> [level |-> 1, approved |-> TRUE]]
    /\ bounds = [t \in ThresholdTypes |-> [low |-> 1, high |-> MaxLevel]]
    /\ trainers = [r \in Trainers |-> IdleTrainer]
    /\ checker = IdleChecker
    /\ unclamped = {} /\ rebounded = {}
    /\ trainings = 0 /\ settings = 0

modelVars == <<sklearn, mode, thresholds, pending>>
managerVars == <<current, bounds, unclamped, rebounded>>

\* train() holds the model's lock from its first threshold to its last.
ModelFree == \A r \in Trainers : trainers[r].pc # "train"
TrainerGoes(r, pc) == trainers' = [trainers EXCEPT ![r].pc = pc]

(***************************************************************************)
(* _retrain_model.                                                         *)
(***************************************************************************)
\* Types with data get a threshold; none do when it is too early to train, or
\* when there are too few samples or training fails.
StartTraining(r, withData) ==
    /\ trainers[r].pc = "idle" /\ ModelFree
    /\ trainings < MaxTrainings /\ trainings' = trainings + 1
    /\ trainers' = [trainers EXCEPT ![r] =
           [IdleTrainer EXCEPT !.pc = "train", !.todo = withData]]
    /\ UNCHANGED <<modelVars, managerVars, checker, settings>>

\* Mutant of ComputeThreshold: the mode is not asked.
ComputeThresholdAnyMode(r, t, level) ==
    /\ trainers[r].pc = "train" /\ t \in trainers[r].todo
    /\ trainers' = [trainers EXCEPT ![r].todo = @ \ {t}]
    /\ thresholds' = [thresholds EXCEPT ![t] =
           [level |-> level, approved |-> mode = "auto"]]
    /\ UNCHANGED <<sklearn, mode, pending, managerVars, checker, trainings, settings>>

\* _compute_thresholds; _train_statistical does not ask for the mode.
ComputeThreshold(r, t, level) ==
    LET threshold == [level |-> level, approved |-> mode = "auto"] IN
    /\ trainers[r].pc = "train" /\ t \in trainers[r].todo
    /\ trainers' = [trainers EXCEPT ![r].todo = @ \ {t}]
    /\ IF mode = "auto" \/ ~sklearn
       THEN thresholds' = [thresholds EXCEPT ![t] = threshold] /\ UNCHANGED pending
       ELSE pending' = [pending EXCEPT ![t] = threshold] /\ UNCHANGED thresholds
    /\ UNCHANGED <<sklearn, mode, managerVars, checker, trainings, settings>>

EndTraining(r) ==
    /\ trainers[r].pc = "train" /\ trainers[r].todo = {}
    /\ TrainerGoes(r, "mode")
    /\ UNCHANGED <<modelVars, managerVars, checker, trainings, settings>>

\* get_mode takes no lock; what it returns may have changed when it is acted on.
ReadMode(r) ==
    /\ trainers[r].pc = "mode"
    /\ TrainerGoes(r, IF mode = "auto" THEN "read" ELSE "idle")
    /\ UNCHANGED <<modelVars, managerVars, checker, trainings, settings>>

\* Mutant of ReadThresholds: types without a threshold are not passed over.
ReadThresholdsAll(r) ==
    /\ trainers[r].pc = "read" /\ ModelFree
    /\ trainers' = [trainers EXCEPT ![r] =
           [pc |-> "apply", seen |-> thresholds, todo |-> ThresholdTypes]]
    /\ UNCHANGED <<modelVars, managerVars, checker, trainings, settings>>

\* The model's thresholds are applied, whoever computed them.
ReadThresholds(r) ==
    /\ trainers[r].pc = "read" /\ ModelFree
    /\ trainers' = [trainers EXCEPT ![r] =
           [pc |-> "apply", seen |-> thresholds,
            todo |-> {t \in ThresholdTypes : thresholds[t] # NoThreshold}]]
    /\ UNCHANGED <<modelVars, managerVars, checker, trainings, settings>>

\* _apply_dynamic_thresholds takes no lock and does not look at the bounds; a
\* current threshold of 0 divides by zero, which ends the loop.
ApplyThreshold(r, t) ==
    /\ trainers[r].pc = "apply" /\ t \in trainers[r].todo
    /\ IF current[t].level = 0
       THEN TrainerGoes(r, "idle") /\ UNCHANGED <<current, unclamped>>
       ELSE /\ trainers' = [trainers EXCEPT ![r].todo = @ \ {t}]
            /\ IF trainers[r].seen[t].level # current[t].level
               THEN /\ current' = [current EXCEPT ![t] = trainers[r].seen[t]]
                    /\ unclamped' = unclamped \cup {t}
               ELSE UNCHANGED <<current, unclamped>>
    /\ UNCHANGED <<modelVars, bounds, rebounded, checker, trainings, settings>>

EndRetraining(r) ==
    /\ trainers[r].pc = "apply" /\ trainers[r].todo = {}
    /\ TrainerGoes(r, "idle")
    /\ UNCHANGED <<modelVars, managerVars, checker, trainings, settings>>

(***************************************************************************)
(* _check_and_adjust: what it reads, it reads before it takes the          *)
(* manager's lock, the mode last and only if there is something to adjust. *)
(***************************************************************************)
Clamp(level, b) == IF level > b.high THEN b.high ELSE IF level < b.low THEN b.low ELSE level

\* Mutant of CheckThresholds: the bounds are not applied.
CheckThresholdsUnclamped ==
    /\ checker.pc = "idle" /\ ModelFree
    /\ \A t \in ThresholdTypes : thresholds[t] # NoThreshold => current[t].level # 0
    /\ checker' = [pc |-> "mode", seen |-> thresholds]
    /\ UNCHANGED <<modelVars, managerVars, trainers, trainings, settings>>

\* A current threshold of 0 divides by zero: nothing is adjusted any more.
CheckThresholds ==
    LET Clamped(t) == [thresholds[t] EXCEPT !.level = Clamp(@, bounds[t])]
        adjustments == {t \in ThresholdTypes : /\ thresholds[t] # NoThreshold
                                               /\ Clamped(t).level # current[t].level}
    IN  /\ checker.pc = "idle" /\ ModelFree /\ adjustments # {}
        /\ \A t \in ThresholdTypes : thresholds[t] # NoThreshold => current[t].level # 0
        /\ checker' = [pc |-> "mode",
                       seen |-> [t \in ThresholdTypes |->
                           IF t \in adjustments THEN Clamped(t) ELSE NoThreshold]]
        /\ UNCHANGED <<modelVars, managerVars, trainers, trainings, settings>>

CheckMode ==
    /\ checker.pc = "mode"
    /\ checker' = IF mode = "auto" THEN [checker EXCEPT !.pc = "apply"] ELSE IdleChecker
    /\ UNCHANGED <<modelVars, managerVars, trainers, trainings, settings>>

\* _apply_adjustments, under the manager's lock.
ApplyAdjustments ==
    LET adjusted == {t \in ThresholdTypes : checker.seen[t] # NoThreshold} IN
    /\ checker.pc = "apply"
    /\ current' = [t \in ThresholdTypes |->
           IF t \in adjusted THEN checker.seen[t] ELSE current[t]]
    /\ unclamped' = unclamped \ adjusted
    /\ checker' = IdleChecker
    /\ UNCHANGED <<modelVars, bounds, rebounded, trainers, trainings, settings>>

(***************************************************************************)
(* The REST calls.                                                         *)
(***************************************************************************)
Setting == settings < MaxSettings /\ settings' = settings + 1

SetMode(m) ==
    /\ m # mode /\ Setting
    /\ mode' = m
    /\ UNCHANGED <<sklearn, thresholds, pending, managerVars, trainers, checker, trainings>>

SetBounds(t, b) ==
    /\ b # bounds[t] /\ Setting
    /\ bounds' = [bounds EXCEPT ![t] = b]
    /\ rebounded' = rebounded \cup {t}
    /\ UNCHANGED <<modelVars, current, unclamped, trainers, checker, trainings>>

ApproveThreshold(t) ==
    /\ pending[t] # NoThreshold /\ ModelFree
    /\ thresholds' = [thresholds EXCEPT ![t] = [pending[t] EXCEPT !.approved = TRUE]]
    /\ pending' = [pending EXCEPT ![t] = NoThreshold]
    /\ UNCHANGED <<sklearn, mode, managerVars, trainers, checker, trainings, settings>>

RejectThreshold(t) ==
    /\ pending[t] # NoThreshold /\ ModelFree
    /\ pending' = [pending EXCEPT ![t] = NoThreshold]
    /\ UNCHANGED <<sklearn, mode, thresholds, managerVars, trainers, checker, trainings,
                   settings>>

AdaptiveNext ==
    \/ \E r \in Trainers :
          \/ \E withData \in SUBSET ThresholdTypes : StartTraining(r, withData)
          \/ \E t \in ThresholdTypes, level \in Levels : ComputeThreshold(r, t, level)
          \/ EndTraining(r) \/ ReadMode(r) \/ ReadThresholds(r) \/ EndRetraining(r)
          \/ \E t \in ThresholdTypes : ApplyThreshold(r, t)
    \/ CheckThresholds \/ CheckMode \/ ApplyAdjustments
    \/ \E m \in {"auto", "manual"} : SetMode(m)
    \/ \E t \in ThresholdTypes :
          ApproveThreshold(t) \/ RejectThreshold(t) \/ \E b \in Range2 : SetBounds(t, b)

AdaptiveSpec == AdaptiveInit /\ [][AdaptiveNext]_adaptiveVars

-----------------------------------------------------------------------------
(***************************************************************************)
(* Properties.                                                             *)
(***************************************************************************)
\* However retraining, checking and changes of mode interleave, a threshold
\* computed in MANUAL mode is never in use before it was approved, provided
\* scikit-learn is there: the fallback does not ask for the mode.
OnlyApprovedInUse ==
    sklearn => \A t \in ThresholdTypes : current[t].approved

\* While its bounds stay as they are, a threshold in use is outside them only
\* if a retraining, which does not look at them, was the last to set it.
WithinBounds ==
    \A t \in ThresholdTypes \ (unclamped \cup rebounded) :
        bounds[t].low <= current[t].level /\ current[t].level <= bounds[t].high
=============================================================================
