----------------------- MODULE AdaptiveThresholdsProofs -----------------------
(***************************************************************************)
(* Proofs, for any threshold types, levels, retraining threads and number  *)
(* of trainings and settings, of the properties of AdaptiveThresholds.     *)
(*                                                                         *)
(* Neither safety property is inductive: both the retraining threads and   *)
(* the checking thread hold thresholds they read before, so what is asked  *)
(* of the thresholds in use must be known of those that are held as well.  *)
(***************************************************************************)
EXTENDS AdaptiveThresholds, TLAPS

\* A thread only applies thresholds there are.
HeldThresholds ==
    \A r \in Trainers : trainers[r].pc = "apply" =>
        \A t \in trainers[r].todo : trainers[r].seen[t] \in Threshold

\* With scikit-learn, nothing the model or a thread holds is unapproved.
OnlyApproved ==
    sklearn => /\ \A t \in ThresholdTypes :
                     /\ thresholds[t].approved
                     /\ current[t].approved
                     /\ checker.seen[t].approved
               /\ \A r \in Trainers, t \in ThresholdTypes : trainers[r].seen[t].approved

Inside(level, t) == bounds[t].low <= level /\ level <= bounds[t].high

\* An adjustment was clamped to bounds that are still those of its type.
ClampedAdjustments ==
    \A t \in ThresholdTypes \ rebounded :
        checker.seen[t] # NoThreshold => Inside(checker.seen[t].level, t)

AdaptiveInv ==
    AdaptiveTypeOK /\ HeldThresholds /\ OnlyApproved /\ ClampedAdjustments /\ WithinBounds

-----------------------------------------------------------------------------
LEMMA NoThresholdApart == NoThreshold \notin Threshold
BY DEF NoThreshold, Threshold, Levels

\* Clamping to bounds that are in order gives a level between them.
LEMMA ClampInside ==
    ASSUME NEW level \in Levels, NEW b \in Range2
    PROVE  /\ Clamp(level, b) \in Levels
           /\ b.low <= Clamp(level, b) /\ Clamp(level, b) <= b.high
BY AdaptiveAssumption DEF Clamp, Levels, Range2

\* What the checking thread finds to adjust.
LEMMA CheckedThresholds ==
    ASSUME AdaptiveTypeOK, CheckThresholds
    PROVE  /\ checker'.pc = "mode"
           /\ checker' \in Checker
           /\ \A t \in ThresholdTypes :
                 \/ checker'.seen[t] = NoThreshold
                 \/ /\ checker'.seen[t] \in Threshold
                    /\ thresholds[t] \in Threshold
                    /\ checker'.seen[t].approved = thresholds[t].approved
                    /\ Inside(checker'.seen[t].level, t)
<1> DEFINE Clamped(t) == [thresholds[t] EXCEPT !.level = Clamp(@, bounds[t])]
           adjustments == {t \in ThresholdTypes : /\ thresholds[t] # NoThreshold
                                                  /\ Clamped(t).level # current[t].level}
<1>1. checker' = [pc |-> "mode",
                  seen |-> [t \in ThresholdTypes |->
                      IF t \in adjustments THEN Clamped(t) ELSE NoThreshold]]
  BY DEF CheckThresholds
<1>2. ASSUME NEW t \in adjustments
      PROVE  /\ thresholds[t] \in Threshold /\ Clamped(t) \in Threshold
             /\ Clamped(t).approved = thresholds[t].approved
             /\ Inside(Clamped(t).level, t)
  <2>1. thresholds[t] \in Threshold /\ bounds[t] \in Range2
    BY <1>2 DEF AdaptiveTypeOK, MaybeThreshold
  <2>2. thresholds[t].level \in Levels
    BY <2>1 DEF Threshold
  <2> QED BY <2>1, <2>2, ClampInside DEF Threshold, Inside
<1> HIDE DEF Clamped, adjustments
<1>3. checker' \in Checker
  BY <1>1, <1>2 DEF Checker, MaybeThreshold
<1> QED BY <1>1, <1>2, <1>3

\* Moving on, a thread keeps what it holds.
LEMMA TrainerGoesKeeps ==
    ASSUME AdaptiveTypeOK, NEW r \in Trainers,
           NEW pc \in {"idle", "train", "mode", "read", "apply"}, TrainerGoes(r, pc)
    PROVE  \A q \in Trainers : trainers'[q].seen = trainers[q].seen
<1>1. \A q \in Trainers : q # r => trainers'[q] = trainers[q]
  BY DEF TrainerGoes, AdaptiveTypeOK
<1>2. trainers'[r] = [trainers[r] EXCEPT !.pc = pc]
  BY DEF TrainerGoes, AdaptiveTypeOK
<1>3. trainers[r] \in Trainer
  BY DEF AdaptiveTypeOK
<1>4. trainers'[r].seen = trainers[r].seen
  BY <1>2, <1>3 DEF Trainer
<1> QED BY <1>1, <1>4

-----------------------------------------------------------------------------
LEMMA AdaptiveInitInv == AdaptiveInit => AdaptiveInv
<1> SUFFICES ASSUME AdaptiveInit PROVE AdaptiveInv
  OBVIOUS
<1>1. NoThresholds \in [ThresholdTypes -> MaybeThreshold]
  BY DEF NoThresholds, MaybeThreshold
<1>2. AdaptiveTypeOK
  BY <1>1, AdaptiveAssumption
     DEF AdaptiveInit, AdaptiveTypeOK, Levels, Threshold, Range2, IdleTrainer, Trainer,
         IdleChecker, Checker
<1>3. OnlyApproved
  BY DEF AdaptiveInit, OnlyApproved, NoThresholds, NoThreshold, IdleTrainer, IdleChecker
<1>4. WithinBounds /\ ClampedAdjustments /\ HeldThresholds
  BY AdaptiveAssumption
     DEF AdaptiveInit, WithinBounds, ClampedAdjustments, HeldThresholds, NoThresholds,
         IdleTrainer, IdleChecker
<1> QED BY <1>2, <1>3, <1>4 DEF AdaptiveInv

-----------------------------------------------------------------------------
LEMMA AdaptiveTypeStep ==
    ASSUME AdaptiveInv, [AdaptiveNext]_adaptiveVars
    PROVE  AdaptiveTypeOK'
<1> USE DEF AdaptiveInv, modelVars, managerVars
<1>0. NoThresholds \in [ThresholdTypes -> MaybeThreshold] /\ IdleChecker \in Checker
  BY DEF NoThresholds, MaybeThreshold, IdleChecker, Checker
<1>1. ASSUME NEW r \in Trainers, NEW withData \in SUBSET ThresholdTypes,
             StartTraining(r, withData)
      PROVE  AdaptiveTypeOK'
  <2>1. [IdleTrainer EXCEPT !.pc = "train", !.todo = withData] \in Trainer
    BY <1>0 DEF IdleTrainer, Trainer
  <2>2. trainers' \in [Trainers -> Trainer] /\ trainings' \in Nat
    BY <1>1, <2>1 DEF StartTraining, AdaptiveTypeOK
  <2> QED BY <1>1, <2>2 DEF StartTraining, AdaptiveTypeOK
<1>2. ASSUME NEW r \in Trainers, NEW t \in ThresholdTypes, NEW level \in Levels,
             ComputeThreshold(r, t, level)
      PROVE  AdaptiveTypeOK'
  <2>1. [level |-> level, approved |-> mode = "auto"] \in MaybeThreshold
    BY DEF MaybeThreshold, Threshold
  <2>2. trainers' \in [Trainers -> Trainer]
    BY <1>2 DEF ComputeThreshold, AdaptiveTypeOK, Trainer
  <2>3. /\ thresholds' \in [ThresholdTypes -> MaybeThreshold]
        /\ pending' \in [ThresholdTypes -> MaybeThreshold]
    BY <1>2, <2>1 DEF ComputeThreshold, AdaptiveTypeOK
  <2> QED BY <1>2, <2>2, <2>3 DEF ComputeThreshold, AdaptiveTypeOK
<1>3. ASSUME NEW r \in Trainers, EndTraining(r) PROVE AdaptiveTypeOK'
  BY <1>3 DEF EndTraining, TrainerGoes, AdaptiveTypeOK, Trainer
<1>4. ASSUME NEW r \in Trainers, ReadThresholds(r) PROVE AdaptiveTypeOK'
  <2>1. [pc |-> "apply", seen |-> thresholds,
         todo |-> {t \in ThresholdTypes : thresholds[t] # NoThreshold}] \in Trainer
    BY DEF AdaptiveTypeOK, Trainer
  <2> QED BY <1>4, <2>1 DEF ReadThresholds, AdaptiveTypeOK
<1>14. ASSUME NEW r \in Trainers, ReadMode(r) PROVE AdaptiveTypeOK'
  BY <1>14 DEF ReadMode, TrainerGoes, AdaptiveTypeOK, Trainer
<1>15. ASSUME CheckMode PROVE AdaptiveTypeOK'
  BY <1>15, <1>0 DEF CheckMode, AdaptiveTypeOK, Checker
<1>5. ASSUME NEW r \in Trainers, EndRetraining(r) PROVE AdaptiveTypeOK'
  BY <1>5 DEF EndRetraining, TrainerGoes, AdaptiveTypeOK, Trainer
<1>6. ASSUME NEW r \in Trainers, NEW t \in ThresholdTypes, ApplyThreshold(r, t)
      PROVE  AdaptiveTypeOK'
  <2>1. trainers[r].seen[t] \in Threshold
    BY <1>6 DEF ApplyThreshold, HeldThresholds
  <2>2. current' \in [ThresholdTypes -> Threshold] /\ unclamped' \subseteq ThresholdTypes
    BY <1>6, <2>1 DEF ApplyThreshold, AdaptiveTypeOK
  <2>3. trainers' \in [Trainers -> Trainer]
    BY <1>6 DEF ApplyThreshold, TrainerGoes, AdaptiveTypeOK, Trainer
  <2> QED BY <1>6, <2>2, <2>3 DEF ApplyThreshold, AdaptiveTypeOK
<1>7. ASSUME CheckThresholds PROVE AdaptiveTypeOK'
  BY <1>7, CheckedThresholds DEF CheckThresholds, AdaptiveTypeOK
<1>8. ASSUME ApplyAdjustments PROVE AdaptiveTypeOK'
  BY <1>8, <1>0 DEF ApplyAdjustments, AdaptiveTypeOK, Checker, MaybeThreshold
<1>9. ASSUME NEW m \in {"auto", "manual"}, SetMode(m) PROVE AdaptiveTypeOK'
  BY <1>9 DEF SetMode, Setting, AdaptiveTypeOK
<1>10. ASSUME NEW t \in ThresholdTypes, ApproveThreshold(t) PROVE AdaptiveTypeOK'
  <2>1. [pending[t] EXCEPT !.approved = TRUE] \in MaybeThreshold
    BY <1>10 DEF ApproveThreshold, AdaptiveTypeOK, MaybeThreshold, Threshold
  <2> QED BY <1>10, <2>1 DEF ApproveThreshold, AdaptiveTypeOK, MaybeThreshold
<1>11. ASSUME NEW t \in ThresholdTypes, RejectThreshold(t) PROVE AdaptiveTypeOK'
  BY <1>11 DEF RejectThreshold, AdaptiveTypeOK, MaybeThreshold
<1>12. ASSUME NEW t \in ThresholdTypes, NEW b \in Range2, SetBounds(t, b)
       PROVE  AdaptiveTypeOK'
  BY <1>12 DEF SetBounds, Setting, AdaptiveTypeOK
<1>13. ASSUME UNCHANGED adaptiveVars PROVE AdaptiveTypeOK'
  BY <1>13 DEF adaptiveVars, AdaptiveTypeOK
<1> QED
  BY <1>1, <1>2, <1>3, <1>4, <1>5, <1>6, <1>7, <1>8, <1>9, <1>10, <1>11, <1>12, <1>13,
     <1>14, <1>15
     DEF AdaptiveNext

LEMMA HeldThresholdsStep ==
    ASSUME AdaptiveInv, [AdaptiveNext]_adaptiveVars
    PROVE  HeldThresholds'
<1> USE DEF AdaptiveInv
<1>1. ASSUME NEW r \in Trainers, NEW withData \in SUBSET ThresholdTypes,
             StartTraining(r, withData)
      PROVE  HeldThresholds'
  BY <1>1 DEF StartTraining, HeldThresholds, IdleTrainer, AdaptiveTypeOK
<1>2. ASSUME NEW r \in Trainers, ReadThresholds(r) PROVE HeldThresholds'
  <2> SUFFICES ASSUME NEW q \in Trainers, trainers'[q].pc = "apply",
                      NEW t \in trainers'[q].todo
               PROVE  trainers'[q].seen[t] \in Threshold
    BY DEF HeldThresholds
  <2>1. CASE q = r
    <3>1. trainers'[q] = [pc |-> "apply", seen |-> thresholds,
              todo |-> {u \in ThresholdTypes : thresholds[u] # NoThreshold}]
      BY <1>2, <2>1 DEF ReadThresholds, TrainerGoes, AdaptiveTypeOK, Trainer
    <3> QED BY <3>1 DEF AdaptiveTypeOK, MaybeThreshold
  <2>2. CASE q # r
    BY <1>2, <2>2 DEF ReadThresholds, TrainerGoes, AdaptiveTypeOK, HeldThresholds
  <2> QED BY <2>1, <2>2
<1>3. ASSUME NEW r \in Trainers, NEW t \in ThresholdTypes, NEW level \in Levels,
             ComputeThreshold(r, t, level)
      PROVE  HeldThresholds'
  BY <1>3 DEF ComputeThreshold, HeldThresholds, AdaptiveTypeOK, Trainer
<1>5. ASSUME NEW r \in Trainers, EndTraining(r) \/ ReadMode(r) \/ EndRetraining(r)
      PROVE  HeldThresholds'
  BY <1>5 DEF EndTraining, ReadMode, EndRetraining, TrainerGoes, HeldThresholds, AdaptiveTypeOK, Trainer
<1>6. ASSUME NEW r \in Trainers, NEW t \in ThresholdTypes, ApplyThreshold(r, t)
      PROVE  HeldThresholds'
  BY <1>6 DEF ApplyThreshold, TrainerGoes, HeldThresholds, AdaptiveTypeOK, Trainer
<1>4. ASSUME UNCHANGED trainers PROVE HeldThresholds'
  BY <1>4 DEF HeldThresholds
<1> QED
  BY <1>1, <1>2, <1>3, <1>4, <1>5, <1>6
     DEF AdaptiveNext, CheckThresholds, CheckMode, ApplyAdjustments, SetMode, ApproveThreshold,
         RejectThreshold, SetBounds, adaptiveVars

LEMMA OnlyApprovedStep ==
    ASSUME AdaptiveInv, [AdaptiveNext]_adaptiveVars
    PROVE  OnlyApproved'
<1> SUFFICES ASSUME sklearn PROVE OnlyApproved'
  BY DEF OnlyApproved, AdaptiveNext, StartTraining, ComputeThreshold, EndTraining,
         ReadMode, ReadThresholds, EndRetraining, ApplyThreshold, CheckThresholds, CheckMode,
         ApplyAdjustments, SetMode, ApproveThreshold, RejectThreshold, SetBounds, modelVars, adaptiveVars
<1> USE DEF AdaptiveInv, modelVars, managerVars
<1>0. NoThreshold.approved /\ \A t \in ThresholdTypes : NoThresholds[t].approved
  BY DEF NoThreshold, NoThresholds
<1>1. ASSUME NEW r \in Trainers, NEW withData \in SUBSET ThresholdTypes,
             StartTraining(r, withData)
      PROVE  OnlyApproved'
  BY <1>1, <1>0 DEF StartTraining, OnlyApproved, IdleTrainer, AdaptiveTypeOK
<1>2. ASSUME NEW r \in Trainers, NEW t \in ThresholdTypes, NEW level \in Levels,
             ComputeThreshold(r, t, level)
      PROVE  OnlyApproved'
  <2>1. \A u \in ThresholdTypes : thresholds'[u].approved
    <3>1. CASE mode = "auto"
      <4>1. thresholds' = [thresholds EXCEPT ![t] = [level |-> level, approved |-> TRUE]]
        BY <1>2, <3>1 DEF ComputeThreshold
      <4> QED BY <4>1 DEF OnlyApproved, AdaptiveTypeOK
    <3>2. CASE mode # "auto"
      BY <1>2, <3>2 DEF ComputeThreshold, OnlyApproved
    <3> QED BY <3>1, <3>2
  <2>2. \A q \in Trainers : trainers'[q].seen = trainers[q].seen
    BY <1>2 DEF ComputeThreshold, AdaptiveTypeOK, Trainer
  <2> QED BY <1>2, <2>1, <2>2 DEF ComputeThreshold, OnlyApproved
<1>3. ASSUME NEW r \in Trainers, EndTraining(r) \/ ReadMode(r) \/ EndRetraining(r)
      PROVE  OnlyApproved'
  <2>1. \A q \in Trainers : trainers'[q].seen = trainers[q].seen
    BY <1>3, TrainerGoesKeeps DEF EndTraining, ReadMode, EndRetraining
  <2> QED BY <1>3, <2>1 DEF EndTraining, ReadMode, EndRetraining, OnlyApproved
<1>4. ASSUME NEW r \in Trainers, ReadThresholds(r) PROVE OnlyApproved'
  <2>1. \A q \in Trainers : trainers'[q].seen \in {trainers[q].seen, thresholds}
    BY <1>4 DEF ReadThresholds, AdaptiveTypeOK
  <2> QED BY <1>4, <2>1 DEF ReadThresholds, OnlyApproved
<1>5. ASSUME NEW r \in Trainers, NEW t \in ThresholdTypes, ApplyThreshold(r, t)
      PROVE  OnlyApproved'
  <2>1. \A q \in Trainers : trainers'[q].seen = trainers[q].seen
    <3>1. CASE current[t].level = 0
      BY <1>5, <3>1, TrainerGoesKeeps DEF ApplyThreshold
    <3>2. CASE current[t].level # 0
      BY <1>5, <3>2 DEF ApplyThreshold, AdaptiveTypeOK, Trainer
    <3> QED BY <3>1, <3>2
  <2>2. \A u \in ThresholdTypes : current'[u].approved
    BY <1>5 DEF ApplyThreshold, OnlyApproved, AdaptiveTypeOK
  <2> QED BY <1>5, <2>1, <2>2 DEF ApplyThreshold, OnlyApproved
<1>6. ASSUME CheckThresholds PROVE OnlyApproved'
  <2>1. \A t \in ThresholdTypes : checker'.seen[t].approved
    BY <1>0, <1>6, CheckedThresholds DEF OnlyApproved
  <2> QED BY <1>6, <2>1 DEF CheckThresholds, OnlyApproved
<1>7. ASSUME ApplyAdjustments PROVE OnlyApproved'
  <2>1. \A t \in ThresholdTypes : current'[t].approved
    BY <1>7 DEF ApplyAdjustments, OnlyApproved
  <2>2. \A t \in ThresholdTypes : checker'.seen[t].approved
    BY <1>0, <1>7 DEF ApplyAdjustments, IdleChecker
  <2> QED BY <1>7, <2>1, <2>2 DEF ApplyAdjustments, OnlyApproved
<1>10. ASSUME CheckMode PROVE OnlyApproved'
  <2>1. \A t \in ThresholdTypes : checker'.seen[t].approved
    BY <1>0, <1>10 DEF CheckMode, IdleChecker, OnlyApproved, AdaptiveTypeOK, Checker
  <2> QED BY <1>10, <2>1 DEF CheckMode, OnlyApproved
<1>8. ASSUME NEW t \in ThresholdTypes, ApproveThreshold(t) PROVE OnlyApproved'
  <2>1. [pending[t] EXCEPT !.approved = TRUE].approved
    BY <1>8 DEF ApproveThreshold, AdaptiveTypeOK, MaybeThreshold, Threshold
  <2> QED BY <1>8, <2>1 DEF ApproveThreshold, OnlyApproved, AdaptiveTypeOK
<1>9. ASSUME UNCHANGED <<thresholds, current, checker, trainers>> PROVE OnlyApproved'
  BY <1>9 DEF OnlyApproved
<1> QED
  BY <1>1, <1>2, <1>3, <1>4, <1>5, <1>6, <1>7, <1>8, <1>9, <1>10
     DEF AdaptiveNext, SetMode, RejectThreshold, SetBounds, adaptiveVars

LEMMA ClampedStep ==
    ASSUME AdaptiveInv, [AdaptiveNext]_adaptiveVars
    PROVE  ClampedAdjustments'
<1> USE DEF AdaptiveInv, modelVars, managerVars
<1>1. ASSUME CheckThresholds PROVE ClampedAdjustments'
  BY <1>1, CheckedThresholds DEF CheckThresholds, ClampedAdjustments, Inside
<1>2. ASSUME ApplyAdjustments PROVE ClampedAdjustments'
  BY <1>2 DEF ApplyAdjustments, ClampedAdjustments, IdleChecker, NoThresholds
<1>3. ASSUME NEW t \in ThresholdTypes, NEW b \in Range2, SetBounds(t, b)
      PROVE  ClampedAdjustments'
  BY <1>3 DEF SetBounds, ClampedAdjustments, Inside, AdaptiveTypeOK
<1>4. ASSUME UNCHANGED <<checker, bounds, rebounded>> PROVE ClampedAdjustments'
  BY <1>4 DEF ClampedAdjustments, Inside
<1>5. ASSUME CheckMode PROVE ClampedAdjustments'
  BY <1>5
     DEF CheckMode, ClampedAdjustments, Inside, IdleChecker, NoThresholds, AdaptiveTypeOK, Checker
<1> QED
  BY <1>1, <1>2, <1>3, <1>4, <1>5
     DEF AdaptiveNext, StartTraining, ComputeThreshold, EndTraining, ReadMode, ReadThresholds,
         EndRetraining, ApplyThreshold, SetMode, ApproveThreshold, RejectThreshold,
         adaptiveVars

LEMMA WithinBoundsStep ==
    ASSUME AdaptiveInv, [AdaptiveNext]_adaptiveVars
    PROVE  WithinBounds'
<1> USE DEF AdaptiveInv, modelVars, managerVars
<1>1. ASSUME NEW r \in Trainers, NEW t \in ThresholdTypes, ApplyThreshold(r, t)
      PROVE  WithinBounds'
  BY <1>1 DEF ApplyThreshold, WithinBounds, AdaptiveTypeOK
<1>2. ASSUME ApplyAdjustments PROVE WithinBounds'
  BY <1>2 DEF ApplyAdjustments, WithinBounds, ClampedAdjustments, Inside, AdaptiveTypeOK
<1>3. ASSUME NEW t \in ThresholdTypes, NEW b \in Range2, SetBounds(t, b)
      PROVE  WithinBounds'
  BY <1>3 DEF SetBounds, WithinBounds, AdaptiveTypeOK
<1>4. ASSUME UNCHANGED <<current, bounds, unclamped, rebounded>> PROVE WithinBounds'
  BY <1>4 DEF WithinBounds
<1> QED
  BY <1>1, <1>2, <1>3, <1>4
     DEF AdaptiveNext, StartTraining, ComputeThreshold, EndTraining, ReadMode, ReadThresholds,
         EndRetraining, CheckThresholds, CheckMode, SetMode, ApproveThreshold, RejectThreshold,
         adaptiveVars

-----------------------------------------------------------------------------
\* The inductive invariant: what the threads hold is as good as what is in use.
THEOREM AdaptiveInvariant == AdaptiveSpec => []AdaptiveInv
<1>1. AdaptiveInv /\ [AdaptiveNext]_adaptiveVars => AdaptiveInv'
  BY AdaptiveTypeStep, HeldThresholdsStep, OnlyApprovedStep, ClampedStep, WithinBoundsStep
     DEF AdaptiveInv
<1> QED
  BY <1>1, AdaptiveInitInv, PTL DEF AdaptiveSpec

\* The variables keep their types: no type without a threshold is ever applied.
THEOREM AdaptiveTypeCorrect == AdaptiveSpec => []AdaptiveTypeOK
<1>1. AdaptiveInv => AdaptiveTypeOK
  BY DEF AdaptiveInv
<1> QED BY <1>1, AdaptiveInvariant, PTL

\* However many threads retrain, and whenever the mode is changed, a threshold
\* computed in MANUAL mode is not in use before it was approved.
THEOREM ApprovedBeforeUse == AdaptiveSpec => []OnlyApprovedInUse
<1>1. AdaptiveInv => OnlyApprovedInUse
  BY DEF AdaptiveInv, OnlyApproved, OnlyApprovedInUse
<1> QED BY <1>1, AdaptiveInvariant, PTL

\* A threshold in use is within its bounds, unless these were changed or a
\* retraining was the last to set it.
THEOREM ThresholdsWithinBounds == AdaptiveSpec => []WithinBounds
<1>1. AdaptiveInv => WithinBounds
  BY DEF AdaptiveInv
<1> QED BY <1>1, AdaptiveInvariant, PTL
=============================================================================
