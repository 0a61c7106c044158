------------------------ MODULE MCSyncWindowsProofs ------------------------
(***************************************************************************)
(* The theorems about SyncWindows, brought into the composition of its      *)
(* settings that is model-checked, for every floor, window length, lag,     *)
(* number of workers and bound, and outside of the run's bounds too.        *)
(***************************************************************************)
EXTENDS MCSyncWindows, TLAPS

\* The instances stay within the assumptions of SyncWindows.
LEMMA InstancesFit ==
  /\ One!DaysAssumption /\ One!SwitchAssumption
  /\ Renewed!DaysAssumption /\ Renewed!SwitchAssumption
  BY DaysAssumption, SwitchAssumption
     DEF One!DaysAssumption, One!SwitchAssumption, Renewed!DaysAssumption,
         Renewed!SwitchAssumption

LEMMA MCSteps ==
  ASSUME [MCNext]_<<vars, setting>>
  PROVE  /\ setting' = setting
         /\ setting = "one" => [One!Next]_One!vars
         /\ setting \in {"renewed", "ranges"} => [Renewed!Next]_Renewed!vars
  <1>1. CASE MCNext
    BY <1>1 DEF MCNext
  <1>2. CASE UNCHANGED <<vars, setting>>
    BY <1>2 DEF vars, One!vars, Renewed!vars
  <1>. QED
    BY <1>1, <1>2

LEMMA MCStarts ==
  ASSUME MCInit
  PROVE  One!Init /\ Renewed!Init /\ setting \in Setting
  BY DEF MCInit, Setting, Init, One!Init, Renewed!Init, None, One!None, Renewed!None, Idle, One!Idle,
     Renewed!Idle, Day, One!Day, Renewed!Day, Kind, One!Kind, Renewed!Kind

-----------------------------------------------------------------------------
(* The windows that wait, and the checkpoints.                              *)

AcceptHolds ==
  /\ setting \in Setting
  /\ setting = "one" => One!AcceptInv
  /\ setting \in {"renewed", "ranges"} => Renewed!AcceptInv

LEMMA AcceptStep ==
  ASSUME ~LocksDrop, AcceptHolds, [MCNext]_<<vars, setting>>
  PROVE  AcceptHolds' /\ (setting # "overtaken" => Advances)
  <1>1. CASE setting = "one"
    <2>1. One!AcceptInv' /\ One!Advances
      BY <1>1, MCSteps, InstancesFit, One!NextAccept, One!AcceptAdvances DEF AcceptHolds
    <2>. QED
      BY <1>1, <2>1, MCSteps DEF AcceptHolds, Advances, One!Advances, None, One!None
  <1>2. CASE setting \in {"renewed", "ranges"}
    <2>1. Renewed!AcceptInv' /\ Renewed!Advances
      BY <1>2, MCSteps, InstancesFit, Renewed!NextAccept, Renewed!AcceptAdvances DEF AcceptHolds
    <2>. QED
      BY <1>2, <2>1, MCSteps DEF AcceptHolds, Advances, Renewed!Advances, None, Renewed!None
  <1>3. CASE setting = "overtaken"
    BY <1>3, MCSteps DEF AcceptHolds
  <1>. QED
    BY <1>1, <1>2, <1>3 DEF AcceptHolds, Setting

LEMMA AcceptAlways ==
  ASSUME ~LocksDrop
  PROVE  MCSpec => []AcceptHolds
  <1>1. MCInit => AcceptHolds
    BY InstancesFit, MCStarts, One!InitAccept, Renewed!InitAccept DEF AcceptHolds
  <1>2. AcceptHolds /\ [MCNext]_<<vars, setting>> => AcceptHolds'
    BY AcceptStep
  <1>. QED
    BY <1>1, <1>2, PTL DEF MCSpec

\* What waits or is paused holds the window that the engine expects next, unless an old
\* execution moved the checkpoint under it: for an api with an update window and for one
\* whose frozen end is renewed.
THEOREM WaitingHolds ==
  ASSUME ~LocksDrop
  PROVE  MCSpec => []NextIsWaiting
  <1>1. AcceptHolds => NextIsWaiting
    <2>1. One!AcceptInv => One!WaitingIsNext
      BY DEF One!AcceptInv, One!ActiveInv, One!WaitingIsNext
    <2>2. Renewed!AcceptInv => Renewed!WaitingIsNext
      BY DEF Renewed!AcceptInv, Renewed!ActiveInv, Renewed!WaitingIsNext
    <2>3. (One!WaitingIsNext \/ Renewed!WaitingIsNext) => WaitingIsNext
      BY DEF WaitingIsNext, One!WaitingIsNext, Renewed!WaitingIsNext, ActiveJobs, One!ActiveJobs,
         Renewed!ActiveJobs, IsCurrent, One!IsCurrent, Renewed!IsCurrent, Active, One!Active,
         Renewed!Active, Accepts, One!Accepts, Renewed!Accepts, None, One!None, Renewed!None,
         Least, One!Least, Renewed!Least
    <2>. QED
      BY <2>1, <2>2, <2>3 DEF AcceptHolds, Setting, NextIsWaiting
  <1>. QED
    BY <1>1, AcceptAlways, PTL

\* The checkpoints never go back and T0 is set once, in the same settings.
THEOREM CheckpointsStay ==
  ASSUME ~LocksDrop
  PROVE  MCSpec => CheckpointsOnlyAdvance
  <1>1. AcceptHolds /\ [MCNext]_<<vars, setting>>
          => [setting # "overtaken" => Advances]_<<vars, setting>>
    BY AcceptStep
  <1>. QED
    BY <1>1, AcceptAlways, PTL DEF MCSpec, CheckpointsOnlyAdvance

-----------------------------------------------------------------------------
(* What a success has fetched.                                              *)

CoverHolds ==
  /\ setting \in Setting
  /\ setting = "one" => One!CoverInv
  /\ setting \in {"renewed", "ranges"} => Renewed!CoverInv

\* The conditions of SuccessCovered, on the setting that has an update window.
Conditions == ~LocksDrop /\ ~SomeShops /\ (Incremental => Lag <= 1 /\ UpdateLag <= Lag)

LEMMA CoverAlways ==
  ASSUME Conditions
  PROVE  MCSpec => []CoverHolds
  <1>1. One!CoverSetting /\ Renewed!CoverSetting
    BY DEF Conditions, One!CoverSetting, Renewed!CoverSetting
  <1>2. MCInit => CoverHolds
    BY InstancesFit, MCStarts, One!InitCover, Renewed!InitCover DEF CoverHolds
  <1>3. ASSUME CoverHolds, [MCNext]_<<vars, setting>>
        PROVE  CoverHolds'
    <2>1. setting = "one" => One!CoverInv'
      BY <1>1, <1>3, MCSteps, InstancesFit, One!NextCover DEF CoverHolds
    <2>2. setting \in {"renewed", "ranges"} => Renewed!CoverInv'
      BY <1>1, <1>3, MCSteps, InstancesFit, Renewed!NextCover DEF CoverHolds
    <2>. QED
      BY <1>3, <2>1, <2>2, MCSteps DEF CoverHolds
  <1>. QED
    BY <1>2, <1>3, PTL DEF MCSpec

\* A task that reports success has fetched all the days of its range since it was created,
\* unless its executions ran next to newer ones.
THEOREM SuccessHolds ==
  ASSUME Conditions
  PROVE  MCSpec => []SuccessIsCovered
  <1>1. One!CoverSetting /\ Renewed!CoverSetting
    BY DEF Conditions, One!CoverSetting, Renewed!CoverSetting
  <1>2. ASSUME CoverHolds, setting # "overtaken", NEW j \in DOMAIN jobs, TaskSucceeded(j),
               NEW d \in jobs[j].first .. jobs[j].last
        PROVE  LET kind == jobs[jobs[j].task].plan.kind IN
               \/ fetched[kind][d] >= jobs[j].since
               \/ kind = "history" /\ fetched["update"][d] >= jobs[j].since
    <2>1. One!TaskSucceeded(j) /\ Renewed!TaskSucceeded(j)
      BY <1>2 DEF TaskSucceeded, One!TaskSucceeded, Renewed!TaskSucceeded, IsCurrent,
         One!IsCurrent, Renewed!IsCurrent
    <2>2. CASE setting = "one"
      BY <1>1, <1>2, <2>1, <2>2, InstancesFit, One!CoverSucceeds DEF CoverHolds
    <2>3. CASE setting \in {"renewed", "ranges"}
      BY <1>1, <1>2, <2>1, <2>3, InstancesFit, Renewed!CoverSucceeds DEF CoverHolds
    <2>. QED
      BY <1>2, <2>2, <2>3 DEF CoverHolds, Setting
  <1>3. CoverHolds => SuccessIsCovered
    BY <1>2 DEF SuccessIsCovered, SuccessMeansCovered
  <1>. QED
    BY <1>3, CoverAlways, PTL

=============================================================================
