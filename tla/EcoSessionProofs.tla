-------------------------- MODULE EcoSessionProofs --------------------------
(***************************************************************************)
(* The safety invariants of EcoSession, for every set of caps, every       *)
(* repetition period and every bound.                                      *)
(***************************************************************************)
EXTENDS EcoSession, TLAPS

\* The definitions every leaf about a step needs.
USE DEF vars, bystanders, device, mainVars, monVars, envVars, history, Goto,
        setPowerLimitInMicroWatts, restoreDefaultLimits

-----------------------------------------------------------------------------
(* Type correctness *)

\* Every step of the main thread keeps the types.
LEMMA MainStepType == TypeOK /\ MainStep => TypeOK'
<1> SUFFICES ASSUME TypeOK, MainStep PROVE TypeOK'
  OBVIOUS
<1> USE EcoAssumption DEF TypeOK, MainPoints, WaitPid, monVars
<1>1. CASE StartSession  BY <1>1 DEF StartSession
<1>2. CASE Fork \/ ForkFails \/ PollBeforeWait \/ WaitSample \/ WaitEnds
  BY <1>2 DEF Fork, ForkFails, PollBeforeWait, WaitSample, WaitEnds
<1>3. CASE MeasureReference \/ TryCap \/ SampleWindow \/ ChooseCap
  BY <1>3 DEF MeasureReference, TryCap, SampleWindow, ChooseCap
<1>4. CASE ApplyBest  BY <1>4 DEF ApplyBest, InitialPeriod
<1>5. CASE ExecWindow  BY <1>5 DEF ExecWindow, ExecGoesOn, AfterExecWindow
<1>6. CASE ClearFlag
  <2>1. flag' \in BOOLEAN  BY <1>6, Zenon DEF ClearFlag
  <2> QED  BY <1>6, <2>1 DEF ClearFlag
<1>7. CASE StopMonitor
  <2>1. stop' \in BOOLEAN  BY <1>7, Zenon DEF StopMonitor
  <2> QED  BY <1>7, <2>1 DEF StopMonitor
<1>8. CASE ExecEnds \/ RestoreLimits \/ LoopEnds
  BY <1>8 DEF ExecEnds, RestoreLimits, LoopEnds
<1>9. CASE JoinMonitor \/ NextSession \/ DestroyEco
  BY <1>9 DEF JoinMonitor, NextSession, DestroyEco
<1> QED
  BY <1>1, <1>2, <1>3, <1>4, <1>5, <1>6, <1>7, <1>8, <1>9 DEF MainStep

\* So does every other step.
LEMMA OtherStepType ==
  TypeOK /\ (MonitorStep \/ ChildStep \/ TouchFile \/ RemoveFile) => TypeOK'
<1> SUFFICES ASSUME TypeOK,
                    MonitorStep \/ ChildStep \/ TouchFile \/ RemoveFile
             PROVE  TypeOK'
  OBVIOUS
<1> USE DEF TypeOK, MainPoints
<1>1. CASE ReadBaseline \/ TestStop \/ CheckFile
  BY <1>1 DEF ReadBaseline, TestStop, CheckFile, Terminate, MonitorUnchanged
<1>2. CASE ReadFile
  <2>1. flag' \in BOOLEAN
    BY <1>2, Zenon DEF ReadFile, Terminate
  <2> QED  BY <1>2, <2>1 DEF ReadFile, Terminate, MonitorUnchanged
<1>3. CASE ChildGoesOn \/ CopyUnwinds
  <2>1. loose' \in BOOLEAN  BY <1>3, Zenon DEF ChildGoesOn, CopyUnwinds
  <2> QED  BY <1>3, <2>1 DEF ChildGoesOn, CopyUnwinds, ChildUnchanged
<1>4. CASE ChildStep /\ ~ChildGoesOn /\ ~CopyUnwinds
  BY <1>4 DEF ChildStep, ChildExecs, ChildAborts, ExecFails, ChildJoin,
              ChildUnwinds, CopyProgramsLimit, CopyAborts, AppEnds,
              ChildUnchanged
<1>5. CASE TouchFile
  <2>1. file.mtime + 1 \in Nat  OBVIOUS
  <2>2. [present |-> TRUE, mtime |-> file.mtime + 1]
           \in [present : BOOLEAN, mtime : Nat]
    BY <2>1, Zenon
  <2> QED  BY <1>5, <2>2 DEF TouchFile, EnvUnchanged
<1>6. CASE RemoveFile
  <2>1. file' \in [present : BOOLEAN, mtime : Nat]
    BY <1>6, Zenon DEF RemoveFile
  <2> QED  BY <1>6, <2>1 DEF RemoveFile, EnvUnchanged
<1> QED  BY <1>1, <1>2, <1>3, <1>4, <1>5, <1>6 DEF MonitorStep

\* Type correctness of the session: every variable stays in the set its code
\* gives it, whatever the child, the monitor and the trigger file do.
THEOREM TypeCorrect == Spec => []TypeOK
<1>1. Init => TypeOK
  <2> SUFFICES ASSUME Init PROVE TypeOK
    OBVIOUS
  <2>1. /\ ready \in BOOLEAN /\ flag \in BOOLEAN
        /\ stop \in BOOLEAN /\ loose \in BOOLEAN
    BY Zenon DEF Init
  <2> QED  BY <2>1, EcoAssumption DEF Init, TypeOK, MainPoints
<1>2. TypeOK /\ [Next]_vars => TypeOK'
  <2> SUFFICES ASSUME TypeOK, [Next]_vars PROVE TypeOK'
    OBVIOUS
  <2>1. CASE Ended \/ UNCHANGED vars
    BY <2>1 DEF Ended, TypeOK
  <2> QED  BY <2>1, MainStepType, OtherStepType DEF Next
<1> QED  BY <1>1, <1>2, PTL DEF Spec

-----------------------------------------------------------------------------
(* How a session ends *)

\* The control points between the fork and the end of the loop.
Looping == {"poll", "wait", "tune?"} \union Capped

\* Strengthening of SessionEndsAfterCleanExit: a zero status is the status of
\* a child that was reaped, a session starts without a child, and a copy of the
\* program that is loose is the child or the offspring of a child that failed.
ExitInv ==
  /\ main \in Looping /\ status = 0 => app = "reapedExited"
  /\ main \in {"idle", "fork"} => app \in {"none", "reapedExited"}
  /\ loose => app \in {"loops", "failed", "reapedFailed"}
  /\ SessionEndsAfterCleanExit

\* Every step keeps it: only waitpid zeroes status, and it reaps the child.
LEMMA ExitStep == ExitInv /\ [Next]_vars => ExitInv'
<1> SUFFICES ASSUME ExitInv, [Next]_vars PROVE ExitInv'
  OBVIOUS
<1> USE DEF ExitInv, SessionEndsAfterCleanExit, Looping, Capped
<1>1. CASE MainStep
  <2> USE DEF WaitPid
  <2>1. CASE StartSession \/ Fork \/ ForkFails
    BY <2>1 DEF StartSession, Fork, ForkFails
  <2>2. CASE PollBeforeWait \/ WaitSample \/ WaitEnds
    BY <2>2 DEF PollBeforeWait, WaitSample, WaitEnds
  <2>3. CASE MeasureReference \/ TryCap \/ SampleWindow \/ ChooseCap
    BY <2>3 DEF MeasureReference, TryCap, SampleWindow, ChooseCap
  <2>4. CASE ApplyBest \/ ExecWindow
    BY <2>4 DEF ApplyBest, ExecWindow, AfterExecWindow
  <2>5. CASE ClearFlag \/ ExecEnds \/ RestoreLimits
    BY <2>5 DEF ClearFlag, ExecEnds, RestoreLimits
  <2>6. CASE LoopEnds \/ StopMonitor \/ JoinMonitor \/ NextSession \/ DestroyEco
    BY <2>6 DEF LoopEnds, StopMonitor, JoinMonitor, NextSession, DestroyEco
  <2> QED  BY <1>1, <2>1, <2>2, <2>3, <2>4, <2>5, <2>6 DEF MainStep
<1>2. CASE MonitorStep
  BY <1>2 DEF MonitorStep, ReadBaseline, TestStop, CheckFile, ReadFile,
              Terminate, MonitorUnchanged
<1>3. CASE ChildStep
  BY <1>3 DEF ChildStep, ChildExecs, ChildAborts, ExecFails, ChildJoin,
              ChildUnwinds, ChildGoesOn, CopyProgramsLimit, CopyUnwinds,
              CopyAborts, AppEnds, ChildUnchanged
<1>4. CASE TouchFile \/ RemoveFile
  BY <1>4 DEF TouchFile, RemoveFile, EnvUnchanged
<1>5. CASE Ended \/ UNCHANGED vars
  BY <1>5 DEF Ended
<1> QED  BY <1>1, <1>2, <1>3, <1>4, <1>5 DEF Next

LEMMA ExitAlways == Spec => []ExitInv
<1>1. Init => ExitInv
  BY DEF Init, ExitInv, SessionEndsAfterCleanExit, Looping, Capped
<1> QED  BY <1>1, ExitStep, PTL DEF Spec

\* A session returns only when it has no child or has reaped one that exited
\* with 0: after a failure of the application the tuning goes on for ever.
THEOREM CleanEnd == Spec => []SessionEndsAfterCleanExit
BY ExitAlways, PTL DEF ExitInv

-----------------------------------------------------------------------------
(* The limits of the device *)

\* The invariants about the limits are inductive beside ExitInv.
LimitInv == DefaultOutsideRounds /\ ExecUnderBest

\* The steps of the main thread that write a limit, or enter or leave a round.
LEMMA LimitMainStep == ExitInv /\ LimitInv /\ MainStep => LimitInv'
<1> SUFFICES ASSUME ExitInv, LimitInv, MainStep PROVE LimitInv'
  OBVIOUS
<1> USE DEF LimitInv, DefaultOutsideRounds, ExecUnderBest, Capped
<1>1. CASE StartSession \/ Fork \/ ForkFails
  BY <1>1 DEF StartSession, Fork, ForkFails
<1>2. CASE PollBeforeWait \/ WaitSample \/ WaitEnds
  BY <1>2 DEF PollBeforeWait, WaitSample, WaitEnds
<1>3. CASE MeasureReference \/ TryCap \/ SampleWindow \/ ChooseCap
  BY <1>3 DEF MeasureReference, TryCap, SampleWindow, ChooseCap
<1>4. CASE ApplyBest  BY <1>4 DEF ApplyBest
<1>5. CASE ExecWindow  BY <1>5 DEF ExecWindow, AfterExecWindow
<1>6. CASE ClearFlag \/ ExecEnds \/ RestoreLimits
  BY <1>6 DEF ClearFlag, ExecEnds, RestoreLimits
<1>7. CASE LoopEnds
  BY <1>7 DEF LoopEnds, ExitInv, Looping
<1>8. CASE StopMonitor \/ JoinMonitor \/ NextSession \/ DestroyEco
  BY <1>8 DEF StopMonitor, JoinMonitor, NextSession, DestroyEco
<1> QED  BY <1>1, <1>2, <1>3, <1>4, <1>5, <1>6, <1>7, <1>8 DEF MainStep

\* The monitor writes no limit. A child that falls through the code of its parent
\* restores the default ones; one that goes on with the sessions it has left is
\* loose while it programs others, and no session ends as long as it is.
LEMMA LimitOtherStep ==
  TypeOK /\ ExitInv /\ LimitInv
  /\ (MonitorStep \/ ChildStep \/ TouchFile \/ RemoveFile)
    => LimitInv'
<1> SUFFICES ASSUME TypeOK, ExitInv, LimitInv,
                    MonitorStep \/ ChildStep \/ TouchFile \/ RemoveFile
             PROVE  LimitInv'
  OBVIOUS
<1> USE DEF LimitInv, DefaultOutsideRounds, ExecUnderBest, Capped
<1>1. CASE MonitorStep
  BY <1>1 DEF MonitorStep, ReadBaseline, TestStop, CheckFile, ReadFile,
              Terminate, MonitorUnchanged
<1>2. CASE ChildExecs \/ ChildAborts \/ ExecFails \/ ChildJoin \/ AppEnds
  BY <1>2 DEF ChildExecs, ChildAborts, ExecFails, ChildJoin, AppEnds,
              ChildUnchanged
<1>3. CASE ChildUnwinds \/ CopyUnwinds
  BY <1>3 DEF ChildUnwinds, CopyUnwinds, ChildUnchanged
<1>4. CASE ChildGoesOn \/ CopyAborts
  BY <1>4 DEF ChildGoesOn, CopyAborts, ChildUnchanged
<1>5. CASE CopyProgramsLimit
  <2>1. main \in {"poll", "wait", "tune?", "aborted"} \union Capped
    BY <1>5 DEF CopyProgramsLimit, ExitInv, SessionEndsAfterCleanExit, TypeOK,
       MainPoints
  <2> QED  BY <1>5, <2>1 DEF CopyProgramsLimit, ChildUnchanged
<1>6. CASE TouchFile \/ RemoveFile
  BY <1>6 DEF TouchFile, RemoveFile, EnvUnchanged
<1> QED  BY <1>1, <1>2, <1>3, <1>4, <1>5, <1>6 DEF ChildStep

\* Whatever the child, its offspring and the monitor do: outside the rounds of a
\* session the device has its default limits, unless it refused the last limit
\* it was asked for or a loose copy of the program changed it while the session
\* ran; and the execution phase runs under the chosen cap unless one of them
\* took it away.
THEOREM LimitSafety == Spec => [](DefaultOutsideRounds /\ ExecUnderBest)
<1>1. Init => LimitInv
  BY DEF Init, LimitInv, DefaultOutsideRounds, ExecUnderBest, Capped
<1>2. TypeOK /\ ExitInv /\ LimitInv /\ [Next]_vars => LimitInv'
  <2> SUFFICES ASSUME TypeOK, ExitInv, LimitInv, [Next]_vars PROVE LimitInv'
    OBVIOUS
  <2>1. CASE Ended \/ UNCHANGED vars
    BY <2>1 DEF Ended, LimitInv, DefaultOutsideRounds, ExecUnderBest
  <2> QED  BY <2>1, LimitMainStep, LimitOtherStep DEF Next
<1> QED  BY <1>1, <1>2, TypeCorrect, ExitAlways, PTL DEF Spec, LimitInv

\* The caller gets the device back with its default limits: once a session has
\* left its loop, the limit is the default one or the last call that was to set
\* it was refused, with any number of sessions and whatever a child whose execvp
\* failed has programmed in between.
THEOREM CallerGetsDefault ==
  Spec => [](main \in {"report", "join", "returned", "exit"} =>
               limit = Default \/ lastSet = "refused")
<1>1. DefaultOutsideRounds =>
        (main \in {"report", "join", "returned", "exit"} =>
           limit = Default \/ lastSet = "refused")
  BY DEF DefaultOutsideRounds, Capped
<1> QED  BY <1>1, LimitSafety, PTL

\* In the execution phase the device is under the cap the search chose, unless
\* the last limit it was asked for was refused or came from another process.
THEOREM ExecKeepsBest == Spec => []ExecUnderBest
BY LimitSafety, PTL

-----------------------------------------------------------------------------
(* What a modification of the trigger file may cause *)

One(p) == IF p THEN 1 ELSE 0

\* A modification the monitor has a baseline for and has yet to see.
Unseen == mon \in {"stop?", "sleep", "read"} /\ file.mtime # last

\* The main thread is on its way to a round.
Due ==
  \/ main = "fork"
  \/ main \in {"poll", "wait", "tune?", "restore"} /\ status # 0

\* Each session and each modification pays for one round: it is spent, or still
\* held by the file, the flag or the control point. (The child is polled first
\* with a status that is not zero, the flag that ClearFlag clears was raised, and
\* an execution phase without a period has a window to run, so that nothing else
\* than the flag or the status leaves it.)
RoundInv ==
  /\ main = "poll" => status = 1
  /\ main = "clear" => flag
  /\ main = "exec" /\ ~isTuningPeriodic => period = 1
  /\ ~isTuningPeriodic =>
       rounds + One(flag) + One(Unseen) + One(Due) <= sessions + touches

\* The steps of the main thread.
LEMMA RoundMainStep == TypeOK /\ RoundInv /\ MainStep => RoundInv'
<1> SUFFICES ASSUME TypeOK, RoundInv, MainStep PROVE RoundInv'
  OBVIOUS
<1> USE DEF RoundInv, One, Unseen, Due, isTuningPeriodic
<1>0. /\ rounds \in Nat /\ sessions \in Nat /\ touches \in Nat
      /\ period \in Nat /\ status \in {0, 1}
  BY DEF TypeOK
<1>1. CASE StartSession  BY <1>0, <1>1 DEF StartSession
<1>2. CASE Fork \/ ForkFails  BY <1>0, <1>2 DEF Fork, ForkFails
<1>3. CASE PollBeforeWait  BY <1>0, <1>3 DEF PollBeforeWait, WaitPid
<1>4. CASE WaitSample \/ WaitEnds  BY <1>0, <1>4 DEF WaitSample, WaitEnds
<1>5. CASE MeasureReference  BY <1>0, <1>5 DEF MeasureReference
<1>6. CASE TryCap \/ SampleWindow \/ ChooseCap
  BY <1>0, <1>6 DEF TryCap, SampleWindow, ChooseCap, WaitPid
<1>7. CASE ApplyBest
  BY <1>0, <1>7, EcoAssumption DEF ApplyBest, InitialPeriod
<1>8. CASE ExecWindow
  BY <1>0, <1>8 DEF ExecWindow, AfterExecWindow, WaitPid
<1>9. CASE ClearFlag  BY <1>0, <1>9 DEF ClearFlag
<1>10. CASE ExecEnds  BY <1>0, <1>10 DEF ExecEnds, ExecGoesOn
<1>11. CASE RestoreLimits \/ LoopEnds \/ StopMonitor
  BY <1>0, <1>11 DEF RestoreLimits, LoopEnds, StopMonitor
<1>12. CASE JoinMonitor \/ NextSession \/ DestroyEco
  BY <1>0, <1>12 DEF JoinMonitor, NextSession, DestroyEco
<1> QED
  BY <1>1, <1>2, <1>3, <1>4, <1>5, <1>6, <1>7, <1>8, <1>9, <1>10, <1>11,
     <1>12 DEF MainStep

\* The steps of the monitor, the child and the users of the file.
LEMMA RoundOtherStep ==
  TypeOK /\ RoundInv /\ (MonitorStep \/ ChildStep \/ TouchFile \/ RemoveFile)
    => RoundInv'
<1> SUFFICES ASSUME TypeOK, RoundInv,
                    MonitorStep \/ ChildStep \/ TouchFile \/ RemoveFile
             PROVE  RoundInv'
  OBVIOUS
<1> USE DEF RoundInv, One, Unseen, Due, isTuningPeriodic
<1>0. rounds \in Nat /\ sessions \in Nat /\ touches \in Nat
  BY DEF TypeOK
<1>1. CASE ReadBaseline
  BY <1>0, <1>1 DEF ReadBaseline, Terminate, MonitorUnchanged
<1>2. CASE TestStop \/ CheckFile
  BY <1>0, <1>2 DEF TestStop, CheckFile, MonitorUnchanged
<1>3. CASE ReadFile
  <2>1. CASE ~file.present
    BY <1>0, <1>3, <2>1 DEF ReadFile, Terminate, MonitorUnchanged
  <2>2. CASE file.present /\ file.mtime = last
    <3>1. flag' = flag
      BY <1>3, <2>2, Zenon DEF ReadFile, TypeOK
    <3> QED  BY <1>0, <1>3, <2>2, <3>1 DEF ReadFile, MonitorUnchanged
  <2>3. CASE file.present /\ file.mtime # last
    <3>1. flag'
      BY <1>3, <2>3, Zenon DEF ReadFile
    <3>2. Unseen /\ ~Unseen'
      BY <1>3, <2>3 DEF ReadFile, MonitorUnchanged
    <3> QED  BY <1>0, <1>3, <2>3, <3>1, <3>2 DEF ReadFile, MonitorUnchanged
  <2> QED  BY <2>1, <2>2, <2>3
<1>4. CASE ChildStep
  BY <1>0, <1>4 DEF ChildStep, ChildExecs, ChildAborts, ExecFails, ChildJoin,
              ChildUnwinds, ChildGoesOn, CopyProgramsLimit, CopyUnwinds,
              CopyAborts, AppEnds, ChildUnchanged
<1>5. CASE TouchFile  BY <1>0, <1>5 DEF TouchFile, EnvUnchanged
<1>6. CASE RemoveFile
  <2>1. file'.mtime = file.mtime
    BY <1>6 DEF RemoveFile, TypeOK
  <2> QED  BY <1>0, <1>6, <2>1 DEF RemoveFile, EnvUnchanged
<1> QED  BY <1>1, <1>2, <1>3, <1>4, <1>5, <1>6 DEF MonitorStep

\* Without a period the number of rounds is bounded by the calls of
\* runAppWithSearch and the modifications of the trigger file: the flag is
\* raised, loaded and cleared in three steps of two threads, and no order of
\* them makes one modification cause two rounds.
THEOREM RetuneBounded == Spec => []RetuneOnlyOnTrigger
<1>1. Init => RoundInv
  BY DEF Init, RoundInv, One, Unseen, Due
<1>2. TypeOK /\ RoundInv /\ [Next]_vars => RoundInv'
  <2> SUFFICES ASSUME TypeOK, RoundInv, [Next]_vars PROVE RoundInv'
    OBVIOUS
  <2>1. CASE Ended \/ UNCHANGED vars
    BY <2>1 DEF Ended, RoundInv, One, Unseen, Due, isTuningPeriodic
  <2> QED  BY <2>1, RoundMainStep, RoundOtherStep DEF Next
<1>3. TypeOK /\ RoundInv => RetuneOnlyOnTrigger
  <2> SUFFICES ASSUME TypeOK, RoundInv, ~isTuningPeriodic
               PROVE  rounds <= sessions + touches
    BY DEF RetuneOnlyOnTrigger
  <2> QED  BY DEF TypeOK, RoundInv, One
<1> QED  BY <1>1, <1>2, <1>3, TypeCorrect, PTL DEF Spec

-----------------------------------------------------------------------------
(* The repetition period *)

\* The countdown and the windows that have passed add up to the period, and a
\* type without one keeps its countdown. The countdown starts at zero, and the
\* execution phase vanishes, only when the period does not fit an int.
PeriodInv ==
  main = "exec" =>
    IF isTuningPeriodic THEN period + execDone = RepeatWindows + 1
    ELSE period = 1

Fits == RepeatWindows < MaxPeriod

LEMMA PeriodStep ==
  Fits /\ TypeOK /\ PeriodInv /\ [Next]_vars => PeriodInv'
<1> SUFFICES ASSUME Fits, TypeOK, PeriodInv, [Next]_vars PROVE PeriodInv'
  OBVIOUS
<1> USE DEF PeriodInv, isTuningPeriodic
<1>0. /\ period \in Nat /\ execDone \in Nat /\ RepeatWindows \in Nat
      /\ MaxPeriod \in Nat /\ type' = type
  BY EcoAssumption DEF TypeOK, Next, MainStep, MonitorStep, ChildStep, Ended,
     StartSession, Fork, ForkFails, PollBeforeWait, WaitSample, WaitEnds,
     MeasureReference, TryCap, SampleWindow, ChooseCap, ApplyBest, ExecWindow,
     ClearFlag, ExecEnds, RestoreLimits, LoopEnds, StopMonitor, JoinMonitor,
     NextSession, DestroyEco, ReadBaseline, TestStop, CheckFile, ReadFile,
     MonitorUnchanged, ChildExecs, ChildAborts, ExecFails, ChildJoin,
     ChildUnwinds, ChildGoesOn, CopyProgramsLimit, CopyUnwinds, CopyAborts,
     AppEnds, ChildUnchanged, TouchFile, RemoveFile, EnvUnchanged
<1>1. CASE MainStep
  <2>1. CASE ApplyBest
    BY <1>0, <2>1 DEF ApplyBest, InitialPeriod, Fits
  <2>2. CASE ExecWindow
    BY <1>0, <2>2 DEF ExecWindow, ExecGoesOn
  <2>3. CASE StartSession \/ Fork \/ ForkFails \/ PollBeforeWait \/ WaitEnds
    BY <2>3 DEF StartSession, Fork, ForkFails, PollBeforeWait, WaitEnds
  <2>4. CASE WaitSample
    BY <2>4 DEF WaitSample
  <2>5. CASE MeasureReference \/ TryCap \/ SampleWindow \/ ChooseCap
    BY <2>5 DEF MeasureReference, TryCap, SampleWindow, ChooseCap
  <2>6. CASE ClearFlag \/ ExecEnds \/ RestoreLimits \/ LoopEnds \/ StopMonitor
    BY <2>6 DEF ClearFlag, ExecEnds, RestoreLimits, LoopEnds, StopMonitor
  <2>7. CASE JoinMonitor \/ NextSession \/ DestroyEco
    BY <2>7 DEF JoinMonitor, NextSession, DestroyEco
  <2> QED  BY <1>1, <2>1, <2>2, <2>3, <2>4, <2>5, <2>6, <2>7 DEF MainStep
<1>2. CASE MonitorStep
  BY <1>0, <1>2 DEF MonitorStep, ReadBaseline, TestStop, CheckFile, ReadFile,
              Terminate, MonitorUnchanged
<1>3. CASE ChildStep
  BY <1>0, <1>3 DEF ChildStep, ChildExecs, ChildAborts, ExecFails, ChildJoin,
              ChildUnwinds, ChildGoesOn, CopyProgramsLimit, CopyUnwinds,
              CopyAborts, AppEnds, ChildUnchanged
<1>4. CASE TouchFile \/ RemoveFile
  BY <1>0, <1>4 DEF TouchFile, RemoveFile, EnvUnchanged
<1>5. CASE Ended \/ UNCHANGED vars
  BY <1>0, <1>5 DEF Ended
<1> QED  BY <1>1, <1>2, <1>3, <1>4, <1>5 DEF Next

\* Of all the steps only ExecEnds goes from the execution phase to the
\* restoring of the limits: a flag takes another way.
LEMMA ExecLeaves ==
  ASSUME [Next]_vars, main = "exec", main' = "restore"
  PROVE  ExecEnds
<1>1. CASE MainStep
  BY <1>1 DEF MainStep, StartSession, Fork, ForkFails, PollBeforeWait,
     WaitSample, WaitEnds, MeasureReference, TryCap, SampleWindow, ChooseCap,
     ApplyBest, ExecWindow, AfterExecWindow, ClearFlag, RestoreLimits, LoopEnds,
     StopMonitor, JoinMonitor, NextSession, DestroyEco
<1>2. CASE MonitorStep
  BY <1>2 DEF MonitorStep, ReadBaseline, TestStop, CheckFile, ReadFile, Terminate
<1>3. CASE ChildStep
  BY <1>3 DEF ChildStep, ChildExecs, ChildAborts, ExecFails, ChildJoin,
              ChildUnwinds, ChildGoesOn, CopyProgramsLimit, CopyUnwinds,
              CopyAborts, AppEnds, ChildUnchanged
<1>4. CASE TouchFile \/ RemoveFile
  BY <1>4 DEF TouchFile, RemoveFile, EnvUnchanged
<1>5. CASE Ended \/ UNCHANGED vars
  BY <1>5 DEF Ended
<1> QED  BY <1>1, <1>2, <1>3, <1>4, <1>5 DEF Next

\* A periodic execution phase that ends while the application runs, and without
\* a modification of the trigger file, has lasted the whole period, whatever
\* the period is as long as it fits an int.
THEOREM PeriodKept ==
  ASSUME Fits
  PROVE  Spec => PeriodHonoured
<1>1. Init => PeriodInv
  BY DEF Init, PeriodInv
<1>2. TypeOK /\ PeriodInv /\ [Next]_vars => PeriodInv'
  BY PeriodStep
<1>3. TypeOK /\ PeriodInv /\ [Next]_vars =>
        [main = "exec" /\ main' = "restore" /\ status # 0 =>
           execDone >= RepeatWindows + 1]_vars
  <2> SUFFICES ASSUME TypeOK, PeriodInv, [Next]_vars, main = "exec",
                      main' = "restore", status # 0
               PROVE  execDone >= RepeatWindows + 1
    OBVIOUS
  <2>1. status # 0 /\ ~ExecGoesOn
    BY ExecLeaves DEF ExecEnds
  <2>2. period \in Nat /\ execDone \in Nat /\ RepeatWindows \in Nat
    BY EcoAssumption DEF TypeOK
  <2> QED  BY <2>1, <2>2 DEF PeriodInv, ExecGoesOn
<1> QED  BY <1>1, <1>2, <1>3, TypeCorrect, PTL DEF Spec, PeriodHonoured

=============================================================================
