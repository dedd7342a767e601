----------------------------- MODULE EcoSession -----------------------------
(***************************************************************************)
(* The tuning session of DEPO: Eco::runAppWithSearch with the three actors *)
(* that meet in it.                                                        *)
(*                                                                         *)
(*   - the MAIN thread forks the tuned application, waits until the        *)
(*     device is ready for tuning, then repeats: measure a reference under *)
(*     the default limits, search for a power cap, run under it, restore   *)
(*     the default limits; the repetition ends when `status`, the raw word *)
(*     waitpid stored, is zero;                                            *)
(*   - the MONITOR thread watches the modification time of the trigger     *)
(*     file and raises external_trigger_flag;                              *)
(*   - the CHILD process executes the application, or, when execvp fails,  *)
(*     falls through into the code of its parent: a second copy of the     *)
(*     program, with the device in its hands.                              *)
(*                                                                         *)
(* The search is the contract its two implementations share (LinearSearch, *)
(* GoldenSection): some windows, each under a cap of the device, then the  *)
(* choice of one of the caps or of the limit of the reference. The device  *)
(* may refuse a limit, which the code only prints. DEPO calls              *)
(* runAppWithSearch once; dynamic_eco_gss calls it in a loop.              *)
(***************************************************************************)
EXTENDS Naturals

CONSTANTS
  Caps,           \* the power limits a search may program
  Default,        \* the limits the device had when Eco was constructed
  RepeatWindows,  \* repeatTuningPeriodInSec, in test windows (periodic types)
  MaxPeriod,      \* largest int, in test windows
  MaxWindows,     \* bound: measurement windows of one search
  MaxSessions,    \* bound: calls of runAppWithSearch of one program
  MaxChanges,     \* bound: changes of the trigger file and planned sessions
  ExecMayFail     \* whether execvp may fail in the child

ASSUME EcoAssumption ==
  /\ Default \notin Caps
  /\ RepeatWindows \in Nat /\ MaxPeriod \in Nat \ {0}
  /\ MaxWindows \in Nat /\ MaxSessions \in Nat \ {0}
  /\ MaxChanges \in Nat
  /\ ExecMayFail \in BOOLEAN

VARIABLES
  main,       \* control point of the main thread
  type,       \* Trigger::type_, fixed by the configuration
  planned,    \* calls of runAppWithSearch this program makes: 1 in DEPO
  ready,      \* Trigger::isDeviceReadyForTuning
  status,     \* the local `status`: 0, or 1 for every non-zero word
  limit,      \* the power limit programmed in the device
  best,       \* bestResultCapInMicroWatts
  period,     \* repetitionPeriodInUs, in test windows
  windows,    \* measurement windows of the running search
  app,        \* the child process
  mon,        \* control point of the monitor thread
  last,       \* last_write_time of the monitor thread
  flag,       \* external_trigger_flag
  stop,       \* stop_flag
  file,       \* the trigger file: is it there, and its modification time
  touches,    \* how often the file was modified (environment)
  removals,   \* how often the file was removed (environment)
  sessions,   \* history: calls of runAppWithSearch so far
  rounds,     \* history: tuning rounds a type without period started so far
  execDone,   \* history: windows of the running periodic execution phase
  lastSet,    \* history: how the last call that sets the limit went
  loose       \* history: a copy of the program may be programming limits

bystanders == <<type, planned, loose>>
device     == <<limit, lastSet>>
mainVars == <<main, ready, status, best, period, windows>>
monVars  == <<mon, last, flag>>
envVars  == <<file, touches, removals>>
history  == <<sessions, rounds, execDone>>
vars == <<main, ready, status, limit, best, period, windows, type, planned, app,
          mon, last, flag, stop, file, touches, removals, sessions, rounds,
          execDone, lastSet, loose>>

TriggerTypes ==
  {"SINGLE_IMMEDIATE_TUNING", "SINGLE_TUNING_WITH_WAIT",
   "PERIODIC_IMMEDIATE_TUNING", "PERIODIC_TUNING_WITH_WAIT"}

isTuningPeriodic ==
  type \in {"PERIODIC_IMMEDIATE_TUNING", "PERIODIC_TUNING_WITH_WAIT"}

WaitsForSteadyPower ==
  type \in {"SINGLE_TUNING_WITH_WAIT", "PERIODIC_TUNING_WITH_WAIT"}

Init ==
  /\ main = "idle" /\ type \in TriggerTypes /\ ready = FALSE
  /\ status = 1 /\ limit = Default /\ best = Default
  /\ period = 0 /\ windows = 0
  /\ app = "none"
  /\ mon = "none" /\ last = 0 /\ flag = FALSE /\ stop = FALSE
  /\ file \in [present : BOOLEAN, mtime : {0}]
  /\ touches = 0 /\ removals = 0
  /\ sessions = 0 /\ rounds = 0 /\ execDone = 0
  /\ planned \in 1..MaxSessions
  /\ lastSet = "parent" /\ loose = FALSE

-----------------------------------------------------------------------------
(* The power limit of the device *)

\* The device takes the limit that is asked for, or refuses it and keeps the one
\* it has. A refusal is printed; neither the callers nor the return type tell.
setPowerLimitInMicroWatts(process, asked, accepted) ==
  /\ limit' = IF accepted THEN asked ELSE limit
  /\ lastSet' = IF accepted THEN process ELSE "refused"

restoreDefaultLimits(process, accepted) ==
  setPowerLimitInMicroWatts(process, Default, accepted)

-----------------------------------------------------------------------------
(* The main thread *)

Goto(from, to) == main = from /\ main' = to

\* Entry: the trigger file is created when missing and the monitor thread
\* started. The readiness of an earlier session on this object persists: a
\* steady-power filter may say anything by now, the activity flag is sticky.
StartSession ==
  /\ Goto("idle", "fork")
  /\ sessions' = sessions + 1
  /\ file' = IF file.present THEN file
             ELSE [present |-> TRUE, mtime |-> file.mtime + 1]
  /\ mon' = "baseline"
  /\ ready' \in IF WaitsForSteadyPower /\ sessions > 0 THEN BOOLEAN
                ELSE {ready}
  /\ best' = Default
  /\ UNCHANGED <<bystanders, device, status, period, windows, app, last, flag,
                 stop, touches, removals, rounds, execDone>>

Fork ==
  /\ Goto("fork", "poll")
  /\ app' = "forked"
  /\ status' = 1
  /\ UNCHANGED <<bystanders, device, ready, best, period, windows, stop>>
  /\ UNCHANGED monVars /\ UNCHANGED envVars /\ UNCHANGED history

ForkFails ==
  /\ Goto("fork", "report")
  /\ app' = "none"
  /\ UNCHANGED <<bystanders, device, ready, status, best, period, windows,
                 stop>>
  /\ UNCHANGED monVars /\ UNCHANGED envVars /\ UNCHANGED history

\* Variant: a failure of the application is reported as a clean exit.
WaitPid_FailureIsZero ==
  /\ status' = IF app \in {"exited", "failed"} THEN 0 ELSE status
  /\ app' = CASE app = "exited" -> "reapedExited"
              [] app = "failed" -> "reapedFailed"
              [] OTHER          -> app

\* Variant: the child is reaped and its status word dropped.
WaitPid_StatusDropped ==
  /\ UNCHANGED status
  /\ app' = CASE app = "exited" -> "reapedExited"
              [] app = "failed" -> "reapedFailed"
              [] OTHER          -> app

\* waitpid(child, &status, WNOHANG): a child that ended is reaped once and its
\* status stored; a running or an already reaped child leaves status alone.
WaitPid ==
  /\ status' = CASE app = "exited" -> 0
                 [] app = "failed" -> 1
                 [] OTHER          -> status
  /\ app' = CASE app = "exited" -> "reapedExited"
              [] app = "failed" -> "reapedFailed"
              [] OTHER          -> app

\* waitForTuningTrigger polls the child once, before its loop ...
PollBeforeWait ==
  /\ Goto("poll", "wait")
  /\ WaitPid
  /\ UNCHANGED <<bystanders, device, ready, best, period, windows, stop>>
  /\ UNCHANGED monVars /\ UNCHANGED envVars /\ UNCHANGED history

\* ... and then samples until the device is ready, without polling again. Power
\* and counter are those of the device, whoever uses it.
WaitSample ==
  /\ main = "wait" /\ ~ready /\ status # 0
  /\ ready' \in BOOLEAN
  /\ UNCHANGED <<bystanders, device, main, status, best, period, windows, app,
                 stop>>
  /\ UNCHANGED monVars /\ UNCHANGED envVars /\ UNCHANGED history

WaitEnds ==
  /\ Goto("wait", "tune?")
  /\ ready \/ status = 0
  /\ UNCHANGED <<bystanders, device, ready, status, best, period, windows, app,
                 stop>>
  /\ UNCHANGED monVars /\ UNCHANGED envVars /\ UNCHANGED history

\* while (status): measure the reference and enter the search.
MeasureReference ==
  /\ Goto("tune?", "search")
  /\ status # 0
  /\ rounds' = IF isTuningPeriodic THEN rounds ELSE rounds + 1
  /\ windows' = 0
  /\ UNCHANGED <<bystanders, device, ready, status, best, period, app, stop,
                 sessions, execDone>>
  /\ UNCHANGED monVars /\ UNCHANGED envVars

TryCap ==
  /\ Goto("search", "sampling")
  /\ windows < MaxWindows
  /\ \E cap \in Caps, accepted \in BOOLEAN :
       setPowerLimitInMicroWatts("parent", cap, accepted)
  /\ windows' = windows + 1
  /\ UNCHANGED <<bystanders, ready, status, best, period, app, stop>>
  /\ UNCHANGED monVars /\ UNCHANGED envVars /\ UNCHANGED history

\* The window polls the child while it samples, the search after it.
SampleWindow ==
  /\ Goto("sampling", "search")
  /\ WaitPid
  /\ UNCHANGED <<bystanders, device, ready, best, period, windows, stop>>
  /\ UNCHANGED monVars /\ UNCHANGED envVars /\ UNCHANGED history

ChooseCap ==
  /\ Goto("search", "apply")
  /\ best' \in Caps \union {Default}
  /\ UNCHANGED <<bystanders, device, ready, status, period, windows, app,
                 stop>>
  /\ UNCHANGED monVars /\ UNCHANGED envVars /\ UNCHANGED history

\* Variant: the test window is not added to the repetition period.
InitialPeriod_NoTestWindow == IF isTuningPeriodic THEN RepeatWindows ELSE 1

\* repetitionPeriodInUs is an int: a product beyond it converts to a value
\* that is not positive, here 0.
InitialPeriod ==
  LET asked == (IF isTuningPeriodic THEN RepeatWindows ELSE 0) + 1
  IN  IF asked <= MaxPeriod THEN asked ELSE 0

\* Variant: the device keeps the cap of the last window.
ApplyBest_LastCapKept ==
  /\ Goto("apply", "exec")
  /\ UNCHANGED device
  /\ period' = InitialPeriod
  /\ execDone' = 0
  /\ UNCHANGED <<bystanders, ready, status, best, windows, app, stop, sessions,
                 rounds>>
  /\ UNCHANGED monVars /\ UNCHANGED envVars

ApplyBest ==
  /\ Goto("apply", "exec")
  /\ \E accepted \in BOOLEAN :
       setPowerLimitInMicroWatts("parent", best, accepted)
  /\ period' = InitialPeriod
  /\ execDone' = 0
  /\ UNCHANGED <<bystanders, ready, status, best, windows, app, stop, sessions,
                 rounds>>
  /\ UNCHANGED monVars /\ UNCHANGED envVars

\* The loop condition of execPhase.
ExecGoesOn == status # 0 /\ period > 0

\* Variant: the flag is never looked at.
AfterExecWindow_FlagIgnored == "exec"

\* The load of the flag decides whether the loop is left.
AfterExecWindow == IF flag THEN "clear" ELSE "exec"

\* One turn of the loop of execPhase: a window, the countdown, the poll, the
\* load of the flag.
ExecWindow ==
  /\ main = "exec" /\ ExecGoesOn
  /\ period' = IF isTuningPeriodic THEN period - 1 ELSE period
  /\ execDone' = IF isTuningPeriodic THEN execDone + 1 ELSE execDone
  /\ WaitPid
  /\ main' = AfterExecWindow
  /\ UNCHANGED <<bystanders, device, ready, best, windows, stop, sessions,
                 rounds>>
  /\ UNCHANGED monVars /\ UNCHANGED envVars

\* The store that follows the load is a step of its own: the monitor may
\* raise the flag again in between.
ClearFlag ==
  /\ Goto("clear", "restore")
  /\ flag' = FALSE
  /\ UNCHANGED <<bystanders, device, ready, status, best, period, windows, app,
                 mon, last, stop>>
  /\ UNCHANGED envVars /\ UNCHANGED history

ExecEnds ==
  /\ Goto("exec", "restore")
  /\ ~ExecGoesOn
  /\ UNCHANGED <<bystanders, device, ready, status, best, period, windows, app,
                 stop>>
  /\ UNCHANGED monVars /\ UNCHANGED envVars /\ UNCHANGED history

\* Variant: the default limits are left to ~Eco.
RestoreLimits_LeftToDestructor ==
  /\ Goto("restore", "tune?")
  /\ UNCHANGED <<bystanders, device, ready, status, best, period, windows, app,
                 stop>>
  /\ UNCHANGED monVars /\ UNCHANGED envVars /\ UNCHANGED history

RestoreLimits ==
  /\ Goto("restore", "tune?")
  /\ \E accepted \in BOOLEAN : restoreDefaultLimits("parent", accepted)
  /\ UNCHANGED <<bystanders, ready, status, best, period, windows, app, stop>>
  /\ UNCHANGED monVars /\ UNCHANGED envVars /\ UNCHANGED history

LoopEnds ==
  /\ Goto("tune?", "report")
  /\ status = 0
  /\ UNCHANGED <<bystanders, device, ready, status, best, period, windows, app,
                 stop>>
  /\ UNCHANGED monVars /\ UNCHANGED envVars /\ UNCHANGED history

StopMonitor ==
  /\ Goto("report", "join")
  /\ stop' = TRUE
  /\ UNCHANGED <<bystanders, device, ready, status, best, period, windows,
                 app>>
  /\ UNCHANGED monVars /\ UNCHANGED envVars /\ UNCHANGED history

JoinMonitor ==
  /\ Goto("join", "returned")
  /\ mon = "ended"
  /\ UNCHANGED <<bystanders, device, ready, status, best, period, windows, app,
                 stop>>
  /\ UNCHANGED monVars /\ UNCHANGED envVars /\ UNCHANGED history

\* The caller starts the next session it has planned on the same object ...
NextSession ==
  /\ Goto("returned", "idle")
  /\ sessions < planned
  /\ UNCHANGED <<bystanders, device, ready, status, best, period, windows, app,
                 stop>>
  /\ UNCHANGED monVars /\ UNCHANGED envVars /\ UNCHANGED history

\* ... or leaves main() after the last one, where ~Eco restores the limits.
DestroyEco ==
  /\ Goto("returned", "exit")
  /\ sessions = planned
  /\ \E accepted \in BOOLEAN : restoreDefaultLimits("parent", accepted)
  /\ UNCHANGED <<bystanders, ready, status, best, period, windows, app, stop>>
  /\ UNCHANGED monVars /\ UNCHANGED envVars /\ UNCHANGED history

MainStep ==
  \/ StartSession \/ Fork \/ ForkFails
  \/ PollBeforeWait \/ WaitSample \/ WaitEnds
  \/ MeasureReference \/ TryCap \/ SampleWindow \/ ChooseCap
  \/ ApplyBest \/ ExecWindow \/ ClearFlag \/ ExecEnds \/ RestoreLimits
  \/ LoopEnds \/ StopMonitor \/ JoinMonitor \/ NextSession \/ DestroyEco

-----------------------------------------------------------------------------
(* The monitor thread *)

MonitorUnchanged ==
  /\ UNCHANGED <<bystanders, device, ready, status, best, period, windows, app,
                 stop>>
  /\ UNCHANGED envVars /\ UNCHANGED history

\* last_write_time on a file that is gone throws; nothing catches it and
\* std::terminate ends the whole process, destructors not run.
Terminate == main' = "aborted" /\ mon' = "ended" /\ UNCHANGED <<last, flag>>

ReadBaseline ==
  /\ mon = "baseline" /\ main # "aborted"
  /\ IF file.present
     THEN mon' = "stop?" /\ last' = file.mtime /\ UNCHANGED <<main, flag>>
     ELSE Terminate
  /\ MonitorUnchanged

TestStop ==
  /\ mon = "stop?" /\ main # "aborted"
  /\ mon' = IF stop THEN "ended" ELSE "sleep"
  /\ UNCHANGED <<main, last, flag>> /\ MonitorUnchanged

\* The thread wakes up and asks whether the file exists.
CheckFile ==
  /\ mon = "sleep" /\ main # "aborted"
  /\ mon' = IF file.present THEN "read" ELSE "stop?"
  /\ UNCHANGED <<main, last, flag>> /\ MonitorUnchanged

\* Variant: the modification time that was seen is not remembered.
ReadFile_NotRemembered ==
  /\ mon = "read" /\ main # "aborted"
  /\ IF ~file.present
     THEN Terminate
     ELSE /\ mon' = "stop?" /\ flag' = (flag \/ file.mtime # last)
          /\ UNCHANGED <<main, last>>
  /\ MonitorUnchanged

ReadFile ==
  /\ mon = "read" /\ main # "aborted"
  /\ IF ~file.present
     THEN Terminate
     ELSE /\ mon' = "stop?" /\ last' = file.mtime
          /\ flag' = (flag \/ file.mtime # last)
          /\ UNCHANGED main
  /\ MonitorUnchanged

MonitorStep == ReadBaseline \/ TestStop \/ CheckFile \/ ReadFile

-----------------------------------------------------------------------------
(* The child process *)

ChildUnchanged ==
  /\ UNCHANGED <<main, ready, status, best, period, windows, type, planned,
                 stop>>
  /\ UNCHANGED monVars /\ UNCHANGED envVars /\ UNCHANGED history

ChildExecs ==
  /\ app = "forked" /\ app' = "running"
  /\ UNCHANGED <<device, loose>> /\ ChildUnchanged

\* dup2 fails and the child aborts.
ChildAborts ==
  /\ app = "forked" /\ app' = "failed"
  /\ UNCHANGED <<device, loose>> /\ ChildUnchanged

\* execvp fails: mainAppProcess returns and the child goes on with
\* reportResult and the join of a thread that fork did not copy.
ExecFails ==
  /\ ExecMayFail
  /\ app = "forked" /\ app' = "join"
  /\ UNCHANGED <<device, loose>> /\ ChildUnchanged

\* That join is undefined: it hangs, crashes, or returns at once.
ChildJoin ==
  /\ app = "join" /\ app' \in {"hung", "failed", "unwind"}
  /\ UNCHANGED <<device, loose>> /\ ChildUnchanged

\* A child that returned from its last planned session, the only one in DEPO,
\* leaves main() as its parent would: ~Eco restores the default limits of the
\* device and the process exits with 0.
ChildUnwinds ==
  /\ app = "unwind" /\ app' = "exited"
  /\ sessions = planned
  /\ \E accepted \in BOOLEAN : restoreDefaultLimits("copy", accepted)
  /\ UNCHANGED loose /\ ChildUnchanged

\* With sessions left to do, it goes on with them: a second program that tunes
\* the same device, and forks children that may do the same.
ChildGoesOn ==
  /\ app = "unwind" /\ app' = "loops"
  /\ sessions < planned
  /\ loose' = TRUE
  /\ UNCHANGED device /\ ChildUnchanged

\* Such a copy programs any cap, or restores the default limits, at any moment.
\* (A missing trigger file that it creates is a TouchFile.)
CopyProgramsLimit ==
  /\ loose
  /\ \E cap \in Caps \union {Default}, accepted \in BOOLEAN :
       setPowerLimitInMicroWatts("copy", cap, accepted)
  /\ UNCHANGED <<app, loose>> /\ ChildUnchanged

\* A copy ends a session, and at last itself, only when its own child exited
\* with 0: none of its offspring outlives it.
CopyUnwinds ==
  /\ app = "loops" /\ app' = "exited"
  /\ \E accepted \in BOOLEAN : restoreDefaultLimits("copy", accepted)
  /\ loose' = FALSE
  /\ ChildUnchanged

\* A copy that aborts leaves its offspring behind.
CopyAborts ==
  /\ app = "loops" /\ app' = "failed"
  /\ UNCHANGED <<device, loose>> /\ ChildUnchanged

AppEnds ==
  /\ app = "running" /\ app' \in {"exited", "failed"}
  /\ UNCHANGED <<device, loose>> /\ ChildUnchanged

ChildStep ==
  \/ ChildExecs \/ ChildAborts \/ ExecFails \/ ChildJoin \/ ChildUnwinds
  \/ ChildGoesOn \/ CopyProgramsLimit \/ CopyUnwinds \/ CopyAborts \/ AppEnds

-----------------------------------------------------------------------------
(* Whoever uses the trigger file *)

EnvUnchanged ==
  /\ UNCHANGED <<bystanders, device, app, stop>>
  /\ UNCHANGED mainVars /\ UNCHANGED monVars /\ UNCHANGED history

TouchFile ==
  /\ touches + removals + planned < MaxChanges
  /\ touches' = touches + 1
  /\ file' = [present |-> TRUE, mtime |-> file.mtime + 1]
  /\ UNCHANGED removals /\ EnvUnchanged

RemoveFile ==
  /\ touches + removals + planned < MaxChanges /\ file.present
  /\ removals' = removals + 1
  /\ file' = [file EXCEPT !.present = FALSE]
  /\ UNCHANGED touches /\ EnvUnchanged

\* Nothing is left to do in a process that ended.
Ended == main \in {"exit", "aborted"} /\ UNCHANGED vars

Next ==
  MainStep \/ MonitorStep \/ ChildStep \/ TouchFile \/ RemoveFile \/ Ended

\* The operating system schedules both threads; the child may run for ever.
Fairness == WF_vars(MainStep) /\ WF_vars(MonitorStep)

Spec == Init /\ [][Next]_vars

FairSpec == Spec /\ Fairness

-----------------------------------------------------------------------------
(* Properties *)

MainPoints ==
  {"idle", "fork", "poll", "wait", "tune?", "search", "sampling", "apply",
   "exec", "clear", "restore", "report", "join", "returned", "exit",
   "aborted"}

\* Every variable stays in the set its code gives it.
TypeOK ==
  /\ main \in MainPoints /\ type \in TriggerTypes /\ ready \in BOOLEAN
  /\ status \in {0, 1} /\ limit \in Caps \union {Default}
  /\ best \in Caps \union {Default} /\ period \in Nat /\ windows \in Nat
  /\ app \in {"none", "forked", "running", "join", "hung", "unwind", "loops",
              "exited", "failed", "reapedExited", "reapedFailed"}
  /\ mon \in {"none", "baseline", "stop?", "sleep", "read", "ended"}
  /\ last \in Nat /\ flag \in BOOLEAN /\ stop \in BOOLEAN
  /\ file \in [present : BOOLEAN, mtime : Nat]
  /\ touches \in Nat /\ removals \in Nat
  /\ sessions \in Nat /\ rounds \in Nat /\ execDone \in Nat
  /\ planned \in Nat /\ lastSet \in {"parent", "copy", "refused"}
  /\ loose \in BOOLEAN

\* The control points at which a session has programmed a cap.
Capped == {"search", "sampling", "apply", "exec", "clear", "restore"}

\* Outside a round the device has its default limits: a round that ends
\* undoes its cap on every path, so neither the reference of the next round, nor
\* the next session, nor the caller inherits one. Three things take that away:
\* an abort of the process, a device that refused the last limit it was asked
\* for, and, while a session runs, a copy of the program that is loose.
DefaultOutsideRounds ==
  main \notin Capped \union {"aborted"} =>
    \/ limit = Default
    \/ lastSet = "refused"
    \/ loose /\ main \in {"poll", "wait", "tune?"}

\* While the execution phase runs, the device has the cap the search chose,
\* unless it refused a limit or a child whose execvp failed programmed one.
ExecUnderBest ==
  main \in {"exec", "clear", "restore"} /\ lastSet = "parent" => limit = best

\* A session is over only when there is no child or the child exited with
\* status 0 and was reaped: no zombie is left, and the tuning of an
\* application that failed never ends.
SessionEndsAfterCleanExit ==
  main \in {"report", "join", "returned", "exit"} =>
    app \in {"none", "reapedExited"}

\* Without a period, a session tunes once, and again only for a modification
\* of the trigger file: no modification is counted twice, in whatever order
\* the flag is raised, loaded and cleared.
RetuneOnlyOnTrigger ==
  ~isTuningPeriodic => rounds <= sessions + touches

\* A periodic execution phase that ends although the application runs and
\* nobody asked for it has lasted the configured period.
PeriodHonoured ==
  [][main = "exec" /\ main' = "restore" /\ status # 0 =>
       execDone >= RepeatWindows + 1]_vars

\* A modification that the monitor has yet to see ends the running execution
\* phase, unless the file is removed again or the process aborts.
TouchEndsExec ==
  (/\ main = "exec" /\ file.present /\ file.mtime # last /\ ~stop
   /\ mon \in {"stop?", "sleep", "read"})
  ~> (main # "exec" \/ ~file.present)

\* Once the application has exited with 0, a session that is past its wait
\* phase comes to its end (or its process aborts).
CleanExitEndsSession ==
  (app = "exited" /\ main \in Capped \union {"tune?"})
  ~> main \in {"returned", "aborted"}

=============================================================================
