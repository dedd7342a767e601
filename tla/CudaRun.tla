------------------------------- MODULE CudaRun -------------------------------
(***************************************************************************)
(* DEPO or StEP on a CUDA device, from its command line to its end.        *)
(*                                                                         *)
(* CudaDevice takes the limit in force for the default and restores it at  *)
(* the end; an NVML call that fails is printed and passed over. DEPO makes *)
(* the application count every launch, by two variables of its environment *)
(* the application inherits; StEP leaves them as the user has set them.    *)
(* The application, its counter and the reader are those of KernelCounter. *)
(* A run may be killed at any moment; the limit and the file stay.         *)
(***************************************************************************)
EXTENDS KernelCounter

CONSTANTS
  Limits,    \* limits a search or a profile programs
  Factory,   \* the limit the card has at first
  MaxRuns,   \* bound: runs of DEPO or StEP
  MaxSets    \* bound: limits programmed in a run

ASSUME CudaAssumption ==
  /\ Limits \subseteq Nat \ {0} /\ Factory \in Nat \ {0}
  /\ MaxRuns \in Nat /\ MaxSets \in Nat

VARIABLES
  tool,      \* the program: "none", "DEPO" or "StEP"
  main,      \* its control point
  noTuning,  \* the option of DEPO
  limit,     \* power limit of the card
  default,   \* defaultPowerLimitInWatts_, Failed when it was not read
  handles,   \* deviceHandles_: "none", "null" or "filled"
  sets,      \* limits programmed in this run
  runs,      \* history: runs started
  found,     \* history: the limit when the run started
  nvmlFailed \* history: a call of NVML failed in this run

Failed == 0 - 1

process == <<tool, main, noTuning, sets, runs, found>>
card == <<limit, default, handles, nvmlFailed>>
cudaVars == <<vars, tool, main, noTuning, limit, default, handles, sets, runs,
              found, nvmlFailed>>

CudaInit ==
  /\ kernelCount = Unset /\ injected = FALSE
  /\ pc = [t \in Threads |-> "run"] /\ loaded = [t \in Threads |-> 0]
  /\ globalCounter = 0 /\ mutex = NoThread
  /\ stream = [open |-> FALSE, failed |-> FALSE]
  /\ file = NoLine
  /\ app = "none" /\ reader = "out" /\ value = 0
  /\ launches = 0 /\ reads = 0
  /\ tool = "none" /\ main = "off" /\ noTuning = FALSE
  /\ limit = Factory /\ default = Failed /\ handles = "none"
  /\ sets = 0 /\ runs = 0 /\ found = Factory /\ nvmlFailed = FALSE

GotoMain(from, to) == main = from /\ main' = to

CounterUnchanged == UNCHANGED vars

\* The user starts a tool, with an environment; not while an application of an
\* earlier run is left.
Start(name) ==
  /\ GotoMain("off", "device")
  /\ app # "running" /\ Fresh("none")
  /\ runs < MaxRuns /\ runs' = runs + 1
  /\ tool' = name
  /\ noTuning' \in IF name = "DEPO" THEN BOOLEAN ELSE {FALSE}
  /\ kernelCount' \in KernelCounts \union {Unset} /\ injected' \in BOOLEAN
  /\ sets' = 0 /\ found' = limit /\ nvmlFailed' = FALSE
  /\ reader' = "out" /\ value' = 0 /\ reads' = 0
  /\ UNCHANGED <<file, limit, default, handles>>

\* --help ends the program, a failing call of the driver as well.
EndsAtOnce ==
  /\ GotoMain("device", "off")
  /\ CounterUnchanged /\ UNCHANGED card
  /\ UNCHANGED <<tool, noTuning, sets, runs, found>>

\* Variant: the limit the card came with is taken for the default.
ConstructDevice_FactoryLimit ==
  /\ GotoMain("device", "environment")
  /\ handles' = "filled" /\ default' = Factory /\ UNCHANGED nvmlFailed
  /\ CounterUnchanged
  /\ UNCHANGED <<tool, noTuning, sets, runs, found, limit>>

\* One handle that cannot be had leaves all that follow it null.
initDeviceHandles == {"filled", "null"}

\* The limit in force, or -1.
getPowerLimitInWatts(ok) == IF ok THEN limit ELSE Failed

\* CudaDevice::CudaDevice: without NVML there are no handles; with a null handle
\* every call fails.
ConstructDevice ==
  /\ GotoMain("device", "environment")
  /\ handles' \in initDeviceHandles \union {"none"}
  /\ \E ok \in BOOLEAN :
       /\ ok => handles' = "filled"
       /\ default' = getPowerLimitInWatts(ok)
  /\ nvmlFailed' = (default' = Failed)
  /\ CounterUnchanged
  /\ UNCHANGED <<tool, noTuning, sets, runs, found, limit>>

\* Variant: a value the user has set is kept.
SetEnvironment_Kept ==
  /\ GotoMain("environment", "reset")
  /\ IF tool = "DEPO"
     THEN /\ injected' = TRUE
          /\ kernelCount' = IF kernelCount = Unset THEN 1 ELSE kernelCount
     ELSE UNCHANGED environment
  /\ UNCHANGED library /\ UNCHANGED readerVars /\ UNCHANGED <<file, app>>
  /\ UNCHANGED card /\ UNCHANGED <<tool, noTuning, sets, runs, found>>

SetEnvironment ==
  /\ GotoMain("environment", "reset")
  /\ IF tool = "DEPO" THEN injected' = TRUE /\ kernelCount' = 1
     ELSE UNCHANGED environment
  /\ UNCHANGED library /\ UNCHANGED readerVars /\ UNCHANGED <<file, app>>
  /\ UNCHANGED card /\ UNCHANGED <<tool, noTuning, sets, runs, found>>

\* /tmp/depo_gpu_path is not there or empty.
NoLibraryPath ==
  /\ tool = "DEPO" /\ GotoMain("environment", "off")
  /\ CounterUnchanged /\ UNCHANGED card
  /\ UNCHANGED <<tool, noTuning, sets, runs, found>>

\* CudaDevice::reset, in resetState before a fork; the power reading that
\* follows faults when there are no handles.
ResetCounter ==
  /\ GotoMain("reset", IF handles = "none" THEN "off" ELSE "fork")
  /\ file' = 0
  /\ UNCHANGED environment /\ UNCHANGED library /\ UNCHANGED readerVars
  /\ UNCHANGED app /\ UNCHANGED card
  /\ UNCHANGED <<tool, noTuning, sets, runs, found>>

Fork ==
  /\ GotoMain("fork", "run")
  /\ Fresh("running")
  /\ reads' = 0 /\ UNCHANGED <<reader, value, file>>
  /\ UNCHANGED environment /\ UNCHANGED card
  /\ UNCHANGED <<tool, noTuning, sets, runs, found>>

\* The limits a search tries: without the range of the card, 0 is all of them.
getMinMaxLimitInWatts(ok) == IF ok THEN Limits ELSE {0}

\* setPowerLimitInMicroWatts: NVML sets the limit or fails, and a value that is
\* not a limit, made of a range or of a default that was not read, is refused.
\* The conversion of a double to milli watts, which may lose one, is left out.
Programmed(to, ok) ==
  /\ ok => handles = "filled"
  /\ limit' = IF ok /\ to \notin {0, Failed} THEN to ELSE limit
  /\ nvmlFailed' = (nvmlFailed \/ ~ok)
  /\ UNCHANGED <<default, handles>>

\* Rounds of DEPO program and restore limits while the application runs, and,
\* when it failed or was killed, for ever.
Tune(to, ok) ==
  /\ tool = "DEPO" /\ ~noTuning /\ main = "run" /\ reader = "out"
  /\ sets < MaxSets /\ sets' = sets + 1
  /\ Programmed(to, ok)
  /\ CounterUnchanged /\ UNCHANGED <<tool, main, noTuning, runs, found>>

\* StEP programs the next limit when the application has ended; it is reset and
\* forked anew.
NextLimit(to, ok) ==
  /\ tool = "StEP" /\ GotoMain("reported", "reset")
  /\ sets < MaxSets /\ sets' = sets + 1
  /\ Programmed(to, ok)
  /\ CounterUnchanged /\ UNCHANGED <<tool, noTuning, runs, found>>

\* getPerfCounter while the application runs, by sample.
SampleCounter == main = "run" /\ CallGetPerfCounter /\ UNCHANGED process /\ UNCHANGED card

ReturnCounter ==
  /\ main \in {"run", "report"} /\ ReadFile
  /\ main' = IF main = "run" THEN "run" ELSE "reported"
  /\ UNCHANGED card /\ UNCHANGED <<tool, noTuning, sets, runs, found>>

\* StEP has no searches, and DEPO none without tuning.
RunsWithSampling == tool = "StEP" \/ noTuning

\* A session of DEPO ends after a clean exit; runAppWithSampling after any end
\* but a failure, which is std::exit.
AppEnded ==
  /\ main = "run" /\ reader = "out"
  /\ app = "exited" \/ (app = "killed" /\ RunsWithSampling)
  /\ IF RunsWithSampling
     THEN main' = "report" /\ reader' = "in" /\ reads' = reads + 1
     ELSE main' = "reported" /\ UNCHANGED <<reader, reads>>
  /\ UNCHANGED environment /\ UNCHANGED library /\ UNCHANGED <<file, app, value>>
  /\ UNCHANGED card /\ UNCHANGED <<tool, noTuning, sets, runs, found>>

StdExit ==
  /\ GotoMain("run", "off") /\ app = "failed" /\ reader = "out"
  /\ RunsWithSampling
  /\ CounterUnchanged /\ UNCHANGED card
  /\ UNCHANGED <<tool, noTuning, sets, runs, found>>

\* The destructor of Eco: restoreDefaultLimits.
DestroyEco(ok) ==
  /\ GotoMain("reported", "ended")
  /\ Programmed(default, ok)
  /\ CounterUnchanged /\ UNCHANGED <<tool, noTuning, sets, runs, found>>

Exit ==
  /\ GotoMain("ended", "off")
  /\ CounterUnchanged /\ UNCHANGED card
  /\ UNCHANGED <<tool, noTuning, sets, runs, found>>

Crash ==
  /\ main \notin {"off", "ended"} /\ main' = "off"
  /\ reader' = "gone"
  /\ UNCHANGED environment /\ UNCHANGED library
  /\ UNCHANGED <<file, app, value, reads>>
  /\ UNCHANGED card /\ UNCHANGED <<tool, noTuning, sets, runs, found>>

CudaNext ==
  \/ \E name \in {"DEPO", "StEP"} : Start(name)
  \/ EndsAtOnce \/ ConstructDevice \/ SetEnvironment \/ NoLibraryPath
  \/ ResetCounter \/ Fork
  \/ \E range, ok \in BOOLEAN :
       \/ \E to \in getMinMaxLimitInWatts(range) \union {default} : Tune(to, ok)
       \/ \E to \in getMinMaxLimitInWatts(range) : NextLimit(to, ok)
  \/ SampleCounter \/ ReturnCounter
  \/ AppEnded \/ StdExit
  \/ \E ok \in BOOLEAN : DestroyEco(ok)
  \/ Exit \/ Crash
  \/ AppStep /\ UNCHANGED process /\ UNCHANGED card

CudaSpec ==
  /\ CudaInit /\ [][CudaNext]_cudaVars
  /\ \A t \in Threads :
       WF_cudaVars(Step(t) /\ UNCHANGED process /\ UNCHANGED card)
  /\ WF_cudaVars(ReturnCounter)

-----------------------------------------------------------------------------
(* Properties *)

\* A run that comes to its end leaves the limit it found, whatever it
\* programmed in between, if no call of NVML failed in it. What an earlier run
\* that was killed left in the card is what it found, and stays for ever.
EndedRunKeepsLimit == main = "ended" /\ ~nvmlFailed => limit = found

\* What a run without tuning reports as the work of an application that came to
\* its end is every one of its launches under DEPO, the tool that sets the
\* environment up, whatever the user has set; and under StEP, when the user has
\* the library loaded, the launches up to the last full group of maxNumRanges,
\* of this run and not of the one before.
ReportCountsLaunches ==
  main = "reported" /\ app = "exited" /\ RunsWithSampling =>
    value = CASE tool = "DEPO" -> launches
              [] tool = "StEP" /\ injected -> launches - (launches % maxNumRanges)
              [] OTHER -> 0

=============================================================================
