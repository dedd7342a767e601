--------------------------- MODULE StaticProfiler ---------------------------
(***************************************************************************)
(* StEP: the application is run again and again, under every power cap of  *)
(* the device, and the cap of least energy, energy x time and M+ reported. *)
(*                                                                         *)
(* main switches the NMI watchdog off and takes a device flag out of the   *)
(* arguments. One warm-up run and the reference, an average of             *)
(* NumIterations runs, are measured under the limit the device has; then   *)
(* each cap of the list gets an average of its own, until one run time     *)
(* falls behind the reference by more than PerfDrop percent. The           *)
(* destructor of Eco restores limit and watchdog, unless the application   *)
(* ended with a non-zero code: std::exit destroys nothing on the stack; or *)
(* StEP was killed, by the SIGINT of a user for one: it handles no signal. *)
(*                                                                         *)
(* A result holds sums over NumIterations runs: the common divisor changes *)
(* no comparison.                                                          *)
(***************************************************************************)
EXTENDS Integers, Sequences, SequencesExt

CONSTANTS
  CommandLines,   \* argv of StEP, its own name left out
  DeviceFlag,     \* "--gpu=N" or "--xpu=N"
  Ranges,         \* [low, high] in micro watts the device may report
  Default,        \* the limit the device has when StEP starts
  PercentStep, NumIterations, PerfDrop, K,   \* ParamsConfig
  Measures,       \* [energy, time] of a run of the application to its end
  Partial,        \* [energy, time] of a run that did not come to its end
  MaxCaps         \* bound: length of the list of caps

\* main reads argv[1] before it looks at argc: there is no run without it.
ASSUME ProfilerAssumption ==
  /\ \A args \in CommandLines : args # <<>> /\ args \in Seq(ToSet(args))
  /\ \A r \in Ranges : r.low \in Nat /\ r.high \in Nat /\ r.low <= r.high
  /\ PercentStep \in 1 .. 100 /\ NumIterations \in Nat \ {0}
  /\ PerfDrop \in Nat /\ K \in Nat \ {0} /\ MaxCaps \in Nat
  /\ \A m \in Measures \union Partial : m.energy \in Nat /\ m.time \in Nat

VARIABLES
  pc,        \* control point of main and staticEnergyProfiler
  typed,     \* the arguments the user typed
  argv,      \* argv[1] .. up to the null pointer
  watchdog,  \* /proc/sys/kernel/nmi_watchdog, switched on or off
  defaultWatchdog,
  range, limit, \* of the device
  caps,      \* powerLimitsVec
  candidate, \* limit_uW of the loop that fills it
  phase,     \* what the runs of the application are for
  sum,       \* the result under construction
  results,   \* resultsVec
  choice,    \* the results reported as best, by metric
  refused    \* history: which calls the device refused: a cap, the default

device == <<range, limit>>
lists == <<caps, candidate>>
vars == <<pc, typed, argv, watchdog, defaultWatchdog, range, limit, caps,
          candidate, phase, sum, results, choice, refused>>

-----------------------------------------------------------------------------
(* FinalPowerAndPerfResult *)

\* The default constructor: nothing measured yet. `runs` and `under` are
\* history: how many runs were added, and what for and under which limit
\* they were made.
NoResult == [powercap |-> 0, energy |-> 0, time |-> 0, runs |-> 0, under |-> {}]

\* runAppWithSampling: what the device used since it was reset, at the limit
\* it has.
RunResult(m) == [energy |-> m.energy, time |-> m.time,
                 made |-> [phase |-> phase, limit |-> limit]]

\* operator+=; the division by the number of runs is left out.
AddRun(s, r) ==
  [s EXCEPT !.energy = @ + r.energy, !.time = @ + r.time, !.runs = @ + 1,
            !.under = @ \union {r.made}]

\* The loop over numIterations_ is through; there is one warm-up.
RunsComplete(s) == phase = "warmup" \/ s.runs = NumIterations

\* 100 * timeDelta / reference time > perfDropStopCondition_.
BeyondPerfDrop(r, ref) == 100 * (r.time - ref.time) > PerfDrop * ref.time

enerTimeProd(r) == r.energy * r.time

\* Variant: the term of the time is lost.
mPlus_TimeForgotten(r, ref) == (K - 1) * r.energy * ref.time

\* checkPlusMetric with k, times k * E * t of the reference.
mPlus(r, ref) == (K - 1) * r.energy * ref.time + r.time * ref.energy

MetricOf(m, r) ==
  CASE m = "E"  -> r.energy
    [] m = "Et" -> enerTimeProd(r)
    [] m = "M+" -> mPlus(r, results[1])

Metric == {"E", "Et", "M+"}

\* std::min_element: the first of the smallest.
MinElement(m) ==
  LET value(i) == MetricOf(m, results[i])
  IN  CHOOSE i \in DOMAIN results :
        \A j \in DOMAIN results :
          value(i) < value(j) \/ (value(i) = value(j) /\ i <= j)

-----------------------------------------------------------------------------
(* main, up to the call of staticEnergyProfiler *)

Init ==
  /\ pc = "main" /\ typed \in CommandLines /\ argv = typed
  /\ watchdog \in BOOLEAN /\ defaultWatchdog = FALSE
  /\ range \in Ranges /\ limit = Default
  /\ caps = <<>> /\ candidate = range.high
  /\ phase = "warmup" /\ sum = NoResult /\ results = <<>>
  /\ choice = <<>> /\ refused = {}

\* Variant: the shift ends one argument early.
RemoveDeviceFlag_Short(args) ==
  IF Head(args) # DeviceFlag THEN args
  ELSE [i \in DOMAIN args |-> IF i + 1 < Len(args) THEN args[i + 1] ELSE args[i]]

\* The flag goes by shifting the others down. argc shrinks but nothing is
\* written behind the new end: execvp, which reads to the null pointer, finds
\* the last argument a second time.
RemoveDeviceFlag(args) ==
  IF Head(args) # DeviceFlag THEN args
  ELSE [i \in DOMAIN args |-> IF i < Len(args) THEN args[i + 1] ELSE args[i]]

readWatchdog == watchdog

modifyWatchdog(on) == watchdog' = on

\* The device is constructed; it may fail, with the watchdog off already.
Main ==
  /\ pc = "main"
  /\ modifyWatchdog(FALSE)
  /\ argv' = RemoveDeviceFlag(argv)
  /\ pc' \in {"eco", "terminated"}
  /\ UNCHANGED device /\ UNCHANGED lists
  /\ UNCHANGED <<typed, defaultWatchdog, phase, sum, results, choice, refused>>

\* Eco::Eco; a missing config.yaml throws out of main.
ConstructEco ==
  /\ pc = "eco"
  /\ \/ /\ pc' = "run"
        /\ defaultWatchdog' = readWatchdog
        /\ IF readWatchdog THEN modifyWatchdog(FALSE) ELSE UNCHANGED watchdog
     \/ /\ pc' = "terminated" /\ UNCHANGED <<watchdog, defaultWatchdog>>
  /\ UNCHANGED device /\ UNCHANGED lists
  /\ UNCHANGED <<typed, argv, phase, sum, results, choice, refused>>

-----------------------------------------------------------------------------
(* One run of the application: singleAppRunAndPowerSample *)

\* The application ended, by itself with code zero or by a signal; or fork or
\* waitpid failed: every one of these counts as a run.
RunCounts(m) ==
  /\ pc = "run"
  /\ sum' = AddRun(sum, RunResult(m))
  /\ pc' = IF RunsComplete(sum') THEN "measured" ELSE "run"
  /\ UNCHANGED device /\ UNCHANGED lists
  /\ UNCHANGED <<typed, argv, watchdog, defaultWatchdog, phase, results, choice,
                 refused>>

\* EP_stdout.txt could not be opened (abort), or the application ended with a
\* non-zero code, the 255 of a failed execvp included (std::exit).
RunTerminates ==
  /\ pc = "run" /\ pc' = "terminated"
  /\ UNCHANGED device /\ UNCHANGED lists
  /\ UNCHANGED <<typed, argv, watchdog, defaultWatchdog, phase, sum, results,
                 choice, refused>>

-----------------------------------------------------------------------------
(* staticEnergyProfiler *)

\* Variant: the warm-up counts as the first run of the reference.
WarmupDone_Kept ==
  /\ pc = "measured" /\ phase = "warmup"
  /\ pc' = (IF sum.runs = NumIterations THEN "measured" ELSE "run")
  /\ phase' = "reference"
  /\ UNCHANGED device /\ UNCHANGED lists
  /\ UNCHANGED <<typed, argv, watchdog, defaultWatchdog, sum, results, choice,
                 refused>>

WarmupDone ==
  /\ pc = "measured" /\ phase = "warmup"
  /\ pc' = "run" /\ phase' = "reference" /\ sum' = NoResult
  /\ UNCHANGED device /\ UNCHANGED lists
  /\ UNCHANGED <<typed, argv, watchdog, defaultWatchdog, results, choice, refused>>

ReferenceDone ==
  /\ pc = "measured" /\ phase = "reference"
  /\ pc' = "list" /\ phase' = "caps"
  /\ results' = <<[sum EXCEPT !.powercap = limit]>>
  /\ candidate' = range.high
  /\ UNCHANGED device
  /\ UNCHANGED <<typed, argv, watchdog, defaultWatchdog, caps, sum, choice, refused>>

Step == ((range.high - range.low) \div 100) * PercentStep

\* Variant: the comparison leaves the lowest limit out.
InLoop_Strict == candidate < 0 \/ candidate > range.low

\* limit_uW >= lowPowLimit_uW converts limit_uW to unsigned: a negative value
\* is a very large one.
InLoop == candidate < 0 \/ candidate >= range.low

\* One turn of prepareListOfPowerCapsInMicroWatts.
AppendCap ==
  /\ pc = "list" /\ InLoop /\ Len(caps) < MaxCaps
  /\ caps' = Append(caps, candidate)
  /\ candidate' = candidate - Step
  /\ UNCHANGED device
  /\ UNCHANGED <<pc, typed, argv, watchdog, defaultWatchdog, phase, sum, results,
                 choice, refused>>

\* The loop ends; or it outgrows the bound, and memory.
ListDone ==
  /\ pc = "list"
  /\ pc' = IF ~InLoop THEN "nextCap" ELSE "runaway"
  /\ InLoop => Len(caps) = MaxCaps
  /\ UNCHANGED device /\ UNCHANGED lists
  /\ UNCHANGED <<typed, argv, watchdog, defaultWatchdog, phase, sum, results,
                 choice, refused>>

\* The cap measured next; resultsVec begins with the reference.
Current == caps[Len(results)]

\* A device that refuses the cap (an NVML error, a file that cannot be opened)
\* prints a warning, and the runs take place under the cap before.
SetCap(accepted) ==
  /\ pc = "nextCap" /\ Len(results) <= Len(caps)
  /\ pc' = "run" /\ sum' = NoResult
  /\ limit' = IF accepted THEN Current ELSE limit
  /\ refused' = IF accepted THEN refused ELSE refused \union {"cap"}
  /\ UNCHANGED lists
  /\ UNCHANGED <<typed, argv, watchdog, defaultWatchdog, range, phase, results,
                 choice>>

CapDone ==
  /\ pc = "measured" /\ phase = "caps"
  /\ results' = Append(results, [sum EXCEPT !.powercap = Current])
  /\ pc' = IF BeyondPerfDrop(sum, results[1]) THEN "select" ELSE "nextCap"
  /\ UNCHANGED device /\ UNCHANGED lists
  /\ UNCHANGED <<typed, argv, watchdog, defaultWatchdog, phase, sum, choice, refused>>

\* Variant: the iterator is not compared with the end of the list.
CapsDone_Missing == FALSE /\ UNCHANGED vars

CapsDone ==
  /\ pc = "nextCap" /\ Len(results) > Len(caps)
  /\ pc' = "select"
  /\ UNCHANGED device /\ UNCHANGED lists
  /\ UNCHANGED <<typed, argv, watchdog, defaultWatchdog, phase, sum, results,
                 choice, refused>>

Select ==
  /\ pc = "select" /\ pc' = "return"
  /\ choice' = [m \in Metric |-> results[MinElement(m)]]
  /\ UNCHANGED device /\ UNCHANGED lists
  /\ UNCHANGED <<typed, argv, watchdog, defaultWatchdog, phase, sum, results, refused>>

\* Variant: the watchdog alone is restored.
DestroyEco_WatchdogOnly ==
  /\ pc = "return" /\ pc' = "ended"
  /\ modifyWatchdog(defaultWatchdog)
  /\ UNCHANGED device /\ UNCHANGED lists
  /\ UNCHANGED <<typed, argv, defaultWatchdog, phase, sum, results, choice, refused>>

\* Eco::~Eco, when main returns. The device may refuse its own limit like any
\* other, which is printed.
DestroyEco ==
  /\ pc = "return" /\ pc' = "ended"
  /\ \E accepted \in BOOLEAN :
       /\ limit' = IF accepted THEN Default ELSE limit
       /\ refused' = IF accepted THEN refused ELSE refused \union {"default"}
  /\ modifyWatchdog(defaultWatchdog)
  /\ UNCHANGED lists
  /\ UNCHANGED <<typed, argv, defaultWatchdog, range, phase, sum, results, choice>>

-----------------------------------------------------------------------------

\* A signal ends StEP at any moment; nothing is restored.
Kill ==
  /\ pc \notin {"ended", "terminated"} /\ pc' = "terminated"
  /\ UNCHANGED device /\ UNCHANGED lists
  /\ UNCHANGED <<typed, argv, watchdog, defaultWatchdog, phase, sum, results,
                 choice, refused>>

Profile ==
  \/ Main \/ ConstructEco
  \/ \E m \in Measures \union Partial : RunCounts(m)
  \/ RunTerminates
  \/ WarmupDone \/ ReferenceDone
  \/ AppendCap \/ ListDone
  \/ \E accepted \in BOOLEAN : SetCap(accepted)
  \/ CapDone \/ CapsDone \/ Select \/ DestroyEco

Next == Profile \/ Kill

\* The loop over waitpid samples until the application ends; nothing else in
\* StEP waits for another process. Nobody has to kill it.
Spec == Init /\ [][Next]_vars /\ WF_vars(Profile)

-----------------------------------------------------------------------------
(* Properties *)

\* The reference comes from runs under the limit the device had, each other
\* result from runs under the cap it is reported for, NumIterations of them;
\* the warm-up is in none. Only a device that refuses a cap breaks it.
ResultsUnderTheirCap ==
  \A i \in DOMAIN results :
    /\ results[i].runs = NumIterations
    /\ "cap" \notin refused =>
         results[i].under = {[phase |-> IF i = 1 THEN "reference" ELSE "caps",
                              limit |-> results[i].powercap]}
    /\ i = 1 => results[i].powercap = Default

\* There is a step, and the lowest limit is not below it.
RoomForStep == Step > 0 /\ range.low >= Step

\* A finished list starts at the highest limit, stays in the range of the
\* device and ends less than a step above the lowest, provided that there is a
\* step and the lowest limit is not below it: otherwise the loop goes on, with
\* the same limit or with negative ones.
CapsCoverRange ==
  pc \notin {"main", "eco", "list", "terminated"} /\ phase = "caps"
  /\ RoomForStep =>
    /\ pc # "runaway"
    /\ Head(caps) = range.high
    /\ \A i \in DOMAIN caps : caps[i] \in range.low .. range.high
    /\ Last(caps) - Step < range.low

\* No result, the reference included, beats the one reported for energy x time
\* or for M+ in one of energy and time without being worse in the other. With
\* k = 1 the energy does not count in M+.
Dominates(r, s) ==
  /\ r.energy <= s.energy /\ r.time <= s.time
  /\ r.energy < s.energy \/ r.time < s.time

ChoiceUndominated ==
  choice # <<>> =>
    \A m \in IF K > 1 THEN {"Et", "M+"} ELSE {"Et"}, i \in DOMAIN results :
      ~Dominates(results[i], choice[m])

\* A cap outlives StEP only when the application failed or StEP was killed (or
\* the list of caps ran away) after the first cap was programmed, or when the
\* device refused the limit ~Eco gave back to it: a profile that came to its end,
\* through the last cap or the drop of performance, leaves no other way.
CapOutlivesOnlyFailure ==
  limit # Default =>
    /\ phase = "caps"
    /\ \/ pc \in {"run", "measured", "nextCap", "select", "return", "terminated"}
       \/ pc = "ended" /\ "default" \in refused

\* The application gets every argument that was typed for it, in order; and
\* behind a device flag, the last one a second time: argc shrinks, and argv, which
\* execvp reads, does not.
AppArgumentsKept ==
  pc \in {"eco", "run"} =>
    argv = IF Head(typed) = DeviceFlag THEN Append(Tail(typed), Last(typed))
           ELSE typed

\* The profile of a device whose limits have room for a step comes to an end,
\* after the last cap, at the drop of performance or with a failure. (Without,
\* the list of caps never ends.)
ProfilerEnds ==
  RoomForStep ~> pc \in {"ended", "terminated"}

=============================================================================
