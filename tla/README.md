# DEPO: a TLA+ verification of the energy-performance optimiser

DEPO runs an application, looks for the power limit of the CPU or GPU under
which the application does best (least energy, least energy-delay product, or
Energy SumDelay), and keeps the device under that limit while the application
runs. StEP, its static sibling, runs the application once per limit and reports
the best ones. This directory holds TLA+ models of the library behind both
(`src/lib/eco`), of the two programs, and of the counter side of
`src/profiling_injection`, the TLC runs that check them, and TLAPS proofs of the
properties that matter most.

`PROJECT.json` is the index: the components, the runs with their properties,
the source lines of every definition, the hazards of the code with the
properties that watch them, the divergences found, the variants of definitions
(`Name_What`) that show each property can fail, and the theorems.

## 1. Inventory

| Component | State | Operations | Talks to |
|---|---|---|---|
| Tuning session, `eco.cpp` | `status` of the child, chosen cap, flags `external_trigger_flag` and `stop_flag`, the trigger file | `runAppWithSearch`, `waitForTuningTrigger`, `execPhase`, `mainAppProcess`, `monitor_trigger_file`, `~Eco` | child process (fork, waitpid), monitor thread (flags), device (limits), search (call), trigger (call) |
| Searches, `algorithms/*.hpp` | range, candidates, best result | `operator()` | device (limits), accumulator (windows), `waitpid` |
| Metrics, `power_and_perf_result` | none | `isRightBetter`, `checkPlusMetric` | called by the searches and the logger |
| Device state accumulator, `device_state.cpp` | three readings, energy total, time of reset | `resetState`, `sample`, `getCurrentPowerAndPerf` | device (power, counter), trigger |
| Trigger and filters, `trigger.hpp`, `data_filter.cpp` | two rings, activity flag | `appendPowerSampleToSmaFilter`, `updateComputeActivityFlag`, `isDeviceReadyForTuning` | fed by the accumulator, asked by the session |
| RAPL, `Rapl.cpp`, `msr.cpp` | three readings and a total per power domain | `sample`, `reset`, `getCurrentPower` | MSRs of the processor |
| CUDA device, `cuda_device.cpp`; DEPO's environment for it | default limit, device handles, `INJECTION_KERNEL_COUNT` | constructor, `setPowerLimitInMicroWatts`, `restoreDefaultLimits`, `reset`, `getPerfCounter` | NVML, the application it starts |
| Injection library, `injection_2.cpp` | the file `kernels_count`, `globalCounter`, `ctxDataMutex` | launch callback, context callback, `EndExecution` | DEPO, through one file |
| Intel GPU metric collector, `xpu_perf_counter.hpp` | two buffers, counter, collector state, what is open | choice of the group, collect, get, reset, disable | collector thread, main thread, driver |
| Intel GPU limits, `xpu_device.cpp` | power handle, range, default limits | constructor's look-up and probe, `setPowerLimitInMicroWatts`, `restoreDefaultLimits` | the device, whose limits outlive the process |
| Intel CPU limits, `intel_device.cpp` | topology, directories, default limits, dump file | constructor, `setPowerLimitInMicroWatts`, `restoreDefaultLimits` | powercap files and MSRs, which outlive the process |
| Tools on the CPU, `apps/simple` | none | `set_cpu_power_limit`, `cpu_power_monitor` | the same files |
| Static profiler, `eco.cpp`, `apps/StEP` | list of caps, results, arguments | one average of runs per cap, selection | application, device |
| NMI watchdog, `eco.cpp` | value to write back | switched off, written back | `/proc/sys/kernel` |
| Command line of DEPO | metric, tuning on or off | `main` | session |
| Parameters, logging, plots, CUPTI helpers | | | not modelled, see section 8 |

What is hard about this code:

- **three actors in a session**: the main thread, the monitor thread of the
  trigger file and the child share a flag, a file, the exit status and the
  limits of the device; nothing is locked, and the child that cannot execute
  the application continues in its parent's code;
- **two processes or threads on one counter**: the kernel counter file is
  rewritten while it is read; the metric buffers are swapped while they fill;
- **state that survives**: limits survive a process that is killed, readings
  survive a reset, flags survive a session, a mutex survives `exit`;
- **calls that fail** and are printed and passed over: NVML returns the power
  -1, Level Zero throws in one thread or the other, a device refuses a cap;
- **numbers**: 32-bit counters that wrap, an `int` compared with an `unsigned`,
  a period in an `int`, candidates rounded anew in each turn, the average of an
  empty filter.

## 2. Modules

    EcoSession ............ session, monitor, child     EcoSessionProofs
        relies on the contract
    CapSearch ............. what a search promises
        implemented by
    LinearSearch .......... sweep                       LinearSearchProofs
    GoldenSection ......... golden section search       GoldenSectionProofs
        both EXTEND
    Metrics ............... comparison of results, options of DEPO

    IntelReadings ......... an Intel CPU and its energy IntelReadingsProofs
        EXTENDS
    DeviceState ........... readings and energy total
    Rapl .................. wrapping energy counters

    CudaRun ............... DEPO or StEP on a CUDA card CudaRunProofs
        EXTENDS
    KernelCounter ......... the counter file, injection library

    MetricCollector ....... instructions of Intel GPUs  XpuProofs
    XpuLimits ............. limits of an Intel GPU      XpuProofs

    PowerTrigger .......... filters and readiness       FoldProofs
    IntelLimits ........... limits of CPU packages      FoldProofs
        EXTENDS
    IntelTopology ......... packages, domains, directories

    StaticProfiler ........ StEP                        StaticProfilerProofs

The right column names the module that holds the proofs. Two hold those of two
modules: `XpuProofs`, the two of an Intel GPU, and `FoldProofs`, the two that
compute with folds over sequences and share the lemmas about them; there the
initial states, steps and specifications of `XpuLimits` and `PowerTrigger` have
names of their own (`XpuSpec`, `TriggerSpec`). `MC*` modules only give constants their values. Each variable of a module is
named for the member or local it stands for; *history* variables, marked so,
record the past for a property and are read by no guard, except for the ones
that bound the state space.

**EcoSession.** One action per step of `runAppWithSearch` that another actor
can observe: `StartSession` (trigger file, monitor), `Fork`/`ForkFails`,
`PollBeforeWait`, `WaitSample`, `WaitEnds`, `MeasureReference`,
`TryCap`/`SampleWindow`/`ChooseCap` (the search), `ApplyBest`, `ExecWindow`,
`ClearFlag`, `ExecEnds`, `RestoreLimits`, `LoopEnds`, `StopMonitor`,
`JoinMonitor`, `NextSession`, `DestroyEco`. The load and the store of the flag
(`eco.cpp:278-281`) are two actions. The monitor has a step for each of its
file-system calls, since the file may vanish between two. The child executes,
aborts, or falls through; the join it then does on a thread it does not have
is undefined and may hang, crash or return. A child that returns from it in DEPO,
or in the last session of `dynamic_eco_gss`, restores the default limits and
exits (`ChildUnwinds`); one that has sessions left to do (`planned`) goes on with
them, as a second copy of the program (`ChildGoesOn`). What that copy and its own
children do to the limits is any sequence of `CopyProgramsLimit`, until it ends
(`CopyUnwinds`, after its child) or aborts (`CopyAborts`, leaving its child
`loose`). Each call that sets or restores a limit may be refused by the device,
which the code prints and passes over (`cuda_device.cpp:163-172`); `lastSet`
records who made the last such call, or that it was refused. The packages of a
CPU count as one limit here. `status` keeps only whether the raw word is zero:
nothing in the code looks further.

**CapSearch, LinearSearch, GoldenSection.** `CapSearch` is the abstract
specification: some windows, at most `MaxWindows`, each under a limit of the
range, then one limit of the range or that of the reference, and the search
does return. Both algorithms are shown to implement it (`ImplementsCapSearch`,
twelve and nine windows), and `EcoSession` uses just that: its `TryCap` and
`ChooseCap` are those of `CapSearch`. `GoldenSection` computes candidates in
integers with 618 / 1000 for PHI; the code truncates a product with PHI as a
float, to which this is a near approximation.
`Metrics` also says which metric a command line selects.

**DeviceState, Rapl, IntelReadings.** The first two follow their classes method
by method. A sample of the accumulator is three steps: the power API is sampled
(`BeginSample`), the performance counter is read (`ReadCounter`), and the time is
taken (`FinishSample`); the time of the reset, which only `getTimeSinceReset`
reads, is left out. `Rapl` has the state of one object per package: four domains
(PKG, PP0, PP1, DRAM), of which a processor lacks some, a unit of its own for
DRAM, and the power the default domain reports. `IntelReadings` is the composition
an Intel CPU is: the Rapl objects of all packages read their registers and their
clock in the first step of a sample (`SampleDevice`), the accumulator its own clock
in the third, at most `MaxLag` ticks later; and between any two steps time passes,
kernels run and each domain consumes, inside a sample as well as between samples.

**PowerTrigger** keeps averages as exact fractions (times `Scale`), with a value
for NaN that makes every comparison false. A reading may fail: it is -1 on a
CUDA card, and 0/0 on an Intel GPU, whose older energy sample is dropped before
the newer one is taken.

**KernelCounter, CudaRun.** Each memory or file access another process or thread
can see is a step: load, add, test, open, write, close. A thread that creates a
context locks `ctxDataMutex`, may fail in its set-up and then exits with the lock
held. `CudaRun` puts a program around it: DEPO or StEP, started with or without
tuning, the device with each NVML call failing or not, the environment the
application inherits, the report at the end, a kill at any moment, and the next
run on the same card and file. A thread whose set-up fails exits with the lock it
then asks for in `EndExecution` (`injection_2.cpp:406`): it hangs, in the model as
in the code.

**MetricCollector.** Set-up (group, metrics, context, thread), the resources
opened one after the other, each of which may fail, the two buffers (swap under
the mutex, add up and clear without it), and the shutdown. A report is an
identity with an amount, so that loss and duplication are visible. The destructor
of the collector is modelled for a user of the class: `~XPUDevice` only disables
the collection (`xpu_device.hpp:61-67`).

**XpuLimits** models runs on a machine with several GPUs, each run ended by a
kill or a failing call anywhere. The program is StEP built for Intel GPUs, or a
test: DEPO constructs no `XPUDevice`. A device clamps what it is given (external,
as the comment at `xpu_device.cpp:364` describes it), in milli watts, while the
program keeps whole watts (`Unit` apart). A limit on its way through a double may
lose a milli watt; that is left out, here and in `CudaRun`.

**IntelLimits, IntelTopology.** `IntelTopology` computes what the constructor
detects: packages from the package ids of the cores, power domains from the
model, directories from both. `IntelLimits` runs DEPO, `cpu_power_monitor` or
`set_cpu_power_limit` on such a machine, each killed after any write or not.
The dump of the defaults is written section by section, one for each domain, and a
kill leaves the sections written so far, for good: the file exists then. The
hardware may not do what it is told: a package the BIOS locked keeps limit and
window (`Rapl.cpp:127`, `set_cpu_power_limit.cpp:80`), and a register holds
certain windows only (`set_cpu_power_limit.cpp:90`; the constant `Quantized`).
The two limits and windows of a package are represented by the long-term ones:
the short-term ones are read and written back next to them.

**StaticProfiler** goes from the arguments (the device flag is shifted out) and
the watchdog to the warm-up, the reference, the list of caps in machine
arithmetic, the averages, the stop condition, the selection and the destructor,
which `std::exit` does not reach. The device may refuse any limit, the one the
destructor gives back included, and StEP may be killed at any moment (`Kill`).

## 3. Runs

Every run finishes within about three minutes on two workers, most in seconds.

| Run | Question |
|---|---|
| `session` | The one session of DEPO and two on one object, every trigger type, a device that may refuse a limit, execvp may fail and leave a second copy of the program, the trigger file touched and removed: limits per phase, how a session ends, what re-tunes, the period, and progress (a touch ends the execution phase, a clean exit ends the session) |
| `linear` | The sweep under every metric: result, coverage, termination, contract |
| `linear_eds` | *violation*: the Energy SumDelay metric is not minimised |
| `golden` | The golden section search on arbitrary measurements and on applications with a single minimum anywhere in the range: candidates, reuse, minimum kept, contract |
| `power_trigger` | Every sequence of readings, failing ones included, through both filters: what readiness means |
| `kernel_threads` | *violation*: two launching threads, the count falls |
| `xpu_limits` | Three runs of StEP or a test that may crash, three devices: the range is found |
| `static_profiler` | StEP over three ranges with applications that fail, a device that refuses limits, a kill at any moment: results, caps, choice, arguments, what outlives it, and that the profile ends |
| `intel_crash` | Three runs of three programs that may crash, four processors, locked packages, rounded windows: no trace, the dump, what a cap does to every package, directories |
| `intel_readings` | Two packages, all power domains, two resets, energy and time passing inside a sample too: no wrapped difference, no lost wrap, two accountings of the energy that agree |
| `metric_buffers` | Collector against gets, resets and shutdown with failing calls: double buffer, counter, order of opening and closing, both waits end |
| `cuda_run` | Two runs of DEPO or StEP that may be killed, one launching thread: the limit left behind, the launches reported, the counter file |

Violation runs state what a document, comment or test of the repository says;
`PROJECT.json` quotes it in "findings". More disagreements show in the models
without a run of their own, as a term or a precondition of a property:

- a period above 2146 s overflows (`eco.cpp:268` against `config.yaml:11`; the
  model takes it when `RepeatWindows` reaches `MaxPeriod`);
- the first sample after a reset counts energy from before it
  (`device_state.cpp:59` against `device_state.hpp:54`): it multiplies a power
  measured since the reset with the time since the last sample before it.
  `EnergyIsConsumed` compares from that sample on;
- a sample has two times, that of the Rapl objects (`Rapl.cpp:160`) and that of the
  accumulator (`device_state.cpp:57`), with the reading of the performance counter
  between them: the energy total takes powers of one interval and lengths of
  another (the term `MaxLag` of `EnergyIsConsumed`);
- a limit the device refuses is printed and passed over (`cuda_device.cpp:163`,
  `:223`): after a refused restore the next reference is measured, and the session
  or StEP ends, under the cap of before (exceptions of `DefaultOutsideRounds`,
  `ExecUnderBest`, `CapOutlivesOnlyFailure`);
- in `dynamic_eco_gss` a child whose execvp failed goes on with the sessions left
  and tunes the device next to its parent (`loose`, same properties);
- StEP handles no signal: a kill leaves the cap in force
  (`CapOutlivesOnlyFailure`);
- an application gets the last of its arguments twice behind a device flag of StEP
  (`static_energy_profiler.cpp:47`; `AppArgumentsKept` says so);
- a dump that was interrupted is never completed (`intel_device.cpp:325`), which
  `DumpKeepsFirst` allows for;
- a package the BIOS locked does not take its share of a cap, nor is the share
  given to another one (`CapIsEnforced` is about the others);
- an application whose context set-up fails hangs, and DEPO with it
  (`injection_2.cpp:406`); no property is about it;
- a report in flight makes the instruction counter non-zero after a reset
  (`xpu_perf_counter.hpp:198` against `tests/test_xpu.cpp:314`);
- a limit that a killed run left behind is taken for the default and the maximum
  (`intel_device.cpp:325` against `:81`; `DumpKeepsFirst` is stated for the dump
  because it is not true of the default);
- the watchdog that `~Eco` writes back is the zero that StEP's `main` wrote
  before `Eco` read it (`static_energy_profiler.cpp:36`);
- a list of caps runs away when the lowest limit is below one step
  (`eco.cpp:105`; the precondition of `CapsCoverRange`).

### Bounds and why they are enough

- *Session*: caps are compared for equality only, with each other and with the
  default; one cap besides the default tells "the chosen one" from "another
  one" (the search may choose either), and the theorems hold for any set of
  caps. `MaxChanges = 3` bounds the changes of the trigger file and the planned
  sessions together: two changes, at any moment, in the one session of DEPO, or one
  in two sessions. A change may come between the load and the store of the flag.
  `RepeatWindows = 1`,
  `MaxPeriod = 2`: a period that fits. Two sessions show what survives one.
  No symmetry is used, since liveness is checked.
- *Searches*: the linear range has a length that is no multiple of its step, so
  the clamped step occurs; measurements include windows without instructions. The
  golden section runs on 50..300 W in milli watts, where rounding is realistic,
  with measurements in any order and with 250 places for a single minimum.
- *IntelReadings*: two packages, interchangeable (symmetry; no liveness is
  checked); a counter word of 8 that starts just below its end, and domains that
  advance by different amounts, so that they wrap at different times, before the
  first reset as well as after it; at most one wrap per sample, which is what
  sampling "pretty frequently" (`device_state.cpp:45`) stands for. One optional
  domain is there and one is not. Two ticks to a milli second give truncation, a
  lag of one tick separates the two clocks of a sample, and the two bounds of
  `EnergyIsConsumed` are both reached; two resets with work before, between and
  after.
- *PowerTrigger*: filters of three (100 in the code) are filled, wrapped and
  overwritten twice; 50 and 51 W are within the threshold of each other, 0 is
  not; both failures stay in the rings as long as any reading.
- *CudaRun*: eleven launches take a counter that is written every tenth one past
  that point and to two digits, so that a write can be seen half done; two runs
  let a limit and a file be inherited; one limit besides the factory's. The
  interleavings of two launching threads are those of `kernel_threads`.
- *MetricCollector*: three reports and three calls are enough for a report in
  each of the places a report can be in while the buffers are swapped twice; the
  group lists have the group, have it with the wrong metrics, or do not have it.
- *Limits*: three runs let a crash follow a crash before the run that is
  observed. The GPU ranges have the extreme ratio of 4 between their ends, and
  ends that are not whole watts; one of three devices has no card domain. The
  processors have one package, two, two with a core offline, and ids with a gap;
  any set of their packages may be locked. Windows are rounded down to multiples of
  8, and neither the 200 ms of the code nor the tool's window is one.
- *StaticProfiler*: a usual range, one with a step above its lowest limit, and
  the empty one of a failing call; two iterations per average; `MaxCaps = 6`
  cuts the lists that would not end.

Deadlock is checked for the session, whose end is the explicit `Ended`, for the
searches and for `PowerTrigger`. The other models stop when their bounds
(calls, resets, runs) are used up or their program has ended.

## 4. Fairness

`EcoSession!FairSpec` assumes weak fairness of the main thread and of the
monitor: both are threads the operating system schedules, and neither waits for
anything but `join`. None is assumed of the child, which may run for ever, nor
of whoever touches the file. The searches assume that their own thread runs.
`MetricCollector` assumes the same of its two threads, and nothing of the
device, which may produce no report. `KernelCounter` and `CudaRun` assume it of
the threads of the application and of the return from `getPerfCounter`; a kill
is never forced. `StaticProfiler` is one thread that waits for its
application only: weak fairness of its next step says that the application
ends; a kill is never forced.

`TouchEndsExec` and `CleanExitEndsSession` are stated for sessions past their
wait phase and a child that exited with 0: the wait phase does not poll the
child again (`eco.cpp:251`) and a failing child leaves a non-zero status for
ever (`eco.cpp:375`). Those two are in the list of hazards.

## 5. What is proved

For all constants that satisfy the modules' assumptions, and the hypotheses
named in the last column, which are part of the property (a regular processor
has all its cores online and numbers its packages in order) or of the theorem:

| Theorem | Statement | Hypotheses |
|---|---|---|
| `EcoSessionProofs!TypeCorrect` | `Spec => []TypeOK` | |
| `EcoSessionProofs!LimitSafety`, `ExecKeepsBest` | default limits outside rounds, reference under default limits, execution under the chosen cap, but for a limit that was refused or set by a copy of the program | |
| `EcoSessionProofs!CallerGetsDefault` | a session that has left its loop leaves the default limits or a refused call; no copy is left | |
| `EcoSessionProofs!CleanEnd` | a session ends only after a clean, reaped exit or a failed fork | |
| `EcoSessionProofs!RetuneBounded` | without a period, `rounds <= sessions + touches` | |
| `EcoSessionProofs!PeriodKept` | an execution phase left untouched lasts its period | the period fits an `int` |
| `LinearSearchProofs!LinearTypeCorrect`, `LinearResultMeasured` | limits stay in the range; the result was measured | |
| `LinearSearchProofs!LinearCoverage` | every limit of the range is less than a step from one tried | |
| `LinearSearchProofs!LinearKeepsBest` | no window seen beats the result, Energy SumDelay excepted | |
| `LinearSearchProofs!LinearKeepsPromise` | the safety half of the refinement of `CapSearch` | 90 micro watts or more |
| `GoldenSectionProofs!GoldenTypeCorrect`, `GoldenReuse` | types; compared results belong to the candidates | |
| `GoldenSectionProofs!GoldenOrdered` | the candidates do not cross | whole watts |
| `GoldenSectionProofs!GoldenMinimum` | a single minimum is not cut off | whole watts; the minimum is in the range; a metric of energy |
| `GoldenSectionProofs!GoldenKeepsPromise` | the safety half of the refinement of `CapSearch`, within nine windows | whole watts |
| `IntelReadingsProofs!ReadingsCountWraps` | totals are the consumption, less one unit per wrap, for any counter width | |
| `IntelReadingsProofs!ReadingsDelta` | the difference of counters is the work between two readings | |
| `IntelReadingsProofs!ReadingsAgree` | from the first sample of a reset on, integrated power and counted energy agree up to truncation and the lag of each sample | powers are exact and at most `MaxPower` |
| `XpuProofs!CollectorBuffers` | the buffer walked over without the mutex is not the one appended to | |
| `XpuProofs!CollectorCounts` | the counter is the sum since the reset, less the remainders of the gets | |
| `XpuProofs!CollectorCountsOnce` | nothing is added up twice or cleared unseen | |
| `XpuProofs!CollectorStream` | only what is open is read and closed | |
| `XpuProofs!XpuFindsFullRange` | the constructor finds the whole range, whatever killed runs left | |
| `FoldProofs!DumpKept` | the sections of the dump hold the limits found when it was created, without a gap, all of them once its creator has read the defaults | |
| `FoldProofs!DirsMatch` | directories belong to their power domain, one for each package | a regular processor |
| `FoldProofs!CapEnforced` | a cap is shared out over all packages that are not locked, whatever killed runs left | a regular processor |
| `FoldProofs!NoTrace` | a run that ends leaves the packages that are not locked alike, and the files as it found them | a regular processor; for the second part, packages alike before |
| `FoldProofs!SteadyDeviceIsReady` | equal positive readings under both filters make the device ready | |
| `FoldProofs!ReadyDeviceIsSteady` | a ready device has a full window, and averages that are close together | no failed CUDA reading, for the second part |
| `CudaRunProofs!CudaKeepsLimit` | a run without a failed call ends under the limit it found | |
| `CudaRunProofs!CudaReports` | the launches reported are the application's own | one launching thread |
| `CudaRunProofs!CudaCountRecent` | the count read is at most `maxNumRanges` launches old | one launching thread |
| `StaticProfilerProofs!ProfilerResults` | results belong to the cap they are filed under | |
| `StaticProfilerProofs!ProfilerRestores` | only a failing application, a kill or a refused restore leaves a cap behind | |
| `StaticProfilerProofs!ProfilerArguments` | the arguments of the application are exactly those typed, the last one twice behind a device flag | |
| `StaticProfilerProofs!ProfilerCaps` | the caps cover the range | the bound `MaxCaps` leaves room for the list |
| `StaticProfilerProofs!ProfilerChoice` | the caps reported are not dominated | times and energies are positive |

The arguments:

- *LimitSafety* is inductive together with `TypeOK` and `ExitInv`: each control
  point fixes what the limit is, unless `lastSet` says that the last call was
  refused or a copy's. That a session leaves its loop only when the child is gone,
  and every copy with it (`ExitInv`), is why its restoring call has the last word,
  and `CallerGetsDefault` no exception for copies.
- *CleanEnd* needs `ExitInv`: a zero status at a control point after the fork
  means that the child exited with 0 and was reaped, or there is none.
- *RetuneBounded* needs `RoundInv`, which accounts for touches that are still
  on their way: `rounds + One(flag) + One(Unseen) + One(Due)` never exceeds
  `sessions + touches`, where `Unseen` is a modification time the monitor has
  yet to compare, `flag` the raised flag, and `Due` the main thread on its way to
  a round it is entitled to. A touch moves from file to flag to round and is
  never copied; a second raise between load and clear of the flag is absorbed.
- *LinearTypeCorrect* rests on the assumption that a step is at least one unit
  (or the range a single value) and on the clamp; *LinearCoverage* adds that
  what lies above the current limit is covered already.
- *LinearKeepsBest* needs that the comparison is transitive in its negation:
  quotients are compared by cross-multiplication, and a window without
  instructions, an infinite quotient, makes that a case of its own
  (`CrossTransitive`).
- *LinearKeepsPromise* counts windows: until the last one the limit is the
  highest less a step per window (`WindowInv`), and ten steps and a remainder of
  at most nine make twelve windows. Below 90 micro watts the remainder may be
  several steps long and the sweep takes more; real ranges are millions.
- *PeriodKept* (`PeriodInv`) ties the windows counted in the execution phase to
  the period it goes on for, which the flag sets to zero when it is raised.
- *GoldenReuse* needs the invariant that ties `tmp` to the candidate it will be
  reused for, by the value of the two flags.
- *GoldenOrdered*, *GoldenMinimum* and *GoldenKeepsPromise* rest on `ShapeStep`:
  with a range between whole watts, each turn's candidates are where PHI puts them
  to within a few micro watts, although one of them was computed for the range
  before. The rounding errors do not add up over the turns (`NarrowInv`), the
  range shrinks by at least the factor the nine windows need, and a candidate is
  never as far off as the minimum is from being cut away (`MinimumInv`). The code
  only ever computes limits of whole watts (`Width >= 10000`, in the model's
  units) or has an empty range.
- *ReadingsCountWraps* keeps, per package and domain (`Account`), the raw
  reading as the consumption modulo the counter's word; `OneWrap`, a lemma on
  `%`, says what the difference of two readings at most one word apart is.
- *ReadingsDelta* (`WorkInv`) shows why `resetState` samples twice: after the
  first sample one reading is still of the time before the reset.
- *ReadingsAgree* relates two sums over the packages, so it needs induction: over
  a finite set by its subsets (`SubsetInduction`, from the well-foundedness of the
  natural numbers, `LeastNat`), with the sum of the community modules unfolded to
  the table it chooses (`SumTableExists`, `SumRule`, `SumLinear`). The lemmas on
  the steps add to both sides what a sample adds to each: to the Rapl totals when
  it begins, to the accumulator's when it ends. Between the two that energy is
  pending (`EnergyInv`), and the two intervals differ by the lags of this sample and
  of the one before it (`ClockInv`, `LagArithmetic`), the first of which the next
  sample makes good again.
- *The collector's theorems* share `CollectorInv`: types; what the state of each
  thread says about the other's; that outside the walk the buffer not in use is
  empty; the bracket around the running sum; and that a report is in one place
  only - the stream, one buffer, or counted. *CollectorStream* orders the
  resources by the control points that open and close them.
- *XpuFindsFullRange* (`XpuInv`): whatever a killed run leaves is a limit the
  device accepts, and four times any of these reaches the largest: the factors of
  the probe suffice.
- *DumpKept* goes section by section: while its creator reads the defaults, the
  domains still to be read are those the dump lacks, and the files of the first
  package hold what they held at its creation (`DumpInv`).
- *DirsMatch*, *CapEnforced* and *NoTrace* begin with what the folds of
  `IntelTopology` and `IntelLimits` compute. A fold is the last entry of a table
  (`FoldTable`, `FoldTableExists`), its entries are described by induction over
  the indices (`NumberInduction`, for sets), and so every sum, list of first
  cores and list of directories is known for a regular processor of any size.
  `RunInv` then follows a run through its files, the locked packages apart
  (`LockedInv`): the writes a process has still to
  do, together with what the files hold, give every package the goal of the phase
  (`Gives`); none of them, wherever a kill cuts them off, changes anything but
  limits and windows of packages (`HarmlessList`); and what a process took for
  the defaults is what the first package held when it started.
- *SteadyDeviceIsReady* and *ReadyDeviceIsSteady* share `TriggerInv`: counted back
  from the slot the next value overwrites, the pre-filter holds the last
  readings, and the j-th last average in the filter is that of the readings
  `j + 1 .. j + FilterSize` back; as long as the filter was not overwritten its
  first slot is NaN. `SumBounds`, by induction over the points, puts a sum between
  multiples of the extremes, less the one that is the other extreme. The rest is
  arithmetic: without the extremes the sum is at most `(n - 2)` times the largest
  point, so a spread of less than `Percent` percent of it, for up to ten
  percent, is less than `Percent + 1` percent of the average of all
  (`SmallSpread`). The code's threshold is three percent.
- *CudaKeepsLimit* (`LimitInv`): until a call fails, the default is the limit the
  run found, and the only other limits are those programmed before the
  destructor.
- *CudaReports* and *CudaCountRecent* follow one thread through load, add, test,
  open, write and close, and say at each point what the file holds: a count at
  most `maxNumRanges` old or nothing, and nothing is not taken for a count. With
  two threads this is false, which `kernel_threads` shows.
- *ProfilerResults* and *ProfilerRestores* (`ProfilerInv`): all the runs a sum
  holds were made in the present phase under the present limit.
- *ProfilerCaps* describes the list while it grows: the i-th cap is the highest
  limit less i - 1 steps. *ProfilerChoice* is a fact of arithmetic: a result that
  is no worse in both and better in one has the smaller product, and, with k above
  one, the smaller M+.

## 6. Only model-checked

Liveness, the termination half of the refinements, and with it
`TouchEndsExec`, `CleanExitEndsSession`, `WaitsReturn`, `GetPerfCounterReturns`
and `ProfilerEnds`: temporal reasoning under fairness is out of
the prover's reach. Every safety property of a passing run is proved, for the
contract `ImplementsCapSearch` its safety half.

## 7. Plan

Done: the session with its contract and both searches; readings in every power
domain, filters with failing reads, the counters of all three devices; limits of
Intel devices with their detection; a CUDA run and a StEP run from the command
line to the end; limits that are refused, locked or rounded; copies of the program
that tune next to it; the moments inside a sample; the proofs of section 5.

1. An abstract specification of a *leased limit* (taken, changed, given back),
   which `XpuLimits`, `IntelLimits`, `CudaRun` and the session implement up to
   crashes and failed calls.
2. *Composition* of the session with `PowerTrigger`, to relate the readiness of
   the wait phase to the round it starts.

## 8. Not modelled

- *Parameters*: read once from `config.yaml`, constant afterwards.
- *The parser of options*: a library; the models start from the options it
  returns.
- *Logging, plots, result files*: text; the only effect on the tuning, the
  metric computed on a copy (`log.hpp:111`), is in `Metrics`.
- *CUPTI*: `helper_cupti_activity.h` and the evaluation of metrics are samples of
  the toolkit that nothing calls; the profiling sessions of `injection_2.cpp` are
  disabled in the source, and only their failing calls are modelled.
- *Decoding of registers and raw reports*: the RAPL units, the layout of the raw
  data of Level Zero; straight-line arithmetic.
- *Averages and total energies of `Rapl`*: no caller.
- *PCM*, the instruction counter of Intel CPUs: a library.
- *Mini benchmarks and plots scripts*: no part of the program.
- *Floating point*: quotients are compared by cross-multiplication, averages
  are exact; rounding of doubles is left out.
