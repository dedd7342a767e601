---------------------------- MODULE LinearSearch ----------------------------
(***************************************************************************)
(* LinearSearchAlgorithm: sweep the range of limits from its maximum to    *)
(* its minimum in ten steps (and a shorter last one), keep the best result *)
(* seen, stop when the tuned application has exited with 0.                *)
(***************************************************************************)
EXTENDS Metrics, Integers

CONSTANTS
  Min, Max,      \* getMinMaxLimitInWatts, in micro watts
  Commands,      \* command lines, each the set of its options
  Instructions,  \* counts of instructions a window may yield
  Energies,      \* energies a window may yield
  RefCap         \* the limit of the reference

ASSUME LinearAssumption ==
  /\ Min \in Nat /\ Max \in Nat /\ RefCap \in Nat
  /\ Min = Max \/ Min + 10 <= Max      \* a step is at least one micro watt
  /\ Instructions \subseteq Nat /\ Energies \subseteq Nat

VARIABLES
  metric,        \* the metric of the session
  pc,            \* "loop", "sample" or "done"
  reference,     \* the reference measurement
  best,          \* bestResultSoFar
  current,       \* currentLimitInMicroWatts
  procStatus,    \* 0, or 1 for every non-zero status
  limit,         \* the limit programmed in the device
  result,        \* the limit returned
  windows,       \* history: windows started
  tried,         \* history: the limits measured
  seen           \* history: what the windows yielded, without their limits

vars == <<metric, pc, reference, best, current, procStatus, limit, result, windows,
          tried, seen>>

Measurements(cap) ==
  {PowAndPerfResult(cap, i, e) : i \in Instructions, e \in Energies}

STEP == (Max - Min) \div 10

Modes ==
  {parseArgs(c).metric : c \in {d \in Commands :
                                  parseArgs(d).search = "LINEAR_SEARCH"}}

Init ==
  /\ metric \in Modes
  /\ pc = "loop" /\ reference \in Measurements(RefCap) /\ best = reference
  /\ current = Max /\ procStatus = 1
  /\ limit = RefCap /\ result = RefCap
  /\ windows = 0 /\ tried = {} /\ seen = {}

\* while (procStatus): program the next limit ...
TryCap ==
  /\ pc = "loop" /\ pc' = "sample"
  /\ procStatus # 0
  /\ limit' = current
  /\ windows' = windows + 1
  /\ UNCHANGED <<metric, reference, best, current, procStatus, result, tried, seen>>

\* Variant: the step is twice as large.
NextLimit_DoubleStep ==
  IF current - 2 * STEP < Min THEN Min ELSE current - 2 * STEP

\* Variant: the sweep never gets below the second limit.
NextLimit_Stuck == IF current = Max THEN current - STEP ELSE current

NextLimit == IF current - STEP < Min THEN Min ELSE current - STEP

\* Variant: a result is compared with the reference instead of the best so far.
Better_ThanReference(m) == IsRightBetter(reference, m, metric)

\* Whether bestResultSoFar is replaced.
Better(m) == IsRightBetter(best, m, metric)

\* ... measure a window under it, keep the better result, leave the loop at
\* the minimum, and otherwise go one step down and poll the child. A child
\* that exits with 0 may be reaped by any of the polls.
SampleWindow ==
  \E m \in Measurements(limit) :
    /\ pc = "sample"
    /\ best' = IF Better(m) THEN m ELSE best
    /\ tried' = tried \union {limit}
    /\ seen' = seen \union {[m EXCEPT !.cap = RefCap]}
    /\ procStatus' \in {procStatus, 0}
    /\ IF current = Min
       THEN pc' = "done" /\ result' = best'.cap /\ UNCHANGED current
       ELSE pc' = "loop" /\ current' = NextLimit /\ UNCHANGED result
    /\ UNCHANGED <<metric, reference, limit, windows>>

LoopEnds ==
  /\ pc = "loop" /\ pc' = "done"
  /\ procStatus = 0
  /\ result' = best.cap
  /\ UNCHANGED <<metric, reference, best, current, procStatus, limit, windows, tried,
                 seen>>

Returned == pc = "done" /\ UNCHANGED vars

Next == TryCap \/ SampleWindow \/ LoopEnds \/ Returned

\* The thread that searches is scheduled.
Spec == Init /\ [][Next]_vars /\ WF_vars(TryCap \/ SampleWindow \/ LoopEnds)

-----------------------------------------------------------------------------
(* Properties *)

Results == UNION {Measurements(cap) : cap \in (Min..Max) \union {RefCap}}

\* Every variable stays in its set; in particular no limit outside of the
\* range is ever computed or programmed.
TypeOK ==
  /\ metric \in Modes /\ pc \in {"loop", "sample", "done"}
  /\ reference \in Measurements(RefCap) /\ best \in Results
  /\ current \in Min..Max /\ procStatus \in {0, 1}
  /\ limit \in (Min..Max) \union {RefCap}
  /\ result \in (Min..Max) \union {RefCap}
  /\ windows \in Nat /\ tried \subseteq Min..Max
  /\ seen \subseteq Measurements(RefCap)

\* The limit returned is the reference's or one that was measured.
ResultMeasured == pc = "done" => result \in tried \union {RefCap}

\* Nothing the search saw is better than what it kept, reference included.
NothingBetterSeen ==
  \A m \in seen \union {reference} : ~IsRightBetter(best, m, metric)

\* A sweep that the application's exit did not cut short has measured both
\* ends of the range and left no gap wider than a step.
RangeCovered ==
  pc = "done" /\ procStatus # 0 =>
    /\ {Min, Max} \subseteq tried
    /\ \A c \in Min..(Max - 1) : \E d \in tried : c < d /\ d <= c + STEP

\* The metric the option --eds stands for: no window the search saw has a
\* smaller Energy SumDelay value than the result it kept.
PlusMetricMinimal ==
  pc = "done" /\ metric = "MIN_M_PLUS" =>
    \A m \in seen \union {reference} : ~LargerPlusMetric(best, m, reference, 2)

\* The search implements what the session is promised, within twelve windows.
PhaseOf == IF pc = "done" THEN "done" ELSE "search"
Promise == INSTANCE CapSearch WITH MaxWindows <- 12, phase <- PhaseOf

\* The refinement of CapSearch, its return included.
ImplementsCapSearch == Promise!Spec

=============================================================================
