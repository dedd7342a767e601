--------------------------- MODULE GoldenSection ---------------------------
(***************************************************************************)
(* GoldenSectionSearchAlgorithm: narrow the range of limits [a, b] around  *)
(* two candidates in its golden section. Each turn of the loop measures    *)
(* one candidate and reuses the result of the other one, carried in `tmp`  *)
(* under the flags measureL and measureR.                                  *)
(***************************************************************************)
EXTENDS Metrics, Integers

CONSTANTS
  Min, Max,      \* getMinMaxLimitInWatts, in the unit of the limits
  RefCap,        \* the limit of the reference
  Optima,        \* limits that may be optimal, and 0 when there may be none
  Instructions,  \* counts of instructions of an arbitrary window
  Energies,      \* energies of an arbitrary window
  Metric         \* the metric of the session

ASSUME GoldenAssumption ==
  /\ Min \in Nat /\ Max \in Nat /\ RefCap \in Nat
  /\ Min <= Max
  /\ Optima \subseteq Nat
  /\ Metric \in TargetMetric
  /\ Instructions \subseteq Nat /\ Energies \subseteq Nat

VARIABLES
  optimum,       \* the limit of least energy, or 0 when there is none
  pc,            \* "loop", "right", "compare" or "done"
  a, b,          \* the range
  left, right,   \* the candidates
  measureL, measureR,
  tmp,           \* the result carried to the next turn
  fL, fR,        \* the results compared in this turn
  procStatus,    \* 0, or 1 for every non-zero status
  limit,         \* the limit programmed in the device
  result,        \* the limit returned
  windows        \* history: windows started

vars == <<optimum, pc, a, b, left, right, measureL, measureR, tmp, fL, fR, procStatus,
          limit, result, windows>>

\* Variant: the smaller part of the section.
GoldenPart_Smaller(x) == (382 * x) \div 1000

\* int(PHI * x): PHI is a float, 618 / 1000 is near it.
GoldenPart(x) == (618 * x) \div 1000

EPSILON == (Max - Min) \div 25

Distance(x, y) == IF x < y THEN y - x ELSE x - y

\* What a window under this limit may yield: anything, or, for an application
\* with an optimal limit, the more energy the further from it.
Measurements(cap) ==
  IF optimum = 0
  THEN {PowAndPerfResult(cap, i, e) : i \in Instructions, e \in Energies}
  ELSE {PowAndPerfResult(cap, 1, 1 + Distance(cap, optimum))}

Init ==
  /\ optimum \in Optima
  /\ pc = "loop" /\ a = Min /\ b = Max
  /\ left = Max - GoldenPart(Max - Min) /\ right = Min + GoldenPart(Max - Min)
  /\ measureL = TRUE /\ measureR = TRUE
  /\ tmp \in Measurements(RefCap) /\ fL = tmp /\ fR = tmp
  /\ procStatus = 1
  /\ limit = RefCap /\ result = RefCap /\ windows = 0

\* A window: program the limit and measure. A child that exits with 0 may be
\* reaped by a poll within it.
Measure(cap, m) ==
  /\ limit' = cap
  /\ windows' = windows + 1
  /\ m \in Measurements(cap)
  /\ procStatus' \in {procStatus, 0}

\* A turn of the loop obtains the result of the left candidate ...
ObtainLeft ==
  /\ pc = "loop" /\ pc' = "right"
  /\ b - a > EPSILON
  /\ IF measureL
     THEN \E m \in Measurements(left) : Measure(left, m) /\ fL' = m
     ELSE fL' = tmp /\ UNCHANGED <<limit, windows, procStatus>>
  /\ UNCHANGED <<optimum, a, b, left, right, measureL, measureR, tmp, fR, result>>

\* ... then that of the right one, even when the child is gone by now ...
ObtainRight ==
  /\ pc = "right" /\ pc' = "compare"
  /\ IF measureR
     THEN \E m \in Measurements(right) : Measure(right, m) /\ fR' = m
     ELSE fR' = tmp /\ UNCHANGED <<limit, windows, procStatus>>
  /\ UNCHANGED <<optimum, a, b, left, right, measureL, measureR, tmp, fL, result>>

\* Variant: the wrong result is carried.
TakeLeftPart_WrongTmp ==
  /\ b' = right /\ right' = left /\ left' = right - GoldenPart(right - a)
  /\ tmp' = fR /\ measureR' = FALSE /\ measureL' = TRUE
  /\ UNCHANGED a

\* Variant: the candidate carried over is measured again, the new one is not.
TakeLeftPart_FlagsSwapped ==
  /\ b' = right /\ right' = left /\ left' = right - GoldenPart(right - a)
  /\ tmp' = fL /\ measureR' = TRUE /\ measureL' = FALSE
  /\ UNCHANGED a

\* [a, right] is the new range, and left its right candidate.
TakeLeftPart ==
  /\ b' = right /\ right' = left /\ left' = right - GoldenPart(right - a)
  /\ tmp' = fL /\ measureR' = FALSE /\ measureL' = TRUE
  /\ UNCHANGED a

\* Variant: the range is not narrowed.
TakeRightPart_RangeKept ==
  /\ left' = right /\ right' = left + GoldenPart(b - left)
  /\ tmp' = fR /\ measureR' = TRUE /\ measureL' = FALSE
  /\ UNCHANGED <<a, b>>

\* [left, b] is the new range, and right its left candidate.
TakeRightPart ==
  /\ a' = left /\ left' = right /\ right' = left + GoldenPart(b - left)
  /\ tmp' = fR /\ measureR' = TRUE /\ measureL' = FALSE
  /\ UNCHANGED b

Narrow ==
  IF IsRightBetter(fL, fR, Metric) THEN TakeRightPart ELSE TakeLeftPart

\* ... narrows the range, polls the child and breaks when it exited with 0.
Compare ==
  /\ pc = "compare"
  /\ Narrow
  /\ procStatus' \in {procStatus, 0}
  /\ IF procStatus' = 0
     THEN pc' = "done" /\ result' = (a' + b') \div 2
     ELSE pc' = "loop" /\ UNCHANGED result
  /\ UNCHANGED <<optimum, fL, fR, limit, windows>>

LoopEnds ==
  /\ pc = "loop" /\ pc' = "done"
  /\ b - a <= EPSILON
  /\ result' = (a + b) \div 2
  /\ UNCHANGED <<optimum, a, b, left, right, measureL, measureR, tmp, fL, fR,
                 procStatus, limit, windows>>

Returned == pc = "done" /\ UNCHANGED vars

Step == ObtainLeft \/ ObtainRight \/ Compare \/ LoopEnds

Next == Step \/ Returned

\* The thread that searches is scheduled.
Spec == Init /\ [][Next]_vars /\ WF_vars(Step)

-----------------------------------------------------------------------------
(* Properties *)

Results == [cap : (Min..Max) \union {RefCap}, instr : Nat, energy : Nat,
            myPlusMetric : {1}]

\* Every variable stays in its set.
TypeOK ==
  /\ optimum \in Optima
  /\ pc \in {"loop", "right", "compare", "done"}
  /\ a \in Nat /\ b \in Nat /\ left \in Int /\ right \in Int
  /\ measureL \in BOOLEAN /\ measureR \in BOOLEAN
  /\ tmp \in Results /\ fL \in Results /\ fR \in Results
  /\ procStatus \in {0, 1}
  /\ limit \in Min..Max \/ limit = RefCap
  /\ result \in Min..Max \/ result = RefCap
  /\ windows \in Nat

\* The candidates do not cross: the turn compares two different limits, the
\* left one below the right one, although one of them was computed for the
\* range before, with its own rounding.
CandidatesOrdered == pc \in {"right", "compare"} => left < right

\* A result is compared as that of the candidate it was measured at: the one
\* that is carried over belongs to the candidate it is reused for, and the
\* reference is never compared.
ReuseIsCurrent ==
  pc = "compare" => fL.cap = left /\ fR.cap = right

\* For an application whose energy has a single minimum, that minimum stays in
\* the range, so that a search which the application's exit does not cut short
\* returns a limit within half of EPSILON of it, up to rounding.
MinimumKept ==
  optimum # 0 =>
    /\ a <= optimum /\ optimum <= b
    /\ pc = "done" /\ procStatus # 0 =>
         2 * Distance(result, optimum) <= EPSILON + 1

\* The search implements what the session is promised, within nine windows.
PhaseOf == IF pc = "done" THEN "done" ELSE "search"
Promise == INSTANCE CapSearch WITH MaxWindows <- 9, phase <- PhaseOf

\* The refinement of CapSearch, its return included.
ImplementsCapSearch == Promise!Spec

=============================================================================
