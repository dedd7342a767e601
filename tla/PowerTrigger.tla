---------------------------- MODULE PowerTrigger ----------------------------
(***************************************************************************)
(* Trigger with its two DataFilters: when the wait phase lets the tuning   *)
(* begin.                                                                  *)
(*                                                                         *)
(* Each sample of the device gives a power reading and says whether the    *)
(* device computed anything. The reading goes into preFilter_, and the     *)
(* average preFilter_ had BEFORE goes into filter_; the device is ready    *)
(* when the averages in filter_ lie close together (types with a wait      *)
(* phase) or when any computation was ever seen (immediate types).         *)
(*                                                                         *)
(* Doubles are exact fractions here: an average is stored times Scale. The *)
(* average of the empty preFilter_ is 0/0, the value NaN, which spreads    *)
(* through sums and makes every comparison false. A power reading that     *)
(* fails is a value as well, another one for each device.                  *)
(***************************************************************************)
EXTENDS Integers, Sequences, FiniteSetsExt, SequencesExt

CONSTANTS
  Powers,      \* what the device may draw, in watts
  FilterSize,  \* filterSize_ of both filters (100 in the code)
  Scale,       \* a multiple of 1 .. FilterSize, makes averages integers
  Percent,     \* TRESHOLD, in percent (3 in the code)
  NaN          \* not a number

ASSUME TriggerAssumption ==
  /\ Powers \subseteq Nat
  /\ FilterSize \in Nat \ {0, 1, 2}
  /\ Scale \in Nat \ {0}
  /\ \A n \in 1 .. FilterSize : Scale % n = 0
  /\ Percent \in 1 .. 10
  /\ NaN \notin Int

VARIABLES
  device,          \* "cuda" or "xpu"
  type,            \* type_: with a wait phase or immediate
  preFilter,       \* preFilter_
  filter,          \* filter_
  computeActivity, \* hasDeviceReportedAnyComputeActivityThroughPerfCounter_
  recent,          \* history: the last 2 * FilterSize readings
  samples          \* history: number of samples, up to 2 * FilterSize

triggerVars == <<device, type, preFilter, filter, computeActivity, recent, samples>>

-----------------------------------------------------------------------------
(* The devices' getCurrentPowerInWatts *)

CudaPower(power, ok) == IF ok THEN power ELSE -1

\* triggerPowerApiSample moves the last energy sample back before it takes
\* another: when that fails the two are equal, and their quotient is 0/0.
XpuPower(power, ok) == IF ok THEN power ELSE NaN

getCurrentPowerInWatts(power, ok) ==
  IF device = "cuda" THEN CudaPower(power, ok) ELSE XpuPower(power, ok)

-----------------------------------------------------------------------------
(* DataFilter *)

EmptyFilter == [data |-> <<>>, active |-> 1]

\* Variant: the index wraps one slot early.
shiftActiveIndex_Early(i) == IF i + 1 > FilterSize - 1 THEN 1 ELSE i + 1

\* activeIndex_, counted from 1: the slot the next value overwrites.
shiftActiveIndex(i) == IF i + 1 > FilterSize THEN 1 ELSE i + 1

storeDataPoint(f, x) ==
  IF Len(f.data) = FilterSize
  THEN [data   |-> [f.data EXCEPT ![f.active] = x],
        active |-> shiftActiveIndex(f.active)]
  ELSE [f EXCEPT !.data = Append(@, x)]

\* The sum of the points when none of them is NaN.
getSum(f) == FoldLeft(LAMBDA acc, x : acc + x, 0, f.data)

\* The average, times Scale; exact by TriggerAssumption.
getSMA(f) ==
  IF f.data = <<>> \/ NaN \in Range(f.data) THEN NaN
  ELSE (getSum(f) * Scale) \div Len(f.data)

\* getCleanedRelativeError() < percent / 100: the spread over the average of
\* the points without the two extremes. With fewer than two points the error
\* is 1; a division by zero gives NaN or an infinity; and a negative average,
\* of readings that failed, gives an error that is not positive.
RelativeErrorBelow(f, percent) ==
  LET points  == Range(f.data)
      spread  == Max(points) - Min(points)
      cleaned == getSum(f) - Max(points) - Min(points)
  IN  /\ Len(f.data) > 2 /\ NaN \notin points
      /\ cleaned # 0
      /\ cleaned > 0 => 100 * spread * (Len(f.data) - 2) < percent * cleaned

-----------------------------------------------------------------------------
(* Trigger *)

TriggerInit ==
  /\ device \in {"cuda", "xpu"}
  /\ type \in {"WITH_WAIT", "IMMEDIATE"}
  /\ preFilter = EmptyFilter /\ filter = EmptyFilter
  /\ computeActivity = FALSE
  /\ recent = <<>> /\ samples = 0

KeepLast(n, s) == IF Len(s) > n THEN Tail(s) ELSE s

\* Variant: the reading enters preFilter_ first.
appendPowerSample_NewFirst(power) ==
  /\ preFilter' = storeDataPoint(preFilter, power)
  /\ filter' = storeDataPoint(filter, getSMA(preFilter'))

\* The average is taken before the reading is stored.
appendPowerSampleToSmaFilter(power) ==
  /\ filter' = storeDataPoint(filter, getSMA(preFilter))
  /\ preFilter' = storeDataPoint(preFilter, power)

updateComputeActivityFlag(active) ==
  computeActivity' = (computeActivity \/ active)

\* One sample of the device, as getCurrentPowerAndPerf hands it on.
Sampled(power, active) ==
  /\ appendPowerSampleToSmaFilter(power)
  /\ updateComputeActivityFlag(active)
  /\ recent' = KeepLast(2 * FilterSize, Append(recent, power))
  /\ samples' = IF samples < 2 * FilterSize THEN samples + 1 ELSE samples
  /\ UNCHANGED <<device, type>>

DeviceSample(power, ok, active) ==
  Sampled(getCurrentPowerInWatts(power, ok), active)

isDeviceReadyForTuning ==
  CASE type = "WITH_WAIT" -> RelativeErrorBelow(filter, Percent)
    [] type = "IMMEDIATE" -> computeActivity

TriggerNext ==
  \E power \in Powers, ok \in BOOLEAN, active \in BOOLEAN :
    DeviceSample(power, ok, active)

TriggerSpec == TriggerInit /\ [][TriggerNext]_triggerVars

-----------------------------------------------------------------------------
(* Properties *)

\* A device that draws the same positive power is ready once the averages in
\* filter_ cover equal readings only: after 2 * FilterSize - 1 of them, the
\* reading taken last not counted, whatever it drew or failed to tell before.
\* A CUDA device whose readings all fail counts as steady, too.
SteadyIsReady ==
  LET covered == Front(recent)
  IN  /\ type = "WITH_WAIT" /\ samples = 2 * FilterSize
      /\ Cardinality(Range(covered)) = 1 /\ Range(covered) \intersect {0, NaN} = {}
      => isDeviceReadyForTuning

\* Readiness is about steady power, over a full window: tuning never begins
\* before filter_ was filled once and its first value, the average of nothing,
\* was overwritten; and then the averages in it spread over less than
\* Percent + 1 percent of their average, unless a CUDA reading failed: the
\* negative value lowers the average, below zero at worst, where any spread
\* will do. A failed reading of an Intel GPU keeps the device from being ready.
ReadyIsSteady ==
  LET points == Range(filter.data)
  IN  type = "WITH_WAIT" /\ isDeviceReadyForTuning =>
        /\ samples > FilterSize /\ NaN \notin points
        /\ -1 \notin Range(recent) =>
             100 * FilterSize * (Max(points) - Min(points)) <
               (Percent + 1) * getSum(filter)

=============================================================================
