---------------------------- MODULE DeviceState ----------------------------
(***************************************************************************)
(* DeviceStateAccumulator: the sliding window of three device readings     *)
(* every energy and performance number of DEPO is computed from, and the   *)
(* energy total of a run.                                                  *)
(*                                                                         *)
(* A reading holds the power, the performance counter and the time. One    *)
(* sample is three steps, each with a look at the device or at the clock   *)
(* of its own: the power API is sampled, the counter is read, and the time *)
(* is taken. resetState zeroes the counter of the device and the total,    *)
(* and samples twice; prev_, curr_ and next_ are not reset. The device     *)
(* works, and time passes, between any two of these steps. The time of the *)
(* reset, which only getTimeSinceReset reads, is left out.                 *)
(***************************************************************************)
EXTENDS Naturals

CONSTANTS
  Powers,      \* power readings, in watts
  MaxPower,    \* the largest of them
  TicksPerMs,  \* resolution of the clock
  MaxLag,      \* ticks a sample may take from its power to its time
  Word,        \* the performance counter is computed modulo Word
  MaxTime,     \* bound: ticks of the clock
  MaxWork,     \* bound: kernels the device runs
  MaxResets,   \* bound: calls of resetState
  MaxSamples   \* bound: samples between two resets

ASSUME StateAssumption ==
  /\ MaxPower \in Nat /\ Powers \subseteq 0 .. MaxPower
  /\ TicksPerMs \in Nat \ {0} /\ MaxLag \in Nat
  /\ MaxTime \in Nat /\ MaxWork \in Nat \ {0} /\ MaxResets \in Nat
  /\ MaxSamples \in Nat
  /\ Word \in Nat /\ Word > MaxWork

VARIABLES
  pc,        \* progress of resetState: "idle", "first", "second" sample to come
  sampling,  \* what sample() is to read: "no", "counter", "time"
  perfCounter, \* local of sample()
  now,       \* the clock, in ticks
  counter,   \* performance counter of the device
  prev, curr, next,  \* prev_, curr_, next_
  total,     \* totalEnergySinceReset_, in watts x ms
  work,      \* history: kernels the device has run since it was created
  seen,      \* history: `work` when the counters of curr and next were read
  readAt,    \* history: when the power API was sampled, or reset
  interval,  \* history: the time from the sample of it before
  samples,   \* history: samples since the reset
  resets     \* history: calls of resetState

clock == <<now, counter, work>>
readings == <<prev, curr, next, seen>>
measured == <<readAt, interval>>
vars == <<pc, sampling, perfCounter, clock, readings, total, measured, samples,
          resets>>

PowerAndPerfState == [power : Nat, kernelsCount : Nat, time : Nat]

Init ==
  /\ pc = "idle" /\ sampling = "no" /\ perfCounter = 0
  /\ now = 0 /\ counter \in 0 .. 1 /\ work = counter
  /\ next = [power |-> 0, kernelsCount |-> 0, time |-> 0]
  /\ curr = next /\ prev = next
  /\ total = 0
  /\ seen = [curr |-> 0, next |-> 0]
  /\ readAt = 0 /\ interval = 0 /\ samples = 0 /\ resets = 0

\* sample() moves the readings up, and triggerPowerApiSample reads the power.
BeginSample ==
  /\ sampling = "no" /\ sampling' = "counter"
  /\ pc # "idle" \/ samples < MaxSamples
  /\ prev' = curr /\ curr' = next
  /\ seen' = [seen EXCEPT !.curr = seen.next]
  /\ readAt' = now /\ interval' = now - readAt
  /\ UNCHANGED <<pc, perfCounter, next, total, samples, resets>>
  /\ UNCHANGED clock

\* getPerfCounter.
ReadCounter ==
  /\ sampling = "counter" /\ sampling' = "time"
  /\ perfCounter' = counter
  /\ seen' = [seen EXCEPT !.next = work]
  /\ UNCHANGED <<pc, prev, curr, next, total, measured, samples, resets>>
  /\ UNCHANGED clock

\* duration_cast<milliseconds> truncates.
TimeDeltaMs(t) == (t - curr.time) \div TicksPerMs

\* Variant: resetState samples once.
AfterSample_Once(phase) == "idle"

\* What follows a sample: resetState takes two.
AfterSample(phase) == IF phase = "first" THEN "second" ELSE "idle"

\* The time is taken, and the energy since the time before is added, at the
\* power read now.
FinishSample(power) ==
  /\ sampling = "time" /\ sampling' = "no"
  /\ next' = [power |-> power, kernelsCount |-> perfCounter, time |-> now]
  /\ total' = total + power * TimeDeltaMs(now)
  /\ samples' = samples + 1
  /\ pc' = AfterSample(pc)
  /\ UNCHANGED <<perfCounter, prev, curr, seen, measured, resets>>
  /\ UNCHANGED clock

\* device_->reset() and the total; the readings stay.
BeginReset ==
  /\ pc = "idle" /\ pc' = "first"
  /\ sampling = "no"
  /\ resets < MaxResets /\ resets' = resets + 1
  /\ counter' = 0
  /\ total' = 0
  /\ readAt' = now /\ interval' = 0
  /\ samples' = 0
  /\ UNCHANGED <<sampling, perfCounter, now, work>> /\ UNCHANGED readings

\* Time passes; a sample takes no longer than MaxLag.
Tick ==
  /\ now < MaxTime /\ now' = now + 1
  /\ sampling # "no" => now - readAt < MaxLag
  /\ UNCHANGED <<pc, sampling, perfCounter, counter, work, total, samples, resets>>
  /\ UNCHANGED <<readings, measured>>

\* The device runs a kernel.
Work ==
  /\ work < MaxWork /\ work' = work + 1
  /\ counter' = counter + 1
  /\ UNCHANGED <<pc, sampling, perfCounter, now, total, samples, resets>>
  /\ UNCHANGED <<readings, measured>>

Next ==
  \/ BeginSample \/ ReadCounter
  \/ \E power \in Powers : FinishSample(power)
  \/ BeginReset \/ Tick \/ Work

Spec == Init /\ [][Next]_vars

-----------------------------------------------------------------------------
(* What callers read *)

\* next_.kernelsCount_ - curr_.kernelsCount_ in unsigned arithmetic.
perfCounterDelta == (Word + next.kernelsCount - curr.kernelsCount) % Word

-----------------------------------------------------------------------------
(* Properties *)

\* Every variable stays in its set.
TypeOK ==
  /\ pc \in {"idle", "first", "second"}
  /\ sampling \in {"no", "counter", "time"} /\ perfCounter \in Nat
  /\ now \in Nat /\ counter \in Nat /\ work \in Nat
  /\ prev \in PowerAndPerfState /\ curr \in PowerAndPerfState
  /\ next \in PowerAndPerfState
  /\ total \in Nat
  /\ seen \in [curr : Nat, next : Nat]
  /\ readAt \in Nat /\ interval \in Nat /\ samples \in Nat /\ resets \in Nat

\* Once an accumulator was reset, the difference of counters a caller sees is
\* the work the device did between the two last readings of the counter:
\* although a reset sends the counter back to zero and the readings survive
\* it, the unsigned difference never wraps, because the second sample of
\* resetState pushes the reading from before the reset out of the difference.
DeltaIsWork ==
  pc = "idle" /\ sampling = "no" /\ resets > 0
    => perfCounterDelta = seen.next - seen.curr

=============================================================================
