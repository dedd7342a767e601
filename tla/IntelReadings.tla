---------------------------- MODULE IntelReadings ----------------------------
(***************************************************************************)
(* The accumulator on top of an Intel CPU: DeviceState reads its power     *)
(* from one Rapl object per package and its counter from PCM.              *)
(*                                                                         *)
(* resetState resets every Rapl object, which reads the MSR twice, and     *)
(* then samples twice; each sample of the accumulator samples every Rapl   *)
(* object, reads PCM, and multiplies the power of the Rapl objects with a  *)
(* time of its own, taken after both. Energy is consumed while time        *)
(* passes, between any two steps.                                          *)
(***************************************************************************)
EXTENDS DeviceState, Rapl, FiniteSetsExt

CONSTANTS
  Packages,   \* the packages with a Rapl object
  Steps,      \* energy the domains of a package may consume in a tick
  Start       \* energy they may have consumed before

ASSUME ReadingsAssumption ==
  /\ IsFiniteSet(Packages)
  /\ Steps \subseteq [Domains -> Nat] /\ Start \subseteq [Domains -> Nat]

VARIABLES
  raplPc,    \* progress of device_->reset(): "ready", "first", "second"
  rapl,      \* raplVec_
  consumed,  \* the energy of each package, by domain, since power on
  atCurrent, \* history: `consumed` when current_ was read
  atReset,   \* history: `consumed` when the totals were zeroed
  wraps,     \* history: wraps of the counter seen since then
  opening    \* history: both energies after the first sample of the reset

accounts == <<rapl, consumed, atCurrent, atReset, wraps>>
intelVars == <<vars, raplPc, accounts, opening>>

Readings == [p \in Packages |-> RaplState(consumed[p], now)]

IntelInit ==
  /\ Init
  /\ raplPc = "ready"
  /\ consumed \in [Packages -> Start]
  /\ rapl = [p \in Packages |->
              [previous |-> Readings[p], current |-> Readings[p],
               next |-> [energy |-> Nothing, time |-> now], total |-> Nothing]]
  /\ atCurrent = consumed /\ atReset = consumed
  /\ wraps = [p \in Packages |-> Nothing]
  /\ opening = [ours |-> 0, theirs |-> 0]

\* Every Rapl object after the next sample.
Sampled == [p \in Packages |-> sample(rapl[p], Readings[p])]

triggerPowerApiSample ==
  /\ rapl' = Sampled
  /\ atCurrent' = consumed
  /\ wraps' = [p \in Packages |-> [d \in Domains |->
       IF rapl[p].current.energy[d] > Readings[p].energy[d]
       THEN wraps[p][d] + 1 ELSE wraps[p][d]]]
  /\ UNCHANGED <<consumed, atReset>>

\* IntelDevice::getCurrentPowerInWatts, over the packages.
getCurrentPowerInWatts(objects, domain) ==
  MapThenSumSet(LAMBDA p : getCurrentPower(objects[p])[domain], Packages)

\* The domain when none is asked for.
DefaultDomain == "PKG"

\* What the counter of a domain advanced from the reset to the last reading,
\* less one unit for each wrap: energyDelta adds 2^32 - 1 where the counter
\* dropped 2^32.
Counted(p, d) == atCurrent[p][d] - atReset[p][d] - wraps[p][d]

\* The same for the device, in the unit of the accumulator per tick.
CountedEnergy ==
  Scale * MapThenSumSet(LAMBDA p : Counted(p, DefaultDomain), Packages)

-----------------------------------------------------------------------------
(* resetState *)

EmptyRapl ==
  /\ pc = "idle" /\ sampling = "no" /\ resets < MaxResets
  /\ raplPc = "ready" /\ raplPc' = "first"
  /\ rapl' = [p \in Packages |-> Emptied(rapl[p], now)]
  /\ UNCHANGED vars /\ UNCHANGED <<consumed, atCurrent, atReset, wraps, opening>>

FillRapl ==
  /\ raplPc = "first" /\ raplPc' = "second"
  /\ rapl' = Sampled /\ atCurrent' = consumed
  /\ UNCHANGED vars /\ UNCHANGED <<consumed, atReset, wraps, opening>>

\* The second sample, the totals, and the accumulator's own part.
ResetDevice ==
  /\ raplPc = "second" /\ raplPc' = "ready"
  /\ rapl' = [p \in Packages |-> TotalZeroed(Sampled[p])]
  /\ atCurrent' = consumed /\ atReset' = consumed
  /\ wraps' = [p \in Packages |-> Nothing]
  /\ BeginReset
  /\ UNCHANGED <<consumed, opening>>

-----------------------------------------------------------------------------
(* sample *)

SampleDevice ==
  /\ raplPc = "ready"
  /\ BeginSample /\ triggerPowerApiSample
  /\ UNCHANGED <<raplPc, opening>>

ReadPcm == ReadCounter /\ UNCHANGED <<raplPc, accounts, opening>>

FinishDevice ==
  /\ FinishSample(getCurrentPowerInWatts(rapl, DefaultDomain))
  /\ opening' = IF pc = "first" THEN [ours |-> total', theirs |-> CountedEnergy]
                ELSE opening
  /\ UNCHANGED <<raplPc, accounts>>

-----------------------------------------------------------------------------

\* Time passes, and with it energy: less than the counter holds between two
\* readings, which is what the comment in sample() asks for.
Elapse(spent) ==
  /\ Tick
  /\ \A p \in Packages, d \in Domains : raplPc # "first" =>
       consumed[p][d] + spent[p][d] - atCurrent[p][d] < CounterWord
  /\ consumed' = [p \in Packages |->
                    [d \in Domains |-> consumed[p][d] + spent[p][d]]]
  /\ UNCHANGED <<raplPc, rapl, atCurrent, atReset, wraps, opening>>

Execute == Work /\ UNCHANGED <<raplPc, accounts, opening>>

IntelNext ==
  \/ EmptyRapl \/ FillRapl \/ ResetDevice
  \/ SampleDevice \/ ReadPcm \/ FinishDevice \/ Execute
  \/ \E spent \in [Packages -> Steps] : Elapse(spent)

IntelSpec == IntelInit /\ [][IntelNext]_intelVars

-----------------------------------------------------------------------------
(* Properties *)

\* The total of every domain that is read is the energy consumed since the
\* reset, up to the unit per wrap: no wrap is missed and none is invented,
\* whatever the counters were at the reset. A domain the processor does not
\* have counts nothing.
TotalCountsWraps ==
  raplPc = "ready" => \A p \in Packages, d \in Domains :
    rapl[p].total[d] = IF d \in ReadDomains THEN Counted(p, d) ELSE 0

\* The two accountings agree, from the first sample of a reset on: the energy
\* total of the accumulator, a sum of powers times times, is what the Rapl
\* objects counted, up to the truncation of each time to milliseconds and to
\* the time a sample takes from the reading of the Rapl objects to its own. The
\* first sample of a reset is not in it: it multiplies a power measured since
\* the reset with the time since the last sample before.
EnergyIsConsumed ==
  raplPc = "ready" /\ sampling = "no" /\ pc # "first" /\ resets > 0 =>
    LET ours == (total - opening.ours) * TicksPerMs
        theirs == CountedEnergy - opening.theirs
    IN  /\ ours <= theirs + (samples - 1) * MaxPower * MaxLag
        /\ theirs <= ours + (samples - 1) * MaxPower * (MaxLag + TicksPerMs - 1)

=============================================================================
