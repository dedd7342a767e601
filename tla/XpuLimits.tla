------------------------------ MODULE XpuLimits ------------------------------
(***************************************************************************)
(* The power limits of an Intel GPU over runs that may crash of a program  *)
(* that constructs an XPUDevice: StEP built for Intel GPUs, or a test;     *)
(* DEPO constructs none.                                                   *)
(*                                                                         *)
(* The device keeps two limits, sustained power and peak current, and      *)
(* clamps what is written. XPUDevice finds the range of each when it is    *)
(* constructed, by writing a very low limit and four times the limit it    *)
(* found; the largest value becomes the default, is programmed, and is     *)
(* what restoreDefaultLimits writes for the one limit a run tunes. The     *)
(* device counts in milli watts (milli amperes), the program keeps the     *)
(* range in whole ones. Every write is a step, and a run may be killed     *)
(* after each, or end because a Level Zero call fails: the destructor of a *)
(* device that was not constructed does not run.                           *)
(*                                                                         *)
(* A power domain is <<d, p>>, number p of device d of the first driver;   *)
(* each has limits of its own, and a run tunes one of type card. At first   *)
(* the cards have the same limits and the others the largest ones.         *)
(***************************************************************************)
EXTENDS Naturals, Sequences, SequencesExt

CONSTANTS
  Drivers,             \* drivers: devices: types of their power domains
  DevIds,              \* devices a run may be asked for, from 0
  Unit,                \* milli watts to the watt: 1000, smaller for TLC
  MinLimit, MaxLimit,  \* range the device accepts, in milli watts
  Tested,              \* limits a search programs, in watts
  MaxRuns              \* bound: runs of the program

Kinds == {"sustained", "peak"}

\* The last conjunct is what the probe of the constructor relies on; the
\* devices the tests know (150 .. 300 W, 14 .. 48 A) satisfy it.
ASSUME XpuAssumption ==
  /\ Unit \in Nat \ {0}
  /\ MinLimit \in [Kinds -> Nat] /\ MaxLimit \in [Kinds -> Nat]
  /\ Tested \in [Kinds -> SUBSET Nat] /\ MaxRuns \in Nat
  /\ Drivers \in Seq(Seq(Seq(STRING))) /\ DevIds \subseteq Nat
  /\ \A k \in Kinds : /\ Unit <= MinLimit[k] /\ MinLimit[k] <= MaxLimit[k]
                       /\ MaxLimit[k] <= 4 * MinLimit[k]

\* The limits of one kind the device accepts, in milli watts.
Accepted(k) == MinLimit[k] .. MaxLimit[k]

Limits == [sustained : Accepted("sustained"), peak : Accepted("peak")]

Domains ==
  IF Drivers = <<>> THEN {}
  ELSE UNION {{<<d, p>> : p \in DOMAIN Drivers[1][d]} : d \in DOMAIN Drivers[1]}

Card(domain) == Drivers[1][domain[1]][domain[2]] = "CARD"

VARIABLES
  limit,      \* the limits programmed in each domain, in milli watts
  pc,         \* the running process, "off" when there is none
  power_handle, \* the domain of the run
  kind,       \* the limit the constructor is at
  found,      \* curr_limit of calculateMinMaxLimitsinWatts, a double
  low, high,  \* minLimitValue and maxLimitValue, in whole watts
  default,    \* defaultPowerLimitInWatts_ and defaultPowerLimitInAmperes_
  tunes,      \* useAmperes of the constructor: the limit the run tunes
  runs,       \* history: runs started
  clean       \* history: the last run came to its end

memory == <<power_handle, found, low, high, default, tunes>>
xpuVars == <<limit, pc, power_handle, kind, found, low, high, default, tunes, runs, clean>>

XpuInit ==
  /\ \E l \in Limits :
       limit = [h \in Domains |-> IF Card(h) THEN l ELSE MaxLimit]
  /\ pc = "off" /\ power_handle = <<0, 0>> /\ kind = "sustained" /\ found = 0
  /\ low = [k \in Kinds |-> 0] /\ high = [k \in Kinds |-> 0]
  /\ default = [k \in Kinds |-> 0]
  /\ tunes \in Kinds /\ runs = 0 /\ clean = FALSE

\* What the device makes of a written limit.
Clamped(k, value) ==
  IF value < MinLimit[k] THEN MinLimit[k]
  ELSE IF value > MaxLimit[k] THEN MaxLimit[k] ELSE value

\* setPowerLimitInMicroWatts: all limits of the domain are read, one is
\* changed, and all are written back.
Program(k, value) ==
  limit' = [limit EXCEPT ![power_handle][k] = Clamped(k, value)]

\* getPowerLimitInWatts.
Programmed(k) == limit[power_handle][k]

-----------------------------------------------------------------------------
(* The constructor *)

\* Device devID of the first driver; without it the constructor throws.
getL0Device(devID) ==
  IF Drivers = <<>> \/ Len(Drivers[1]) <= devID THEN {} ELSE {devID + 1}

\* The first domain of type card; without it the constructor throws.
getPowerDomain(d) ==
  LET cards == {p \in DOMAIN Drivers[1][d] : Card(<<d, p>>)}
  IN  {<<d, p>> : p \in {q \in cards : \A r \in cards : q <= r}}

Start(devID) ==
  /\ pc = "off" /\ runs < MaxRuns
  /\ power_handle' \in UNION {getPowerDomain(d) : d \in getL0Device(devID)}
  /\ pc' = "probeMin" /\ kind' = "sustained"
  /\ runs' = runs + 1 /\ clean' = FALSE
  /\ tunes' \in Kinds
  /\ found' = limit[power_handle']["sustained"]
  /\ low' = [k \in Kinds |-> 0] /\ high' = [k \in Kinds |-> 0]
  /\ default' = [k \in Kinds |-> 0]
  /\ UNCHANGED limit

\* Level Zero, the driver or the device cannot be had: nothing was touched.
InitFails ==
  /\ pc = "off" /\ runs < MaxRuns
  /\ runs' = runs + 1 /\ clean' = FALSE
  /\ UNCHANGED <<limit, pc, kind>> /\ UNCHANGED memory

\* Below one watt (ampere) the device reports an error.
ProbeMin ==
  /\ pc = "probeMin" /\ pc' = "probeMax"
  /\ Program(kind, Unit)
  /\ low' = [low EXCEPT ![kind] = limit'[power_handle][kind] \div Unit]
  /\ UNCHANGED <<power_handle, kind, found, high, default, tunes, runs, clean>>

\* Variant: the range is probed with the double of the limit.
ProbeMax_Double ==
  /\ pc = "probeMax" /\ pc' = "putBack"
  /\ Program(kind, 2 * found)
  /\ high' = [high EXCEPT ![kind] = limit'[power_handle][kind] \div Unit]
  /\ UNCHANGED <<power_handle, kind, found, low, default, tunes, runs, clean>>

ProbeMax ==
  /\ pc = "probeMax" /\ pc' = "putBack"
  /\ Program(kind, 4 * found)
  /\ high' = [high EXCEPT ![kind] = limit'[power_handle][kind] \div Unit]
  /\ UNCHANGED <<power_handle, kind, found, low, default, tunes, runs, clean>>

\* The limit found is put back. It is kept as a double on its way, and may lose
\* a milli watt to truncation, which is left out.
PutBack ==
  /\ pc = "putBack" /\ pc' = "default"
  /\ Program(kind, found)
  /\ default' = [default EXCEPT ![kind] = high[kind]]
  /\ UNCHANGED <<power_handle, kind, found, low, high, tunes, runs, clean>>

\* The largest limit is programmed; then the other limit, or the run begins.
ProgramDefault ==
  /\ pc = "default"
  /\ Program(kind, Unit * default[kind])
  /\ IF kind = "sustained"
     THEN pc' = "probeMin" /\ kind' = "peak" /\ found' = Programmed("peak")
     ELSE pc' = "running" /\ UNCHANGED <<kind, found>>
  /\ UNCHANGED <<power_handle, low, high, default, tunes, runs, clean>>

-----------------------------------------------------------------------------
(* The run *)

\* The search programs limits of the range, of the one kind it tunes.
SetLimit(value) ==
  /\ pc = "running"
  /\ value \in low[tunes] .. high[tunes]
  /\ Program(tunes, Unit * value)
  /\ UNCHANGED <<pc, kind, runs, clean>> /\ UNCHANGED memory

\* ~Eco calls restoreDefaultLimits.
RestoreAndEnd ==
  /\ pc = "running" /\ pc' = "off"
  /\ Program(tunes, Unit * default[tunes])
  /\ clean' = TRUE
  /\ UNCHANGED <<kind, runs>> /\ UNCHANGED memory

\* A Level Zero call fails and the exception ends the process, or the process
\* is killed; the device keeps its limits.
Crash ==
  /\ pc # "off" /\ pc' = "off"
  /\ UNCHANGED <<limit, kind, runs, clean>> /\ UNCHANGED memory

XpuNext ==
  \/ \E devID \in DevIds : Start(devID)
  \/ InitFails
  \/ ProbeMin \/ ProbeMax \/ PutBack \/ ProgramDefault
  \/ \E value \in Tested[tunes] : SetLimit(value)
  \/ RestoreAndEnd \/ Crash

XpuSpec == XpuInit /\ [][XpuNext]_xpuVars

-----------------------------------------------------------------------------
(* Properties *)

\* A whole number of watts within the range: the largest one.
Whole(milli) == [k \in Kinds |-> milli[k] \div Unit]
MostOf(k) == Unit * Whole(MaxLimit)[k]

\* "Already set sustained power limit should be reverted to max available
\* value" (tests/test_xpu.cpp): whatever a run that was killed left behind,
\* half probed, half restored or in a search, a run that begins to tune has
\* found the full range, and the limit it does not tune is within a watt of
\* its largest. A run that ended has both limits of its card there, and no
\* run, ended or killed, has touched a domain that is no card.
RunFindsFullRange ==
  /\ pc = "running" =>
       /\ low = Whole(MinLimit)
       /\ high = Whole(MaxLimit) /\ default = Whole(MaxLimit)
       /\ \A k \in Kinds \ {tunes} : Programmed(k) \in MostOf(k) .. MaxLimit[k]
  /\ pc = "off" /\ clean =>
       \A k \in Kinds : Programmed(k) \in MostOf(k) .. MaxLimit[k]
  /\ \A h \in Domains : Card(h) \/ limit[h] = MaxLimit

=============================================================================
