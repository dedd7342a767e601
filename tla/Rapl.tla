-------------------------------- MODULE Rapl --------------------------------
(***************************************************************************)
(* The energy accounting of one package: MSR counters of 32 bits that      *)
(* wrap, one per power domain, a sequence of three readings, and totals    *)
(* that add up their differences. An object of class Rapl is a record of   *)
(* those.                                                                  *)
(***************************************************************************)
EXTENDS Naturals

CONSTANTS
  CounterWord,  \* 2^32: an energy counter counts modulo CounterWord
  Scale,        \* power is in Scale-ths of an energy unit per tick
  DramScale,    \* the same for DRAM, which may have units of its own
  Available     \* the optional domains the processor has

Domains == {"PKG", "PP0", "PP1", "DRAM"}

ASSUME RaplAssumption ==
  /\ CounterWord \in Nat \ {0, 1}
  /\ Scale \in Nat \ {0} /\ DramScale \in Nat \ {0}
  /\ Available \subseteq {"PP1", "DRAM"}

\* The package and its cores are read even where they are not available.
ReadDomains == {"PKG", "PP0"} \union Available

Nothing == [d \in Domains |-> 0]

\* MSR::getEnergyStatus of every domain, and the time of the reading.
RaplState(consumed, t) ==
  [energy |-> [d \in Domains |->
                 IF d \in ReadDomains THEN consumed[d] % CounterWord ELSE 0],
   time |-> t]

\* Variant: the difference is not corrected when the counter wrapped.
energyDelta_NoOverflow(before, after) ==
  IF before > after THEN before - after ELSE after - before

\* MAX_INT is CounterWord - 1: a wrap costs one unit.
energyDelta(before, after) ==
  IF before > after THEN after + (CounterWord - 1 - before) ELSE after - before

EnergyIncrement(from, to) ==
  [d \in Domains |-> energyDelta(from.energy[d], to.energy[d])]

getCurrentEnergyIncrement(r, read) == EnergyIncrement(r.current, read)
getPreviousEnergyIncrement(r) == EnergyIncrement(r.previous, r.current)

\* storeNextState and rotateStates: the reading becomes current_.
rotateStates(r, read) ==
  [previous |-> r.current, current |-> read, next |-> r.previous,
   total |-> r.total]

Plus(left, right) == [d \in Domains |-> left[d] + right[d]]

sample(r, read) ==
  [rotateStates(r, read) EXCEPT
     !.total = Plus(@, getCurrentEnergyIncrement(r, read))]

\* reset(), first the emptied readings, then after two samples the totals.
Emptied(r, t) ==
  LET empty == [energy |-> Nothing, time |-> t]
  IN  [previous |-> empty, current |-> empty, next |-> empty, total |-> r.total]

TotalZeroed(r) == [r EXCEPT !.total = Nothing]

\* calculate_power: no time, no power.
calculate_power(increment, dt, units) ==
  IF dt = 0 THEN 0 ELSE (units * increment) \div dt

\* energy_units and dram_energy_units.
EnergyUnits(d) == IF d = "DRAM" THEN DramScale ELSE Scale

\* Variant: the power is computed from the two readings before the last.
current_power_Old(r, d) ==
  calculate_power(EnergyIncrement(r.next, r.previous)[d],
                  IF r.previous.time < r.next.time THEN 0
                  ELSE r.previous.time - r.next.time,
                  EnergyUnits(d))

\* pkg_current_power and its like for the other domains.
current_power(r, d) ==
  calculate_power(getPreviousEnergyIncrement(r)[d],
                  r.current.time - r.previous.time, EnergyUnits(d))

getCurrentPower(r) == [d \in Domains |-> current_power(r, d)]

=============================================================================
