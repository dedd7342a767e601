--------------------------- MODULE MCIntelLimits ---------------------------
(* IntelLimits with one and two packages, and with processors the loop   *)
(* over the cores is not made for: a core offline, ids with a gap.        *)
EXTENDS IntelLimits

MCProcessors == {<<0, 0>>, <<0, 1, 0>>, <<0, Offline, 1>>, <<0, 3, 3>>}
MCCpuInfos ==
  {<<[vendor |-> "GenuineIntel", family |-> 6, model |-> m]>> :
     m \in {"SANDYBRIDGE_EP", "HASWELL_EP", "SANDYBRIDGE"}}
    \union {<<[vendor |-> "AuthenticAMD", family |-> 25, model |-> "HASWELL"]>>}
MCFactory ==
  [pkg  |-> [power |-> 100, window |-> 32, enabled |-> TRUE],
   pp0  |-> [power |-> 1, window |-> 8, enabled |-> FALSE],
   pp1  |-> [power |-> 2, window |-> 16, enabled |-> FALSE],
   dram |-> [power |-> 3, window |-> 24, enabled |-> TRUE]]
MCCaps == {70, 141}
MCIdlePowers == {30}
MCToolLimits == {[power |-> 55, window |-> 21]}
\* The last possible value that is not above what is asked for.
MCQuantized(w) == 8 * (w \div 8)

=============================================================================
