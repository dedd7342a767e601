--------------------------- MODULE MCIntelReadings ---------------------------
(***************************************************************************)
(* Constants of IntelReadings: a package at rest consumes nothing, one at  *)
(* work lets the counters of its domains wrap at different times. It has   *)
(* DRAM and no second power plane.                                         *)
(***************************************************************************)
EXTENDS IntelReadings, TLC

MCSteps == {Nothing, [d \in Domains |->
              CASE d = "PKG" -> 3 [] d = "PP0" -> 2 [] OTHER -> 1]}

MCStart == {[d \in Domains |-> IF d = "DRAM" THEN 7 ELSE 6]}

\* Nothing tells one package from another.
Symmetry == Permutations(Packages)

=============================================================================
