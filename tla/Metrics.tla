------------------------------ MODULE Metrics ------------------------------
(***************************************************************************)
(* PowAndPerfResult: what a measurement window yields, and the comparison  *)
(* the searches make. Windows are equally long, so that a window is its    *)
(* cap, its count of instructions and its energy, and the average power is *)
(* the energy. The quotients the code compares as doubles are compared     *)
(* here by cross-multiplication, which also gives the infinities of a      *)
(* window without instructions their IEEE order.                           *)
(***************************************************************************)
EXTENDS Naturals

TargetMetric == {"MIN_E", "MIN_E_X_T", "MIN_M_PLUS"}

\* The metric and the search the options of the command line choose: the first
\* of several wins, energy and the linear search are the defaults, and without
\* tuning no other is looked at.
parseArgs(options) ==
  LET given == IF "no-tuning" \in options THEN {} ELSE options
  IN  [search |-> IF "gss" \in given THEN "GOLDEN_SECTION_SEARCH"
                  ELSE "LINEAR_SEARCH",
       metric |-> IF "en" \in given THEN "MIN_E"
                  ELSE IF "edp" \in given THEN "MIN_E_X_T"
                  ELSE IF "eds" \in given THEN "MIN_M_PLUS" ELSE "MIN_E"]

\* myPlusMetric_ has its initial value, 1, in every result a search compares:
\* the logger evaluates checkPlusMetric on a copy.
PowAndPerfResult(cap, instr, energy) ==
  [cap |-> cap, instr |-> instr, energy |-> energy, myPlusMetric |-> 1]

\* getEnergyPerInstr of l exceeds that of r.
MoreEnergyPerInstr(l, r) == l.energy * r.instr > r.energy * l.instr

\* getEnergyTimeProd, instructions squared per power, of l is below that of r.
LessEnergyTimeProd(l, r) ==
  l.instr * l.instr * r.energy < r.instr * r.instr * l.energy

\* The target metric decides whether the right result is the better one.
IsRightBetter(l, r, mode) ==
  CASE mode = "MIN_E"      -> MoreEnergyPerInstr(l, r)
    [] mode = "MIN_E_X_T"  -> LessEnergyTimeProd(l, r)
    [] mode = "MIN_M_PLUS" -> l.myPlusMetric > r.myPlusMetric

\* checkPlusMetric(ref, k), with the factors that depend on ref and k alone
\* cancelled: ((k-1) * power + power of ref) per instruction. The metric of l
\* exceeds that of r.
LargerPlusMetric(l, r, ref, k) ==
  ((k - 1) * l.energy + ref.energy) * r.instr >
  ((k - 1) * r.energy + ref.energy) * l.instr

=============================================================================
