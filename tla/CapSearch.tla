----------------------------- MODULE CapSearch -----------------------------
(***************************************************************************)
(* What the session is promised by a search, whichever algorithm runs: a   *)
(* bounded number of measurement windows, each under a limit of the device *)
(* range, and then one limit: a limit of that range or the limit the       *)
(* reference was measured at.                                              *)
(***************************************************************************)
EXTENDS Naturals

CONSTANTS
  Min, Max,     \* the limits the device accepts
  RefCap,       \* the limit of the reference
  MaxWindows    \* the most windows a search takes

VARIABLES
  phase,        \* "search" or "done"
  limit,        \* the limit programmed in the device
  windows,      \* windows so far
  result        \* the limit returned

vars == <<phase, limit, windows, result>>

Init ==
  /\ phase = "search" /\ limit = RefCap /\ windows = 0 /\ result = RefCap

\* The next window runs under any limit of the range.
TryCap ==
  /\ phase = "search" /\ windows < MaxWindows
  /\ limit' \in Min..Max
  /\ windows' = windows + 1
  /\ UNCHANGED <<phase, result>>

ChooseCap ==
  /\ phase = "search" /\ phase' = "done"
  /\ result' \in (Min..Max) \union {RefCap}
  /\ UNCHANGED <<limit, windows>>

Next == TryCap \/ ChooseCap

\* The search does return.
Spec == Init /\ [][Next]_vars /\ <>(phase = "done")

=============================================================================
