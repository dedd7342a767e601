\* Limits in milli watts: arbitrary measurements, so that every path of the
\* search is taken, and applications whose energy has one minimum.
SPECIFICATION Spec
CONSTANTS
  Min = 50000
  Max = 300000
  RefCap = 300000
  Optima <- SomeOptima
  Instructions = {1}
  Energies = {1, 2}
  Metric = "MIN_E"
INVARIANTS
  CandidatesOrdered
  ReuseIsCurrent
  MinimumKept
PROPERTIES
  ImplementsCapSearch
