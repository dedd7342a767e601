CONSTANTS
  Packages = {p1, p2}
  CounterWord = 8
  Scale = 12
  DramScale = 6
  Available = {"DRAM"}
  Steps <- MCSteps
  Start <- MCStart
  Powers = {}
  MaxPower = 72
  TicksPerMs = 2
  MaxLag = 1
  Word = 16
  MaxTime = 4
  MaxWork = 1
  MaxResets = 2
  MaxSamples = 3
SPECIFICATION IntelSpec
INVARIANTS DeltaIsWork EnergyIsConsumed TotalCountsWraps
SYMMETRY Symmetry
CHECK_DEADLOCK FALSE
