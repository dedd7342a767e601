CONSTANTS
  Drivers <- MCDrivers
  DevIds <- MCDevIds
  Unit = 2
  MinLimit <- MCMinLimit
  MaxLimit <- MCMaxLimit
  Tested <- MCTested
  MaxRuns = 3
SPECIFICATION XpuSpec
INVARIANTS RunFindsFullRange
CHECK_DEADLOCK FALSE
