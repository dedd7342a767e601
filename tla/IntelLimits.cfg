CONSTANTS
  Processors <- MCProcessors
  CpuInfos <- MCCpuInfos
  Factory <- MCFactory
  Caps <- MCCaps
  IdlePowers <- MCIdlePowers
  ToolLimits <- MCToolLimits
  ShortWindow = 12
  Quantized <- MCQuantized
  Offline = Offline
  Missing = Missing
  MaxRuns = 3
  MaxSets = 1
SPECIFICATION Spec
INVARIANTS RunLeavesNoTrace DumpKeepsFirst CapIsEnforced DirsMatchDomains
CHECK_DEADLOCK FALSE
