CONSTANTS
  Threads = {t1}
  Unset = Unset
  KernelCounts = {0, 2}
  NoThread = NoThread
  MaxLaunches = 11
  MaxReads = 1
  Limits = {150}
  Factory = 250
  MaxRuns = 2
  MaxSets = 1
SPECIFICATION CudaSpec
INVARIANTS EndedRunKeepsLimit ReportCountsLaunches
PROPERTIES CountIsRecent GetPerfCounterReturns
CHECK_DEADLOCK FALSE
