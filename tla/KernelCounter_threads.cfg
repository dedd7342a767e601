CONSTANTS
  Threads = {t1, t2}
  Unset = Unset
  KernelCounts = {2}
  NoThread = NoThread
  MaxLaunches = 5
  MaxReads = 3
SPECIFICATION FairSpec
PROPERTY CountNeverFalls
CHECK_DEADLOCK FALSE
