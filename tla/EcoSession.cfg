\* Up to two sessions on one Eco object, with every trigger type, an execvp
\* that may fail, and a trigger file that is modified and removed; progress of
\* both threads under weak fairness, hence no symmetry.
SPECIFICATION FairSpec
CONSTANTS
  Caps = {c1}
  Default = default
  RepeatWindows = 1
  MaxPeriod = 2
  MaxWindows = 1
  MaxSessions = 2
  MaxChanges = 3
  ExecMayFail = TRUE
INVARIANTS
  DefaultOutsideRounds
  ExecUnderBest
  SessionEndsAfterCleanExit
  RetuneOnlyOnTrigger
PROPERTIES
  PeriodHonoured
  TouchEndsExec
  CleanExitEndsSession
