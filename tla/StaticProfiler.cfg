CONSTANTS
  CommandLines <- MCCommandLines
  DeviceFlag = "--gpu=0"
  Ranges <- MCRanges
  Default = 35000000
  PercentStep = 50
  NumIterations = 2
  PerfDrop = 60
  K = 2
  Measures <- MCMeasures
  Partial <- MCPartial
  MaxCaps = 6
SPECIFICATION Spec
INVARIANTS ResultsUnderTheirCap CapsCoverRange ChoiceUndominated CapOutlivesOnlyFailure AppArgumentsKept
PROPERTIES ProfilerEnds
CHECK_DEADLOCK FALSE
