CONSTANTS
  Powers = {0, 50, 51}
  FilterSize = 3
  Scale = 6
  Percent = 3
  NaN = NaN
SPECIFICATION TriggerSpec
INVARIANTS SteadyIsReady ReadyIsSteady
