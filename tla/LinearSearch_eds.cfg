\* Metric MIN_M_PLUS, the option --eds.
SPECIFICATION Spec
CONSTANTS
  Min = 5
  Max = 37
  Commands = {{"eds"}}
  Instructions = {1, 2}
  Energies = {1, 2}
  RefCap = 37
INVARIANTS
  PlusMetricMinimal
