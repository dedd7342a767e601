\* Every metric, on a range whose last step is shorter than the others: twelve windows.
SPECIFICATION Spec
CONSTANTS
  Min = 5
  Max = 37
  Commands = {{}, {"gss"}, {"en", "eds"}, {"edp"}, {"ls", "eds"}}
  Instructions = {0, 1, 2}
  Energies = {1, 2}
  RefCap = 37
INVARIANTS
  NothingBetterSeen
  RangeCovered
PROPERTIES
  ImplementsCapSearch
