CONSTANTS
  GroupLists <- MCGroupLists
  GroupName = "ComputeBasic"
  Required <- MCRequired
  Amounts = {1, 3}
  Million = 2
  MaxReports = 3
  MaxCalls = 3
SPECIFICATION FairSpec
INVARIANTS BuffersApart CounterBracket StreamIsOpen
PROPERTIES CountedOnce WaitsReturn
CHECK_DEADLOCK FALSE
