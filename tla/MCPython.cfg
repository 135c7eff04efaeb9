SPECIFICATION FairSpec
CONSTANTS
  Sources <- MCSources
  Parsed <- MCParsed
  Capacity = 2
  MaxCalls = 3
  None = None
INVARIANTS
  ResultOfThisSource
  NothingLeftOpen
PROPERTY
  CallsReturn
CHECK_DEADLOCK FALSE
