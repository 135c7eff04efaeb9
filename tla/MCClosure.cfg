SPECIFICATION FairSpec
CONSTANTS
  Files = {1, 2, 3, 4}
  Graphs <- MCGraphs
  Tables <- MCTables
INVARIANTS
  TableIsClosure
PROPERTY
  FixpointReached
CHECK_DEADLOCK FALSE
