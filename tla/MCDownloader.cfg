SPECIFICATION FairSpec
CONSTANTS
  Shared = {u1}
  Helpers = {h1, h2}
  Main = main
  u1 = u1
  u2 = u2
  u3 = u3
  UrlList <- MCUrlList
  NameOrder <- MCNameOrder
  None = None
INVARIANTS
  RoundAssertions
  EachUrlOnce
  SetUpdateComplete
PROPERTY
  Terminates
CHECK_DEADLOCK FALSE
