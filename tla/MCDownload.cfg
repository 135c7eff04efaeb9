SPECIFICATION FairSpec
CONSTANTS
  Procs = {p1, p2}
  Sizes <- MCSizes
  MaxRead = 2
  MaxRequests = 2
  MaxExpires = 1
  None = None
INVARIANTS
  InOrder
  NoErrorPage
  CheckedIsCurrent
PROPERTY
  DownloadsEnd
CHECK_DEADLOCK FALSE
