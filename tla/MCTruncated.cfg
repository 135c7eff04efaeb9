SPECIFICATION Spec
CONSTANTS
  Procs = {p1}
  Sizes <- MCSizes
  MaxRead = 2
  MaxRequests = 1
  MaxExpires = 0
  None = None
INVARIANT
  StoredIsWhole
CHECK_DEADLOCK FALSE
