SPECIFICATION FairSpec
CONSTANTS
  Procs = {p1, p2}
  Digests = {d1}
  Blocks = 2
  Levels = 1
  MaxStarts = 3
  MaxExpires = 1
  MaxKills = 1
  MaxCrashes = 1
  None = None
INVARIANTS
  CachedIsWhole
  LoadedIsVerified
  FailsForReason
PROPERTY
  EveryoneEnds
CHECK_DEADLOCK FALSE
