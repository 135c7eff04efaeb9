SPECIFICATION Spec
CONSTANTS
  s = s
  t = t
  a = a
  b = b
  Arches = {x86, arm}
  Sonames = {s, t}
  Names = {a, b}
  BaseName <- MCBaseName
  IgnoredNames = {}
  Packages = {1, 2, 3}
  IgnoredPackages = {2}
  Priorities = {0, 1}
  MaxRows = 3
  None = None
INVARIANTS
  ResolvedIfProvided
  BestChosen
  ConflictsReported
CHECK_DEADLOCK FALSE
