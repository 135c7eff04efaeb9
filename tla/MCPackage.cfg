SPECIFICATION Spec
CONSTANTS
  None = None
  Base = 4
  INT_MAX = 127
  Size <- MCSize
  Packages <- MCPackages
  What <- MCWhat
  PythonNames = {"/b.py"}
  Meaning <- MCMeaning
INVARIANTS
  FilesAsPacked
  HeaderRowsAsWritten
  ElfRowsComplete
  CodeAsWritten
  FoundAgain
CHECK_DEADLOCK FALSE
