SPECIFICATION Spec
CONSTANTS
  None = None
  ULLONG_MAX = 4095
  INT_MAX = 511
  RepomdDocs <- MCRepomdDocs
  PrimaryDocs <- MCPrimaryDocs
  PomDocs <- MCPomDocs
  Files <- MCFiles
  BaseUrl <- MCBase
  Patterns <- MCPatterns
  MaxRepos = 2
  Lengths = {1, 2, 7, 80}
INVARIANTS
  PackagesAsWritten
  NoFalseAlarm
  UrlsAsWritten
  NewestChosen
CHECK_DEADLOCK FALSE
