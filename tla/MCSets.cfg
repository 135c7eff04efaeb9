SPECIFICATION FairSpec
CONSTANTS
  Procs = {p1, p2}
  bin1 = bin1
  bin2 = bin2
  src = src
  link = link
  elf = elf
  text = text
  lib = lib
  plain = plain
  conf = conf
  py = py
  rawhide = rawhide
  Rpms = {bin1, link}
  Contents = {elf, text}
  Names <- MCNames
  KeepFull = {conf}
  PyNames = {py}
  Format <- MCFormat
  Source = {}
  FilesOf <- MCFilesOf
  Sets = {rawhide}
  Commands <- SetCommands
  MaxRuns = 3
  MaxExpires = 1
  MaxCrashes = 1
  None = None
INVARIANTS
  SetIsLastUpdate
  ClosureCurrent
CHECK_DEADLOCK FALSE
