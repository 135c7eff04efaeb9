SPECIFICATION FairSpec
CONSTANTS
  Procs = {p1, p2}
  bin1 = bin1
  bin2 = bin2
  src = src
  link = link
  elf = elf
  text = text
  lib = lib
  plain = plain
  conf = conf
  py = py
  rawhide = rawhide
  Rpms = {bin1, bin2, src}
  Contents = {elf, text}
  Names <- MCNames
  KeepFull = {conf}
  PyNames = {py}
  Format <- MCFormat
  Source = {src}
  FilesOf <- MCFilesOf
  Sets = {rawhide}
  Commands <- LoadCommands
  MaxRuns = 3
  MaxExpires = 1
  MaxCrashes = 1
  None = None
INVARIANTS
  CompletePackages
  NoPackageConflict
  FullContentsKept
  BinaryContentsAnalysed
PROPERTY
  CommandsEnd
CHECK_DEADLOCK FALSE
