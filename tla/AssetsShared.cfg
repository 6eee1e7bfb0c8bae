SPECIFICATION FairSpec
CONSTANTS
  p1 = p1
  p2 = p2
  Procs = {p1, p2}
  N = 2
  Size <- MCSize
  NoFile = NoFile
INVARIANTS
  TypeOK
  LoadedWhole
PROPERTIES
  Heals
