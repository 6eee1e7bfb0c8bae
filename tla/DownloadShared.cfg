SPECIFICATION Spec
CONSTANTS
  v1 = v1
  v2 = v2
  path = path
  NoFile = NoFile
  Junk = Junk
  Torn = Torn
  NoJob = NoJob
  Packages = {v1, v2}
  Dests = {path}
  HasBundle = {v1, v2}
  Size <- MCSize
  Headers <- MCHeaders
  Targets <- SharedTargets
  Window = 2
  MaxErrorBody = 1
  Body416 = 1
INVARIANTS
  TypeOK
  PublishedWhole
  InPlace
  WholeNeverAppended
PROPERTIES
  PartialKept
