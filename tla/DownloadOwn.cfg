SPECIFICATION FairSpec
CONSTANTS
  v1 = v1
  v2 = v2
  path = path
  NoFile = NoFile
  Junk = Junk
  Torn = Torn
  NoJob = NoJob
  Packages = {v1, v2}
  Dests = {path}
  HasBundle = {v1, v2}
  Size <- MCSize
  Headers <- MCHeaders
  Targets <- OwnTarget
  Window = 2
  MaxErrorBody = 3
  Body416 = 0
INVARIANTS
  PublishedPure
PROPERTIES
  Recovers
  ImplementsStore
