SPECIFICATION Spec
CONSTANTS
  MachFiles <- MCMachFiles
  MachFile <- MCMachFile
  MachPage = 4
  NoSymbol = ""
  Bases = {1000, 2000}
  Digest <- MCDigest
  SiteTable <- MCSiteTable
  Idiom = 77
  Still = 70
  ScanReach = 2
  DataSymbols = {"_NSString"}
  ZeroPage = 4000
  PerPage = 2
  StubPages <- MCStubPages
  HeapUnits = 7
  Sizes = {0, 17}
  Icxs <- MCIcxs
  Counts = {1, 3}
  ShimNames <- MCShimNames
  Aliases <- MCAliases
  ShimBase = 3000
  Controls = {c1}
  Macs = {m1, m2}
  NoMac = NoMac
  Dirs <- MCDirs
  CorefpBase = 1000
  KitBase = 2000
  CorefpExports = {"_WIn9UJ86JKdV4dM"}
  KitEntries = {"_cp2g1b9ro", "_Mib5yocT"}
  Genuine <- MCGenuine
  MaxSessions = 2
  MaxCalls = 3
  MaxSigns = 1
  MaxLoads = 2
CHECK_DEADLOCK FALSE
INVARIANTS
  TypeOK
  MachLoadedAsLinked
  BlocksApart
  SessionStartsAlike
  GuestEntersWhole
  SessionLeavesNothing
