SPECIFICATION Spec
CONSTANTS
  h1 = h1
  h2 = h2
  doc = doc
  log = log
  Addresses = {h1, h2}
  Wild = Wild
  Paths = {doc, log}
  Fds <- MCFds
  Sections = {s1}
  MaxSignals = 2
  Matching <- MCMatching
  MaxNodes = 2
  MaxSize = 1
  Width = 2
  Slots = 4
  Values = {v1}
  Null = Null
  MaxPage = 3
  PageSize = 2
  Prots = {"r", "rw"}
  Images <- MCImages
  File <- MCFile
  PageCells = 2
  MaxStubs = 2
  Shim <- MCShim
  StubBase = 900
  Elsewhere = 200
  Word = 64
  MaxImages = 1
  Commands <- MCCommands
  Scratch = 300
  Ctx = 301
  Buffer <- MCBuffer
  Lost = {"lost"}
SYMMETRY Alike
CHECK_DEADLOCK FALSE
INVARIANTS
  TypeOK
  DescriptorsOwned
  OneWakePerSignal
  
  HeldOnce
  RegionsKept
  LoadedAsLinked
  GuestReady
