SPECIFICATION FairSpec
CONSTANTS
  p1 = p1
  alice = alice
  bob = bob
  m1 = m1
  m2 = m2
  None = None
  Torn = Torn
  Refused = Refused
  Unread = Unread
  Procs = {p1}
  Accounts = {alice}
  Front <- Abroad
  Before = {alice}
  Macs = {m1, m2}
  Commands <- Readers
  MaxFaults = 2
  HeaderSent = TRUE
  MaxEpoch = 2
INVARIANTS
  ThreeRounds
PROPERTIES
  KeepsServing
