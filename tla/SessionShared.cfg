SPECIFICATION Spec
CONSTANTS
  p1 = p1
  p2 = p2
  alice = alice
  bob = bob
  m1 = m1
  m2 = m2
  None = None
  Torn = Torn
  Refused = Refused
  Unread = Unread
  Procs = {p1, p2}
  Accounts = {alice, bob}
  Front <- AtHome
  Before = {}
  Macs = {m1, m2}
  Commands <- Mixed
  MaxFaults = 1
  HeaderSent = TRUE
  MaxEpoch = 1
INVARIANTS
  TypeOK
  LicensedWhenReported
  VaultOpens
PROPERTIES
  PasswordKept
