SPECIFICATION Spec
CONSTANTS
  p1 = p1
  alice = alice
  bob = bob
  m1 = m1
  m2 = m2
  None = None
  Torn = Torn
  Refused = Refused
  Unread = Unread
  Procs = {p1}
  Accounts = {alice}
  Front <- Abroad
  Before = {alice}
  Macs = {m1, m2}
  Commands <- Overriding
  MaxFaults = 0
  HeaderSent = TRUE
  MaxEpoch = 0
INVARIANTS
  EnvNeverRekeys
