SPECIFICATION FairSpec
CONSTANTS
  c1 = c1
  c2 = c2
  NoCode = NoCode
  Codes = {c1, c2}
  RunsWith <- AnyRun
  VerdictStatuses = {200, 403}
INVARIANTS
  TypeOK
  VerdictFinal
PROPERTIES
  ImplementsSignIn
  Ends
  LoggedIn
