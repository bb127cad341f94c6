SPECIFICATION Spec
CHECK_DEADLOCK FALSE
CONSTANTS
  ann = ann
  ben = ben
  keyA = keyA
  keyB = keyB
  keyN = keyN
  Accounts = {keyA, keyB, keyN}
  Identities = {ann, ben}
  NoIdentity = NoIdentity
  InitialPrimary <- MCPrimary
  CddProviders = {ben}
  Worlds <- MCWorlds
  MaxRequests = 2
  MaxTime = 3
INVARIANTS
  TypeOK
  OnlyParties
  RevertedOnlyIfStale
  NoSecondRequest
PROPERTIES
  TakenWhenValid
