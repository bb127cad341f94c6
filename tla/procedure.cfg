SPECIFICATION FairSpec
CHECK_DEADLOCK FALSE
CONSTANTS
  m1 = m1
  m2 = m2
  m3 = m3
  a1 = a1
  a2 = a2
  a3 = a3
  Managers <- MCManagers
  NoManager = NoManager
  Accounts = {a1, a2, a3}
  NoAccount = NoAccount
  AccountsOf <- MCAccountsOf
  Ops = {u1, u2}
  Overlap = FALSE
  AccountsMayFail = TRUE
  Calls = {c1}
  Options <- MCOptions
  Needs <- MCNeeds
INVARIANTS
  TypeOK
PROPERTIES
  SignedAsCalled
  AuthorizedSigner
  AuthorizationFirst
  CallsSettle
