CONSTANTS
  c1 = c1
  c2 = c2
  AccountIds = {1, 2, 3}
  Usernames = {"ann", "bob"}
  Emails = {"ann@x", "bob@x"}
  FullNames = {"a", "b"}
  Clients = {c1, c2}
  AccountCalls <- MCCalls
  AccountSeeds <- MCSeeds
  Life = 1
  MaxTime = 1
SPECIFICATION AccountsSpec
SYMMETRY Symmetric
INVARIANTS
  AccountsTypeOK
  AccountsDistinct
  TokenNamesItsUser
PROPERTIES
  RemovedForGood
  RefusedForGood
  TokenSaysAccount
  UpdateWritesNamed
\* A client may have nothing left to call.
CHECK_DEADLOCK FALSE
