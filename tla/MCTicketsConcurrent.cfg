CONSTANTS
  r1 = r1
  r2 = r2
  r3 = r3
  Projects = {"P", "Q"}
  Users = {"ann", "bob"}
  NoUser = "nobody"
  Contents = {"a", "b"}
  Developers <- MCDevelopers
  MaxTime = 1
  TicketIds = {1, 2, 3, 4, 5, 6}
  Requests = {r1, r2, r3}
  Seeds <- ConcurrentSeeds
  Calls <- ConcurrentCalls
  Isolated = FALSE
SPECIFICATION Spec
SYMMETRY Symmetric
INVARIANTS
  TypeOK
  SameProject
  AuditMatchesAnswer
  AuditSound
  NeverStuck
PROPERTY OnlyRemovalsDelete
\* The clients stop after the last request.
CHECK_DEADLOCK FALSE
