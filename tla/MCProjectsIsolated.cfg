CONSTANTS
  r1 = r1
  r2 = r2
  m1 = m1
  m2 = m2
  m3 = m3
  TicketIds = {1, 2, 3, 4, 5}
  Projects = {"P", "Q"}
  Users = {"ann", "bob"}
  NoUser = "nobody"
  Contents = {"a", "b"}
  Developers <- MCDevelopers
  MaxTime = 1
  Seeds <- MCSeeds
  Calls <- TicketCalls
  Requests = {r1}
  Isolated = TRUE
  Managers = {m1, m2, m3}
  ProjectSeeds <- MCProjectSeeds
  ProjectCalls <- MCProjectCalls
SPECIFICATION ProjectsSpec
SYMMETRY Symmetric
PROPERTIES
  CascadeReachesAll
  ChangesAllowed
\* The clients stop after the last request.
CHECK_DEADLOCK FALSE
