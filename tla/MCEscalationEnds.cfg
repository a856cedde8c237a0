CONSTANTS
  r1 = r1
  j1 = j1
  j2 = j2
  TicketIds = {1, 2}
  Projects = {"P"}
  Users = {"ann"}
  NoUser = "nobody"
  Contents = {"a"}
  Developers <- MCDevelopers
  MaxTime = 1
  Seeds <- DueSeeds
  Calls <- ResetCalls
  Requests = {r1}
  Runs = {j1, j2}
  Isolated = FALSE
SPECIFICATION FairEscalationSpec
INVARIANT JobTypeOK
PROPERTIES
  OnlyRemovalsDelete
  OverdueEndsCritical
\* The clients stop, and the job with nothing overdue.
CHECK_DEADLOCK FALSE
