CONSTANTS
  r1 = r1
  i1 = i1
  u1 = u1
  u2 = u2
  TicketIds = {1, 2, 3, 4}
  Projects = {"P"}
  Users = {"ann"}
  NoUser = "nobody"
  Contents = {"a"}
  Developers <- MCDevelopers
  MaxTime = 0
  Seeds <- MCSeeds
  Calls <- MCCalls
  Requests = {}
  Isolated = FALSE
  Imports = {i1}
  Files <- OneFile
  AttachmentIds = {1, 2}
  Uploaders = {}
  AttachmentCalls <- MCAttachmentCalls
SPECIFICATION UploadsSpec
INVARIANT SummaryCountsEveryRow
\* The clients stop after the last request.
CHECK_DEADLOCK FALSE
