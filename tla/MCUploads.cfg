CONSTANTS
  r1 = r1
  i1 = i1
  u1 = u1
  u2 = u2
  TicketIds = {1, 2, 3, 4, 5}
  Projects = {"P"}
  Users = {"ann"}
  NoUser = "nobody"
  Contents = {"a"}
  Developers <- MCDevelopers
  MaxTime = 0
  Seeds <- MCSeeds
  Calls <- MCCalls
  Requests = {r1}
  Isolated = FALSE
  Imports = {i1}
  Files <- MCFiles
  AttachmentIds = {1, 2}
  Uploaders = {u1, u2}
  AttachmentCalls <- MCAttachmentCalls
SPECIFICATION UploadsSpec
INVARIANTS
  UploadsTypeOK
  RowsInOrder
  SummaryAccurate
PROPERTIES
  OwnAttachmentsOnly
  DeletedKeepFiles
  ImportsAnswered
\* The clients stop after the last request.
CHECK_DEADLOCK FALSE
