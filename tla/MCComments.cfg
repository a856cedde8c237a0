CONSTANTS
  r1 = r1
  r2 = r2
  r3 = r3
  CommentIds = {1, 2}
  Tickets = {"T", "U"}
  Users = {"ann", "bob"}
  Username <- MCUsername
  Contents = {"plain", "hiAnn", "hiBob"}
  Tags <- MCTags
  Lower <- MCLower
  Calls <- MCCalls
  Requests = {r1, r2, r3}
SPECIFICATION Spec
SYMMETRY Symmetric
INVARIANT CommentsTypeOK
PROPERTIES
  ScopedToTicket
  PurgedForGood
  MentionsReevaluated
\* The clients stop after the last request.
CHECK_DEADLOCK FALSE
