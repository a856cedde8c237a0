------------------------------ MODULE MCUploads ------------------------------
(* Small instances of Uploads for TLC. *)
EXTENDS Uploads, TLC

CONSTANTS r1, i1, u1, u2

Row(status) ==
  [projectId |-> "P", content |-> "a", status |-> status, priority |-> "LOW",
   assigneeId |-> "ann", dueDate |-> NoDate, isOverdue |-> FALSE,
   isDeleted |-> FALSE, deletedAt |-> NoDate, version |-> 1]

\* An open ticket, and one that was deleted.
MCSeeds ==
  {[tickets |-> <<Row("TODO"),
                  [Row("TODO") EXCEPT !.isDeleted = TRUE, !.deletedAt = 0]>>,
    deps |-> {}]}

MCDevelopers == [p \in Projects |-> << >>]

MCCalls ==
  {[op |-> "remove", id |-> 1], [op |-> "restore", id |-> 2],
   [op |-> "create",
    draft |-> [projectId |-> "P", content |-> "a", priority |-> "LOW",
               assigneeId |-> "ann", dueDate |-> NoDate]]}

Good(status) ==
  [content |-> "a", status |-> status, priority |-> "HIGH",
   assigneeId |-> NoUser]
Untitled == [Good("TODO") EXCEPT !.content = "none"]
Unknown == [Good("TODO") EXCEPT !.status = "OPEN"]

File(rows, malformed) ==
  [projectId |-> "P", rows |-> rows, malformed |-> malformed]

\* No row, one, several with an invalid one at either place, and text the
\* parser refuses, at once or after some rows.
MCFiles ==
  {File(<<Good("TODO"), Untitled, Good("DONE")>>, FALSE),
   File(<<Unknown, Good("TODO"), Untitled>>, FALSE),
   File(<<Good("TODO")>>, FALSE), File(<< >>, FALSE),
   File(<<Good("TODO"), Good("TODO")>>, TRUE), File(<< >>, TRUE)}

OneFile == {File(<<Good("TODO"), Good("TODO")>>, FALSE)}

MCAttachmentCalls ==
  {[op |-> "upload", ticketId |-> 1], [op |-> "upload", ticketId |-> 2],
   [op |-> "delete", ticketId |-> 1, id |-> 1],
   [op |-> "delete", ticketId |-> 2, id |-> 1]}
=============================================================================
