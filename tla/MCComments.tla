----------------------------- MODULE MCComments -----------------------------
(* Small instances of Comments for TLC. *)
EXTENDS Comments, TLC

CONSTANTS r1, r2, r3

Symmetric == Permutations(Requests)

\* Two users, one with a capital in the name.
MCUsername == [ann |-> "Ann", bob |-> "bob"]
MCLower == [Ann |-> "ann", ann |-> "ann", bob |-> "bob"]

\* Bodies that mention nobody, one user, and the other.
MCTags == [plain |-> {}, hiAnn |-> {"ann"}, hiBob |-> {"bob"}]

Create(content) ==
  [op |-> "create", ticketId |-> "T", authorId |-> "ann", content |-> content]
Update(ticket, content) ==
  [op |-> "update", ticketId |-> ticket, id |-> 1, content |-> content]
Remove(ticket) == [op |-> "remove", ticketId |-> ticket, id |-> 1]

\* Creations, edits that change the mentions, and removals of comment 1, by
\* the path of its ticket and by that of another one.
MCCalls ==
  {Create("hiAnn"), Create("plain"), Update("T", "hiAnn"), Update("T", "hiBob"),
   Update("U", "plain"), Remove("T"), Remove("U")}

\* A comment and two edits of it.
EditCalls == {Create("plain"), Update("T", "hiAnn"), Update("T", "hiBob")}
=============================================================================
