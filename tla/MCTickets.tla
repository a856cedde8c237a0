----------------------------- MODULE MCTickets -----------------------------
(* Small instances of Tickets for TLC. *)
EXTENDS Tickets, TLC

CONSTANTS r1, r2, r3

Symmetric == Permutations(Requests)

Row(project, status) ==
  [projectId |-> project, content |-> "a", status |-> status,
   priority |-> "LOW", assigneeId |-> "ann", dueDate |-> NoDate,
   isOverdue |-> FALSE, isDeleted |-> FALSE, deletedAt |-> NoDate,
   version |-> 1]

Deleted(row) == [row EXCEPT !.isDeleted = TRUE, !.deletedAt = 0]
Due(row, date) == [row EXCEPT !.dueDate = date]
Of(row, user) == [row EXCEPT !.assigneeId = user]

\* Two tickets of one project, the first blocked by the second, and one of
\* another project.
OneBlocked ==
  [tickets |-> <<Row("P", "IN_REVIEW"), Of(Row("P", "IN_REVIEW"), "bob"),
                 Row("Q", "TODO")>>,
   deps |-> {<<1, 2>>}]

\* A ticket with two blockers, one of them DONE, so that each developer has one
\* that is open, and a deleted DONE ticket.
TwoBlockers ==
  [tickets |-> <<Of(Due(Row("P", "IN_REVIEW"), 0), "bob"),
                 Row("P", "IN_REVIEW"), Row("P", "DONE")>>,
   deps |-> {<<1, 2>>, <<1, 3>>}]
DeletedOnes ==
  [tickets |-> <<Deleted(Row("P", "IN_PROGRESS")), Deleted(Row("P", "DONE")),
                 Due(Row("P", "TODO"), 1)>>,
   deps |-> {}]

ConcurrentSeeds == {OneBlocked}
IsolatedSeeds == {TwoBlockers, DeletedOnes}

MCDevelopers ==
  [p \in Projects |-> IF p = "P" THEN <<"ann", "bob">> ELSE << >>]

Update(id, patch) == [op |-> "update", id |-> id, patch |-> patch]
Remove(id) == [op |-> "remove", id |-> id]
Restore(id) == [op |-> "restore", id |-> id]
AddDependency(id, by) == [op |-> "addDependency", id |-> id, blockedBy |-> by]
RemoveDependency(id, by) ==
  [op |-> "removeDependency", id |-> id, blockedBy |-> by]

Draft(project, assignee, date) ==
  [projectId |-> project, content |-> "a", priority |-> "LOW",
   assigneeId |-> assignee, dueDate |-> date]
Create(draft) == [op |-> "create", draft |-> draft]

\* Two tickets that wait for nothing.
Unblocked ==
  [tickets |-> <<Row("P", "IN_REVIEW"), Row("P", "IN_PROGRESS")>>, deps |-> {}]
UnblockedSeeds == {Unblocked}

\* Two clients that loaded the same version of a ticket.
RaceCalls ==
  {Update(1, [content |-> "b", version |-> 1]),
   Update(1, [priority |-> "HIGH", version |-> 1])}
\* Dependencies of two tickets, one call after the other.
DependencyCalls ==
  {AddDependency(1, 2), AddDependency(2, 1), RemoveDependency(1, 2)}

\* Every operation, on tickets that meet.
ConcurrentCalls ==
  {Create(Draft("P", NoUser, NoDate)), Create(Draft("Q", NoUser, NoDate)),
   Create(Draft("P", "bob", 0)), Update(2, [assigneeId |-> "ann"]),
   Update(1, [status |-> "DONE"]), Update(2, [status |-> "DONE"]),
   Update(1, [content |-> "b", version |-> 1]),
   Remove(1), Restore(1),
   AddDependency(1, 2), AddDependency(2, 1), AddDependency(1, 3),
   AddDependency(4, 1), RemoveDependency(1, 2)}

\* The same on tickets that stay apart, with every kind of patch.
IsolatedCalls ==
  {Create([status |-> "IN_REVIEW"] @@ Draft("P", NoUser, 0)),
   Update(1, [status |-> "DONE"]), Update(2, [status |-> "DONE"]),
   Update(3, [status |-> "IN_PROGRESS", version |-> 1]),
   Update(3, [status |-> "IN_REVIEW"]),
   Update(1, [content |-> "b", version |-> 1]),
   Update(2, [content |-> "b", version |-> 2]),
   Update(1, [priority |-> "HIGH", assigneeId |-> "ann"]),
   Update(1, [dueDate |-> 0]), Update(1, [dueDate |-> NoDate]),
   Remove(1), Remove(2), Restore(1), Restore(2),
   AddDependency(1, 2), AddDependency(2, 1),
   RemoveDependency(1, 2), RemoveDependency(1, 3)}
=============================================================================
