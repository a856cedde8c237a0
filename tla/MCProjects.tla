----------------------------- MODULE MCProjects -----------------------------
(* Small instances of Projects for TLC. *)
EXTENDS Projects, TLC

CONSTANTS r1, r2, m1, m2, m3

Symmetric == Permutations(Requests) \cup Permutations(Managers)

Row(project, status) ==
  [projectId |-> project, content |-> "a", status |-> status,
   priority |-> "LOW", assigneeId |-> NoUser, dueDate |-> NoDate,
   isOverdue |-> FALSE, isDeleted |-> FALSE, deletedAt |-> NoDate,
   version |-> 1]

\* An open and a DONE ticket in the project to be removed, one outside.
MCSeeds ==
  {[tickets |-> <<Row("P", "TODO"), Row("P", "DONE"), Row("Q", "TODO")>>,
    deps |-> {<<1, 2>>}]}

MCProjectSeeds ==
  {[p \in {"P"} |-> [content |-> "a", ownerId |-> "ann",
                     isDeleted |-> FALSE, deletedAt |-> NoDate]]}

MCDevelopers == [p \in Projects |-> << >>]

Owner == [id |-> "ann", role |-> "DEVELOPER"]
Stranger == [id |-> "bob", role |-> "DEVELOPER"]
Admin == [id |-> "bob", role |-> "ADMIN"]

On(op, user) == [op |-> op, id |-> "P", user |-> user]

MCProjectCalls ==
  {On("remove", Owner), On("remove", Stranger),
   On("restore", Admin), On("restore", Owner),
   [content |-> "b"] @@ On("update", Admin),
   [op |-> "create", content |-> "b", ownerId |-> "bob"]}

CascadeCalls ==
  {On("remove", Owner), On("restore", Admin),
   [op |-> "create", content |-> "b", ownerId |-> "bob"]}

Draft(project) ==
  [projectId |-> project, content |-> "a", priority |-> "LOW",
   assigneeId |-> NoUser, dueDate |-> NoDate]

TicketCalls ==
  {[op |-> "create", draft |-> Draft("P")],
   [op |-> "update", id |-> 1, patch |-> [content |-> "b"]],
   [op |-> "remove", id |-> 1], [op |-> "restore", id |-> 1]}
=============================================================================
