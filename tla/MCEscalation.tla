---------------------------- MODULE MCEscalation ----------------------------
(* Small instances of Escalation for TLC. *)
EXTENDS Escalation, TLC

CONSTANTS r1, j1, j2

Row(status, priority, date) ==
  [projectId |-> "P", content |-> "a", status |-> status,
   priority |-> priority, assigneeId |-> NoUser, dueDate |-> date,
   isOverdue |-> FALSE, isDeleted |-> FALSE, deletedAt |-> NoDate,
   version |-> 1]

\* A ticket two levels below the highest, and an open and a finished one that
\* a run saves in one batch; all are due before the clock stops.
DueSeeds ==
  {[tickets |-> <<Row("IN_PROGRESS", "MEDIUM", 0)>>, deps |-> {}],
   [tickets |-> <<Row("IN_PROGRESS", "HIGH", 0), Row("DONE", "HIGH", 0)>>,
    deps |-> {}]}

MCDevelopers == [p \in Projects |-> << >>]

\* An edit that clears the escalation state, and a ticket hidden and shown.
ResetCalls ==
  {[op |-> "update", id |-> 1, patch |-> [priority |-> "HIGH"]],
   [op |-> "remove", id |-> 1], [op |-> "restore", id |-> 1]}
=============================================================================
