----------------------------- MODULE Assignments -----------------------------
(***************************************************************************)
(* Automatic assignment next to other requests: Tickets with a history     *)
(* variable that says which requests have saved a ticket between the       *)
(* choice of a developer, made by one query, and the INSERT that uses it.  *)
(***************************************************************************)
EXTENDS Tickets

VARIABLE
  rivals  \* request |-> those that saved a ticket since it built its entity

assignmentVars == <<vars, rivals>>

\* Request q commits a ticket in this step.
Saves(q) == pc[q] \in {"insert", "write"} /\ pc'[q] \in {"log", "ok"}

\* Whoever waits with its INSERT sees the others save.
ObserveRivals ==
  rivals' = [r \in Requests |->
               IF pc[r] = "insert" /\ pc'[r] = "insert"
               THEN rivals[r] \cup {q \in Requests : Saves(q)}
               ELSE {}]

AssignmentsInit == Init /\ rivals = [r \in Requests |-> {}]

AssignmentsNext == Next /\ ObserveRivals

AssignmentsSpec == AssignmentsInit /\ [][AssignmentsNext]_assignmentVars

-----------------------------------------------------------------------------
(* Properties.                                                             *)

\* A request that is no creation may take a ticket from one developer and
\* give it to another; a creation only gives.
Moving(S) == {q \in S : call[q].op # "create"}

\* create() chooses the least loaded developer one round trip before it saves
\* the ticket, and others may choose the same one, or move tickets, meanwhile.
\* When the ticket is saved, the choice is off by one ticket at most for every
\* request that has saved in between, and by one more for those of them that
\* are no creations.  If nobody has saved, it is the least loaded developer.
BalancedAssignment ==
  [][\A r \in Requests :
       At(r, "insert", "create") /\ pc'[r] = "log" /\ AutoAssigned(r) =>
         LET project == call[r].draft.projectId
             developers == Developers[project]
             load(user) == Cardinality(OpenTickets(user, project))
         IN  \A j \in DOMAIN developers :
               load(mem[r].assigneeId) <=
                 load(developers[j]) + Cardinality(rivals[r])
                   + Cardinality(Moving(rivals[r]))]_assignmentVars
=============================================================================
