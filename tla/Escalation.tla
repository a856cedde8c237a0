----------------------------- MODULE Escalation -----------------------------
(***************************************************************************)
(* TicketsCronService next to the requests of Tickets: the hourly job that *)
(* raises the priority of overdue tickets.  A run reads all overdue        *)
(* tickets with one query and then saves them one after the other, two     *)
(* round trips each (TypeOrm), so the last ones are written long after     *)
(* they were read, while requests come and go.                             *)
(*                                                                         *)
(* Nothing keeps a run from starting while an earlier one is still saving: *)
(* the scheduler fires every hour and does not wait for the handler.  Runs *)
(* are the runs that may be open together, each with a batch of its own.   *)
(***************************************************************************)
EXTENDS Tickets

CONSTANT Runs  \* a bound on the runs of the job that overlap

VARIABLES
  job,         \* where each run is: idle, save (between tickets), write
  batch,       \* its entities still to be saved, by ticket
  saving,      \* the ticket it is writing
  differences  \* the columns its save() found to differ

jobVars == <<job, batch, saving, differences>>
allVars == <<vars, jobVars>>

NoBatch == << >>

EscalationInit ==
  /\ Init
  /\ job = [j \in Runs |-> "idle"]
  /\ batch = [j \in Runs |-> NoBatch]
  /\ saving = [j \in Runs |-> NoTicket]
  /\ differences = [j \in Runs |-> {}]

-----------------------------------------------------------------------------
\* Fault: CRITICAL tickets are taken for flagged.
NeedsEscalation_critical(row) ==
  ~row.isDeleted /\ IsPast(row.dueDate) /\ row.priority # "CRITICAL"

\* Fault: the query finds soft-deleted tickets, too.
NeedsEscalation_deleted(row) ==
  IsPast(row.dueDate) /\ (row.priority # "CRITICAL" \/ ~row.isOverdue)

\* The query: priority != CRITICAL OR isOverdue = false, whatever the status.
NeedsEscalation(row) ==
  /\ ~row.isDeleted
  /\ IsPast(row.dueDate)
  /\ row.priority # "CRITICAL" \/ ~row.isOverdue

NextPriority ==
  [LOW |-> "MEDIUM", MEDIUM |-> "HIGH", HIGH |-> "CRITICAL",
   CRITICAL |-> "CRITICAL"]

\* One level up; at CRITICAL the ticket is flagged.
Escalated(row) ==
  [row EXCEPT !.priority = NextPriority[@],
              !.isOverdue = @ \/ NextPriority[row.priority] = "CRITICAL"]

\* The scheduler fires: a run queries, and escalates what it has read.
JobQuery(j) ==
  /\ job[j] = "idle"
  /\ LET overdue == {t \in DOMAIN tickets : NeedsEscalation(tickets[t])}
     IN  /\ overdue # {}
         /\ batch' = [batch EXCEPT
                        ![j] = [t \in overdue |-> Escalated(tickets[t])]]
  /\ job' = [job EXCEPT ![j] = "save"]
  /\ UNCHANGED <<vars, saving, differences>>

\* Fault: the run does not end with its last ticket.
NextInBatch_last(j, t) ==
  /\ batch' = [batch EXCEPT ![j] = [u \in DOMAIN @ \ {t} |-> @[u]]]
  /\ job' = [job EXCEPT ![j] = "save"]
  /\ saving' = [saving EXCEPT ![j] = NoTicket]
  /\ differences' = [differences EXCEPT ![j] = {}]

\* The run is through with ticket t.
NextInBatch(j, t) ==
  /\ batch' = [batch EXCEPT ![j] = [u \in DOMAIN @ \ {t} |-> @[u]]]
  /\ job' = [job EXCEPT ![j] = IF DOMAIN batch[j] = {t} THEN "idle" ELSE "save"]
  /\ saving' = [saving EXCEPT ![j] = NoTicket]
  /\ differences' = [differences EXCEPT ![j] = {}]

\* save(ticket), first round trip.  The query returns the rows in any order.
JobReload(j, t) ==
  /\ job[j] = "save"
  /\ t \in DOMAIN batch[j]
  /\ LET columns == Changed(batch[j][t], tickets[t])
     IN  \/ columns = {} /\ NextInBatch(j, t)
         \/ /\ columns # {}
            /\ job' = [job EXCEPT ![j] = "write"]
            /\ saving' = [saving EXCEPT ![j] = t]
            /\ differences' = [differences EXCEPT ![j] = columns]
            /\ UNCHANGED batch
  /\ UNCHANGED vars

\* save(ticket), second round trip.
JobWrite(j, t) ==
  /\ job[j] = "write"
  /\ saving[j] = t
  /\ tickets' = [tickets EXCEPT ![t] = Updated(@, batch[j][t], differences[j])]
  /\ NextInBatch(j, t)
  /\ UNCHANGED <<deps, audit, now, pc, call, target, entityVars, plan>>

\* The runs in J are over, with the rest of their batches undone.
StopRuns(J) ==
  /\ job' = [j \in Runs |-> IF j \in J THEN "idle" ELSE job[j]]
  /\ batch' = [j \in Runs |-> IF j \in J THEN NoBatch ELSE batch[j]]
  /\ saving' = [j \in Runs |-> IF j \in J THEN NoTicket ELSE saving[j]]
  /\ differences' = [j \in Runs |-> IF j \in J THEN {} ELSE differences[j]]

\* A round trip fails: the exception ends the run.
JobError(j) ==
  /\ job[j] # "idle"
  /\ StopRuns({j})
  /\ UNCHANGED vars

\* The process dies with its requests and its runs.
ServerCrash ==
  /\ \/ Crash
     \/ /\ InFlight = {}
        /\ \E j \in Runs : job[j] # "idle"
        /\ UNCHANGED vars
  /\ StopRuns(Runs)

JobStep(j) == \E t \in TicketIds : JobReload(j, t) \/ JobWrite(j, t)

EscalationNext ==
  \/ /\ \E r \in Requests : Begin(r) \/ Step(r) \/ DatabaseError(r)
     /\ UNCHANGED jobVars
  \/ Tick /\ UNCHANGED jobVars
  \/ \E j \in Runs : JobQuery(j)
  \/ \E j \in Runs : JobStep(j)
  \/ \E j \in Runs : JobError(j)
  \/ ServerCrash

EscalationSpec == EscalationInit /\ [][EscalationNext]_allVars

\* The event loop serves every request whose round trip is over, the
\* scheduler fires every hour, and a database that is tried again and again
\* does not fail every time.
JobFairness ==
  /\ WF_allVars(\E j \in Runs : JobQuery(j))
  /\ \A j \in Runs, t \in TicketIds :
       SF_allVars(JobReload(j, t)) /\ SF_allVars(JobWrite(j, t))
  /\ \A r \in Requests : WF_allVars(Step(r) /\ UNCHANGED jobVars)
  /\ WF_allVars(Tick /\ UNCHANGED jobVars)

FairEscalationSpec == EscalationSpec /\ JobFairness

-----------------------------------------------------------------------------
(* Properties.  The workflow keeps OnlyRemovalsDelete of Tickets with the  *)
(* job next to it.                                                         *)

\* Types of the job's variables, next to those of the requests.
JobTypeOK ==
  /\ job \in [Runs -> {"idle", "save", "write"}]
  /\ DOMAIN batch = Runs
  /\ saving \in [Runs -> TicketIds \cup {NoTicket}]
  /\ differences \in [Runs -> SUBSET Columns]
  /\ \A j \in Runs :
       /\ DOMAIN batch[j] \subseteq DOMAIN tickets
       /\ \A t \in DOMAIN batch[j] : IsRow(batch[j][t])
       /\ saving[j] \in DOMAIN batch[j] \cup {NoTicket}
       /\ job[j] = "write" <=> saving[j] # NoTicket
       /\ job[j] = "idle" <=> batch[j] = NoBatch

\* Every ticket whose due date stays past, a finished one included, ends up
\* CRITICAL and flagged, for good: although requests clear its escalation
\* state, runs that overlap write older levels back, saves fail half way
\* through a batch, and the process crashes.
OverdueEndsCritical ==
  \A t \in TicketIds :
    <>[](Active(t) /\ IsPast(tickets[t].dueDate) =>
           tickets[t].priority = "CRITICAL" /\ tickets[t].isOverdue)
=============================================================================
