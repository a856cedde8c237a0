-------------------------- MODULE EscalationProofs --------------------------
(***************************************************************************)
(* Theorems about Escalation, for any number of runs that overlap and with *)
(* requests that are open on the same tickets.  The invariant of           *)
(* TicketsProofs is kept by the job as well: its entities are rows of      *)
(* existing tickets, none of them marked deleted, and neither a run nor a  *)
(* request ever changes the project of a ticket.                           *)
(***************************************************************************)
EXTENDS Escalation, TicketsProofs

\* What one run holds.
RunOK(j) ==
  /\ DOMAIN batch[j] \subseteq DOMAIN tickets
  /\ \A t \in DOMAIN batch[j] :
       /\ IsRow(batch[j][t])
       /\ batch[j][t].projectId = tickets[t].projectId
       /\ ~batch[j][t].isDeleted
  /\ saving[j] \in DOMAIN batch[j] \cup {NoTicket}
  /\ job[j] = "write" <=> saving[j] # NoTicket
  /\ job[j] = "idle" <=> batch[j] = NoBatch
  /\ differences[j] \subseteq Columns
  /\ "projectId" \notin differences[j]

JobShape ==
  /\ job \in [Runs -> {"idle", "save", "write"}]
  /\ DOMAIN batch = Runs
  /\ saving \in [Runs -> TicketIds \cup {NoTicket}]
  /\ DOMAIN differences = Runs /\ differences = [j \in Runs |-> differences[j]]

JobInv == IInv /\ JobShape /\ \A j \in Runs : RunOK(j)

LEMMA InitJobInv == EscalationInit => JobInv
<1> SUFFICES ASSUME EscalationInit PROVE JobInv
  OBVIOUS
<1>1. IInv
  BY InitIInv DEF EscalationInit
<1>2. JobShape /\ \A j \in Runs : RunOK(j)
  BY DEF EscalationInit, JobShape, RunOK, NoBatch
<1> QED
  BY <1>1, <1>2 DEF JobInv

LEMMA EscalatedIsRow ==
  ASSUME NEW row, IsRow(row)
  PROVE  /\ IsRow(Escalated(row))
         /\ Escalated(row).projectId = row.projectId
         /\ Escalated(row).isDeleted = row.isDeleted
<1> DEFINE after == Escalated(row)
<1>1. \A c \in Columns : row[c] \in ColumnType[c]
  BY DEF IsRow
<1>2. /\ after = [c \in Columns |-> after[c]]
      /\ after.projectId = row.projectId
      /\ after.isDeleted = row.isDeleted
  BY ColumnFacts DEF Escalated, IsRow
<1>3. \A c \in Columns : after[c] \in ColumnType[c]
  <2>1. row = [c \in Columns |-> row[c]]
    BY DEF IsRow
  <2>2. /\ after.priority = NextPriority[row.priority]
        /\ after.isOverdue =
             (row.isOverdue \/ NextPriority[row.priority] = "CRITICAL")
        /\ \A c \in Columns \ {"priority", "isOverdue"} : after[c] = row[c]
    BY <2>1, ColumnFacts DEF Escalated
  <2>3. row.priority \in Priorities /\ ColumnType["priority"] = Priorities
    BY <1>1, ColumnFacts DEF ColumnType
  <2>4. NextPriority[row.priority] \in Priorities
    BY <2>3 DEF NextPriority, Priorities
  <2>5. after.isOverdue \in BOOLEAN
    BY <2>2, Zenon
  <2> HIDE DEF after
  <2> QED
    BY <1>1, <2>2, <2>3, <2>4, <2>5, ColumnFacts
<1> QED
  BY <1>2, <1>3 DEF IsRow

\* A step that does not touch a run keeps what the run holds.
LEMMA OthersKeepRun ==
  ASSUME NEW j \in Runs, RunOK(j), ProjectsKept,
         job'[j] = job[j], batch'[j] = batch[j], saving'[j] = saving[j],
         differences'[j] = differences[j]
  PROVE  RunOK(j)'
BY DEF RunOK, ProjectsKept

LEMMA StopKeepsJob ==
  ASSUME JobInv, ProjectsKept, NEW J, StopRuns(J)
  PROVE  JobShape' /\ \A j \in Runs : RunOK(j)'
<1>1. JobShape'
  BY DEF StopRuns, JobInv, JobShape
<1>2. ASSUME NEW j \in Runs PROVE RunOK(j)'
  <2>1. CASE j \in J
    BY <2>1 DEF StopRuns, RunOK, NoBatch
  <2>2. CASE j \notin J
    BY <2>2, OthersKeepRun DEF StopRuns, JobInv
  <2> QED
    BY <2>1, <2>2
<1> QED
  BY <1>1, <1>2

LEMMA NextInBatchKeepsJob ==
  ASSUME JobInv, ProjectsKept, NEW j \in Runs, NEW t \in DOMAIN batch[j],
         NextInBatch(j, t)
  PROVE  JobShape' /\ \A k \in Runs : RunOK(k)'
<1> DEFINE rest == [u \in DOMAIN batch[j] \ {t} |-> batch[j][u]]
<1>1. /\ batch' = [batch EXCEPT ![j] = rest]
      /\ job' = [job EXCEPT ![j] =
                   IF DOMAIN batch[j] = {t} THEN "idle" ELSE "save"]
      /\ saving' = [saving EXCEPT ![j] = NoTicket]
      /\ differences' = [differences EXCEPT ![j] = {}]
  BY DEF NextInBatch
<1>2. DOMAIN rest = {} <=> rest = NoBatch
  BY DEF NoBatch
<1>3. DOMAIN batch[j] = {t} <=> DOMAIN rest = {}
  OBVIOUS
<1>4. JobShape'
  BY <1>1 DEF JobInv, JobShape
<1>5. RunOK(j)'
  <2>1. batch'[j] = rest
    BY <1>1 DEF JobInv, JobShape
  <2>2. /\ job'[j] = (IF DOMAIN batch[j] = {t} THEN "idle" ELSE "save")
        /\ saving'[j] = NoTicket /\ differences'[j] = {}
    BY <1>1 DEF JobInv, JobShape
  <2>3. job'[j] = "idle" <=> rest = NoBatch
    BY <1>2, <1>3, <2>2
  <2>4. \A u \in DOMAIN rest : rest[u] = batch[j][u] /\ u \in DOMAIN batch[j]
    OBVIOUS
  <2> HIDE DEF rest
  <2>5. RunOK(j)
    BY DEF JobInv
  <2>6. \A u \in DOMAIN rest :
          /\ u \in DOMAIN tickets' /\ IsRow(rest[u])
          /\ rest[u].projectId = tickets'[u].projectId /\ ~rest[u].isDeleted
    BY <2>4, <2>5 DEF RunOK, ProjectsKept
  <2> QED
    BY <2>1, <2>2, <2>3, <2>6 DEF RunOK
<1>6. ASSUME NEW k \in Runs, k # j PROVE RunOK(k)'
  BY <1>1, <1>6, OthersKeepRun DEF JobInv, JobShape
<1> QED
  BY <1>4, <1>5, <1>6

LEMMA QueryKeepsJob ==
  ASSUME JobInv, NEW j \in Runs, JobQuery(j)
  PROVE  JobInv'
<1> PICK overdue \in SUBSET {t \in DOMAIN tickets : NeedsEscalation(tickets[t])} :
      /\ overdue # {}
      /\ batch' = [batch EXCEPT ![j] = [t \in overdue |-> Escalated(tickets[t])]]
  BY DEF JobQuery
<1>1. /\ job[j] = "idle" /\ job' = [job EXCEPT ![j] = "save"]
      /\ UNCHANGED <<vars, saving, differences>>
  BY DEF JobQuery
<1>2. IInv' /\ ProjectsKept
  BY <1>1, NextKeeps DEF JobInv, ProjectsKept, vars
<1>3. JobShape'
  BY <1>1 DEF JobInv, JobShape
<1>4. RunOK(j)'
  <2> DEFINE found == [t \in overdue |-> Escalated(tickets[t])]
  <2>1. batch'[j] = found /\ job'[j] = "save"
    BY <1>1 DEF JobInv, JobShape
  <2>2. \A t \in overdue : /\ IsRow(found[t]) /\ t \in DOMAIN tickets
                           /\ found[t].projectId = tickets[t].projectId
                           /\ ~found[t].isDeleted
    BY EscalatedIsRow DEF JobInv, IInv, TypeOK, NeedsEscalation
  <2>3. DOMAIN found = overdue /\ found # NoBatch
    BY DEF NoBatch
  <2> HIDE DEF found
  <2>4. saving[j] = NoTicket
    BY <1>1 DEF JobInv, RunOK
  <2> QED
    BY <1>1, <2>1, <2>2, <2>3, <2>4 DEF JobInv, RunOK, vars
<1>5. ASSUME NEW k \in Runs, k # j PROVE RunOK(k)'
  BY <1>1, <1>2, <1>5, OthersKeepRun DEF JobInv, JobShape
<1> QED
  BY <1>2, <1>3, <1>4, <1>5 DEF JobInv

LEMMA ReloadKeepsJob ==
  ASSUME JobInv, NEW j \in Runs, NEW t \in TicketIds, JobReload(j, t)
  PROVE  JobInv'
<1>1. t \in DOMAIN batch[j] /\ job[j] = "save" /\ UNCHANGED vars
  BY DEF JobReload
<1>2. IInv' /\ ProjectsKept
  BY <1>1, NextKeeps DEF JobInv, ProjectsKept, vars
<1>3. CASE NextInBatch(j, t)
  BY <1>1, <1>2, <1>3, NextInBatchKeepsJob DEF JobInv
<1>4. CASE /\ job' = [job EXCEPT ![j] = "write"]
           /\ saving' = [saving EXCEPT ![j] = t]
           /\ differences' =
                [differences EXCEPT ![j] = Changed(batch[j][t], tickets[t])]
           /\ UNCHANGED batch
  <2> DEFINE columns == Changed(batch[j][t], tickets[t])
  <2>1. /\ IsRow(tickets[t]) /\ t \in DOMAIN tickets
        /\ batch[j][t].projectId = tickets[t].projectId
    BY <1>1 DEF JobInv, RunOK, IInv, TypeOK
  <2>2. columns \subseteq Columns /\ "projectId" \notin columns
    BY <2>1 DEF Changed, IsRow
  <2> HIDE DEF columns
  <2>3. t # NoTicket
    BY TicketsAssumption
  <2>4. JobShape'
    BY <1>4 DEF JobInv, JobShape
  <2>5. /\ job'[j] = "write" /\ saving'[j] = t /\ differences'[j] = columns
        /\ batch'[j] = batch[j] /\ tickets' = tickets
    BY <1>1, <1>4 DEF JobInv, JobShape, vars, db, columns
  <2>6. RunOK(j)'
    BY <1>1, <2>2, <2>3, <2>5 DEF JobInv, RunOK
  <2>7. ASSUME NEW k \in Runs, k # j PROVE RunOK(k)'
    BY <1>2, <1>4, <2>7, OthersKeepRun DEF JobInv, JobShape
  <2> QED
    BY <1>2, <2>4, <2>6, <2>7 DEF JobInv
<1> QED
  BY <1>3, <1>4 DEF JobReload

LEMMA JobWriteFacts ==
  ASSUME JobInv, NEW j \in Runs, NEW t \in TicketIds, JobWrite(j, t)
  PROVE  /\ t \in DOMAIN batch[j] /\ t \in DOMAIN tickets
         /\ DOMAIN tickets' = DOMAIN tickets
         /\ ProjectsKept
         /\ \A u \in DOMAIN tickets :
              IsRow(tickets'[u])
              /\ (tickets'[u].isDeleted => tickets[u].isDeleted)
<1> DEFINE entity == batch[j][t]
           row == Updated(tickets[t], entity, differences[j])
<1>1. t \in DOMAIN batch[j] /\ tickets' = [tickets EXCEPT ![t] = row]
  BY TicketsAssumption DEF JobWrite, JobInv, RunOK
<1>2. /\ t \in DOMAIN tickets /\ IsRow(tickets[t])
      /\ IsRow(entity) /\ ~entity.isDeleted
      /\ differences[j] \subseteq Columns /\ "projectId" \notin differences[j]
  BY <1>1 DEF JobInv, RunOK, IInv, TypeOK
<1> HIDE DEF entity
<1>3. IsRow(row) /\ row.projectId = tickets[t].projectId
  BY <1>2, UpdatedIsRow
<1>4. row.isDeleted => tickets[t].isDeleted
  BY <1>2, ColumnFacts DEF Updated, IsRow
<1> HIDE DEF row
<1> QED
  BY <1>1, <1>2, <1>3, <1>4 DEF JobInv, IInv, TypeOK, ProjectsKept

LEMMA WriteKeepsJob ==
  ASSUME JobInv, NEW j \in Runs, NEW t \in TicketIds, JobWrite(j, t)
  PROVE  JobInv'
<1>1. /\ t \in DOMAIN batch[j] /\ DOMAIN tickets' = DOMAIN tickets
      /\ ProjectsKept /\ \A u \in DOMAIN tickets : IsRow(tickets'[u])
  BY JobWriteFacts
<1>2. /\ NextInBatch(j, t)
      /\ UNCHANGED <<deps, now, pc, call, target, mem, blocked, plan>>
  BY DEF JobWrite, entityVars
<1>3. TypeOK'
  BY <1>1, <1>2 DEF JobInv, IInv, TypeOK, HoldsEntity
<1>4. SameProject' /\ EntityOK'
  BY <1>1, <1>2 DEF JobInv, IInv, TypeOK, SameProject, EntityOK, ProjectsKept
<1>5. JobShape' /\ \A k \in Runs : RunOK(k)'
  BY <1>1, <1>2, NextInBatchKeepsJob
<1> QED
  BY <1>3, <1>4, <1>5 DEF JobInv, IInv

\* The steps of the requests, of the clock and of a failing process.
LEMMA OtherStepsKeepJob ==
  ASSUME JobInv, [Next]_vars,
         UNCHANGED jobVars \/ \E J : StopRuns(J)
  PROVE  JobInv'
<1>1. IInv' /\ ProjectsKept
  BY NextKeeps, NextKeepsProjects DEF JobInv
<1>2. CASE UNCHANGED jobVars
  <2>1. JobShape'
    BY <1>2 DEF JobInv, JobShape, jobVars
  <2>2. ASSUME NEW j \in Runs PROVE RunOK(j)'
    BY <1>1, <1>2, OthersKeepRun DEF JobInv, jobVars
  <2> QED
    BY <1>1, <2>1, <2>2 DEF JobInv
<1>3. CASE \E J : StopRuns(J)
  BY <1>1, <1>3, StopKeepsJob DEF JobInv
<1> QED
  BY <1>2, <1>3

\* A step of Escalation is one of a run, or one of Tickets.
LEMMA StepCases ==
  ASSUME [EscalationNext]_allVars
  PROVE  \/ \E j \in Runs : \/ JobQuery(j)
                            \/ \E t \in TicketIds : JobReload(j, t) \/ JobWrite(j, t)
         \/ /\ [Next]_vars
            /\ UNCHANGED jobVars \/ \E J : StopRuns(J)
<1>1. CASE ServerCrash
  BY <1>1 DEF ServerCrash, Next
<1>2. CASE \E j \in Runs : JobError(j)
  BY <1>2 DEF JobError
<1> QED
  BY <1>1, <1>2 DEF EscalationNext, JobStep, Next, allVars

LEMMA EscalationNextKeeps == JobInv /\ [EscalationNext]_allVars => JobInv'
BY StepCases, QueryKeepsJob, ReloadKeepsJob, WriteKeepsJob, OtherStepsKeepJob

\* The invariant of the requests and that of the runs hold together in every
\* state, although each of them writes rows that the others hold.
THEOREM JobInvariance == EscalationSpec => []JobInv
BY InitJobInv, EscalationNextKeeps, PTL DEF EscalationSpec

\* Runs always save entities of existing tickets, and are idle exactly when
\* their batch is empty.
THEOREM JobTypeCorrect == EscalationSpec => []JobTypeOK
<1>1. JobInv => JobTypeOK
  BY DEF JobInv, JobShape, RunOK, JobTypeOK
<1> QED
  BY <1>1, JobInvariance, PTL

\* With the escalation job running next to the requests, a ticket is still
\* only ever blocked by tickets of its own project.
THEOREM EscalationKeepsProjects == EscalationSpec => []SameProject
BY JobInvariance, PTL DEF JobInv, IInv

-----------------------------------------------------------------------------
(* Soft deletion.                                                          *)

OnlyRemovalsMark == \A r \in Requests : EntityDeletes(r)

LEMMA MarksKept ==
  JobInv /\ OnlyRemovalsMark /\ [EscalationNext]_allVars => OnlyRemovalsMark'
<1> SUFFICES ASSUME JobInv, OnlyRemovalsMark, [EscalationNext]_allVars
             PROVE  OnlyRemovalsMark'
  OBVIOUS
<1>1. CASE UNCHANGED <<pc, call, mem>>
  BY <1>1 DEF OnlyRemovalsMark, EntityDeletes
<1>2. CASE [Next]_vars
  BY <1>2, EntitiesStillDelete, QuietDeletes
     DEF Next, Moves, OnlyRemovalsMark, JobInv
<1>3. (\E j \in Runs : \/ JobQuery(j)
                       \/ \E t \in TicketIds : JobReload(j, t) \/ JobWrite(j, t))
        => UNCHANGED <<pc, call, mem>>
  BY DEF JobQuery, JobReload, JobWrite, vars, entityVars
<1> QED
  BY <1>1, <1>2, <1>3, StepCases

\* Runs that overlap write back whatever they read, at any later time; yet
\* no run ever deletes a ticket, not even one that was removed and restored
\* after the run had read it: only the commit of a remove() does.
THEOREM RunsNeverDelete == EscalationSpec => OnlyRemovalsDelete
<1> DEFINE Removed ==
             \A t \in DOMAIN tickets' :
               tickets'[t].isDeleted /\
               ~(t \in DOMAIN tickets /\ tickets[t].isDeleted) =>
                 \E r \in Requests :
                   Commits(r) /\ call[r].op = "remove" /\ target[r] = t
<1>1. ASSUME JobInv, OnlyRemovalsMark, [EscalationNext]_allVars,
             NEW t \in DOMAIN tickets', tickets'[t].isDeleted,
             ~(t \in DOMAIN tickets /\ tickets[t].isDeleted)
      PROVE  \E r \in Requests :
               Commits(r) /\ call[r].op = "remove" /\ target[r] = t
  <2>1. tickets' # tickets
    BY <1>1
  <2>2. ~(\E j \in Runs : \/ JobQuery(j)
                          \/ \E u \in TicketIds : JobReload(j, u) \/ JobWrite(j, u))
    <3>1. ASSUME NEW j \in Runs, NEW u \in TicketIds, JobWrite(j, u)
          PROVE  FALSE
      BY <1>1, <3>1, JobWriteFacts
    <3>2. ASSUME NEW j \in Runs, JobQuery(j) \/ \E u \in TicketIds : JobReload(j, u)
          PROVE  FALSE
      BY <2>1, <3>2 DEF JobQuery, JobReload, vars
    <3> QED
      BY <3>1, <3>2
  <2>3. [Next]_vars
    BY <1>1, <2>2, StepCases
  <2>4. PICK r \in Requests : Moves(r)
    BY <2>1, <2>3 DEF Next, Moves, Crash, Tick, vars, db
  <2> QED
    BY <1>1, <2>4, DeletedByRemove DEF JobInv, OnlyRemovalsMark, Commits
<1>2. JobInv /\ OnlyRemovalsMark /\ [EscalationNext]_allVars => Removed
  BY <1>1
<1>3. EscalationInit => OnlyRemovalsMark
  BY DEF EscalationInit, Init, OnlyRemovalsMark, EntityDeletes
<1> QED
  BY <1>2, <1>3, MarksKept, JobInvariance, PTL
     DEF EscalationSpec, OnlyRemovalsDelete
=============================================================================
