--------------------------- MODULE TicketsProofs ---------------------------
(***************************************************************************)
(* Theorems about Tickets, for any number of tickets, projects, users and  *)
(* concurrent requests, Isolated or not.                                   *)
(*                                                                         *)
(* TypeOK and SameProject are not inductive: a stale entity writes what it *)
(* has in memory.  EntityOK is what keeps this harmless: while a handler   *)
(* holds an entity, the entity and all the blockers it has collected are   *)
(* of the project of the row, and so the columns save() finds to differ    *)
(* never include the project.                                              *)
(***************************************************************************)
EXTENDS Tickets, TLAPS

EntityOK ==
  \A r \in Requests : pc[r] \in {"blocker", "reload", "write"} =>
    /\ target[r] \in DOMAIN tickets
    /\ mem[r].projectId = tickets[target[r]].projectId
    /\ \A b \in blocked[r] : tickets[b].projectId = mem[r].projectId
    /\ pc[r] = "write" =>
         "projectId" \notin plan[r].columns /\ plan[r].ins \subseteq blocked[r]

IInv == TypeOK /\ SameProject /\ EntityOK

LEMMA ColumnFacts ==
  /\ Columns = {"projectId", "content", "status", "priority", "assigneeId",
                "dueDate", "isOverdue", "isDeleted", "deletedAt", "version"}
  /\ ColumnType["version"] = Nat
  /\ ColumnType["isOverdue"] = BOOLEAN
  /\ ColumnType["isDeleted"] = BOOLEAN
  /\ ColumnType["dueDate"] = Dates
  /\ ColumnType["deletedAt"] = Dates
  /\ ColumnType["projectId"] = Projects
  /\ ColumnType["status"] = Statuses
  /\ ColumnType["assigneeId"] = Users \cup {NoUser}
BY DEF Columns, ColumnType

LEMMA UpdatedIsRow ==
  ASSUME NEW row, NEW entity, NEW columns, IsRow(row), IsRow(entity),
         columns \subseteq Columns
  PROVE  /\ IsRow(Updated(row, entity, columns))
         /\ "projectId" \notin columns =>
              Updated(row, entity, columns).projectId = row.projectId
BY ColumnFacts DEF IsRow, Updated

LEMMA PatchedIsRow ==
  ASSUME NEW row, NEW patch, IsRow(row), IsPatch(patch)
  PROVE  /\ IsRow(Patched(row, patch))
         /\ Patched(row, patch).projectId = row.projectId
BY ColumnFacts DEF IsRow, Patched, OverdueAfter, IsPatch, PatchFields, IsPast

LEMMA NewTicketIsRow ==
  ASSUME NEW draft, NEW assignee, IsDraft(draft), assignee \in Users \cup {NoUser}
  PROVE  IsRow(NewTicket(draft, assignee))
BY ColumnFacts DEF IsRow, NewTicket, InitialStatus, IsDraft, DraftFields, IsPast,
                    Statuses, Dates, ColumnType

-----------------------------------------------------------------------------
LEMMA InitIInv == Init => IInv
<1> SUFFICES ASSUME Init PROVE IInv
  OBVIOUS
<1> PICK seed \in Seeds : tickets = seed.tickets /\ deps = seed.deps
  BY DEF Init
<1>1. IsSeed(seed)
  BY TicketsAssumption
<1>2. TypeOK
  BY <1>1, TicketsAssumption
     DEF Init, TypeOK, IsSeed, NoPlan, HoldsEntity
<1>3. SameProject
  BY <1>1 DEF SameProject, IsSeed
<1>4. EntityOK
  BY DEF Init, EntityOK
<1> QED
  BY <1>2, <1>3, <1>4 DEF IInv

LEMMA AnswerKeeps ==
  ASSUME IInv, NEW r \in Requests, NEW code \in Answers, Answer(r, code),
         pc[r] # "idle", UNCHANGED <<db, now, call, target>>
  PROVE  IInv'
<1> USE DEF Answer, Goto, IInv, db
<1>1. TypeOK'
  BY DEF TypeOK, HoldsEntity, NoPlan, Answers
<1>2. SameProject'
  BY DEF SameProject
<1>3. EntityOK'
  BY DEF EntityOK, TypeOK, Answers
<1> QED
  BY <1>1, <1>2, <1>3

LEMMA HoldKeeps ==
  ASSUME IInv, NEW r \in Requests, NEW row, NEW blockers,
         NEW label \in {"insert", "blocker", "reload"}, Hold(r, label, row, blockers),
         IsRow(row), blockers \subseteq DOMAIN tickets,
         label # "insert" =>
           /\ target[r] \in DOMAIN tickets
           /\ row.projectId = tickets[target[r]].projectId
           /\ \A b \in blockers : tickets[b].projectId = row.projectId,
         call'[r] \in Calls,
         \A q \in Requests \ {r} : call'[q] = call[q],
         DOMAIN call' = DOMAIN call,
         UNCHANGED <<db, now, target>>
  PROVE  IInv'
<1> USE DEF Hold, Goto, IInv, db
<1>1. TypeOK'
  BY DEF TypeOK, HoldsEntity, InFlightPcs
<1>2. SameProject'
  BY DEF SameProject
<1>3. EntityOK'
  BY DEF EntityOK, TypeOK
<1> QED
  BY <1>1, <1>2, <1>3

LEMMA BlockersSameProject ==
  ASSUME IInv, NEW t \in DOMAIN tickets
  PROVE  /\ Blockers(t) \subseteq DOMAIN tickets
         /\ \A b \in Blockers(t) : tickets[b].projectId = tickets[t].projectId
BY DEF IInv, SameProject, Blockers

LEMMA CallOK ==
  ASSUME IInv, NEW r \in Requests, pc[r] # "idle"
  PROVE  call[r] \in Calls /\ IsCall(call[r])
BY TicketsAssumption DEF IInv, TypeOK

LEMMA BeginKeeps ==
  ASSUME IInv, NEW r \in Requests, Begin(r)
  PROVE  IInv'
<1> PICK c \in Calls :
      /\ call' = [call EXCEPT ![r] = c]
      /\ \/ c.op = "create" /\ c.draft.assigneeId = NoUser
            /\ Goto(r, "assign") /\ UNCHANGED <<target, mem, blocked, plan>>
         \/ c.op = "create" /\ c.draft.assigneeId # NoUser
            /\ Hold(r, "insert", NewTicket(c.draft, c.draft.assigneeId), {})
            /\ UNCHANGED target
         \/ c.op # "create" /\ target' = [target EXCEPT ![r] = c.id]
            /\ Goto(r, "read") /\ UNCHANGED <<mem, blocked, plan>>
  BY DEF Begin
<1>a. pc[r] = "idle" /\ UNCHANGED <<db, now>>
  BY DEF Begin
<1>b. IsCall(c)
  BY TicketsAssumption
<1>c. call'[r] = c /\ DOMAIN call' = DOMAIN call
      /\ \A q \in Requests \ {r} : call'[q] = call[q]
  BY DEF IInv, TypeOK
<1>1. CASE c.op = "create" /\ c.draft.assigneeId = NoUser /\ Goto(r, "assign")
           /\ UNCHANGED <<target, mem, blocked, plan>>
  <2>1. TypeOK'
    BY <1>1, <1>a, <1>c
       DEF IInv, TypeOK, Goto, HoldsEntity, InFlightPcs, db
  <2>2. SameProject' /\ EntityOK'
    BY <1>1, <1>a DEF IInv, SameProject, EntityOK, TypeOK, Goto, db
  <2> QED
    BY <2>1, <2>2 DEF IInv
<1>2. CASE c.op = "create" /\ UNCHANGED target
           /\ Hold(r, "insert", NewTicket(c.draft, c.draft.assigneeId), {})
  <2>1. IsDraft(c.draft)
    BY <1>2, <1>b DEF IsCall
  <2>2. c.draft.assigneeId \in Users \cup {NoUser}
    BY <2>1, ColumnFacts DEF IsDraft, DraftFields
  <2> QED
    BY <2>1, <2>2, <1>2, <1>a, <1>c, NewTicketIsRow, HoldKeeps
<1>3. CASE c.op # "create" /\ target' = [target EXCEPT ![r] = c.id]
           /\ Goto(r, "read") /\ UNCHANGED <<mem, blocked, plan>>
  <2>1. c.id \in TicketIds
    BY <1>3, <1>b DEF IsCall
  <2>2. TypeOK'
    BY <2>1, <1>3, <1>a, <1>c
       DEF IInv, TypeOK, Goto, HoldsEntity, InFlightPcs, db
  <2>3. SameProject' /\ EntityOK'
    BY <1>3, <1>a DEF IInv, SameProject, EntityOK, TypeOK, Goto, db
  <2> QED
    BY <2>2, <2>3 DEF IInv
<1> QED
  BY <1>1, <1>2, <1>3

LEMMA AssignKeeps ==
  ASSUME IInv, NEW r \in Requests, Assign(r)
  PROVE  IInv'
<1> DEFINE draft == call[r].draft
           developers == Developers[draft.projectId]
<1>1. IsDraft(draft) /\ call[r] \in Calls
  BY CallOK DEF Assign, At, IsCall
<1>2. draft.projectId \in Projects
  BY <1>1, ColumnFacts DEF IsDraft, DraftFields
<1>3. PICK user \in Users \cup {NoUser} :
        Hold(r, "insert", NewTicket(draft, user), {})
  BY <1>2, TicketsAssumption DEF Assign
<1>4. IsRow(NewTicket(draft, user))
  BY <1>1, NewTicketIsRow
<1>5. UNCHANGED <<db, now, call, target>>
  BY DEF Assign
<1> QED
  BY <1>1, <1>3, <1>4, <1>5, HoldKeeps DEF IInv, TypeOK

LEMMA InsertKeeps ==
  ASSUME IInv, NEW r \in Requests, Insert(r)
  PROVE  IInv'
<1> PICK id \in TicketIds \ DOMAIN tickets :
      /\ tickets' = [t \in DOMAIN tickets \cup {id} |->
                       IF t = id THEN mem[r] ELSE tickets[t]]
      /\ target' = [target EXCEPT ![r] = id]
  BY DEF Insert
<1>1. /\ pc[r] = "insert" /\ pc' = [pc EXCEPT ![r] = "log"]
      /\ UNCHANGED <<deps, now, call, mem, blocked, plan>>
  BY DEF Insert, At, Goto, entityVars
<1>2. IsRow(mem[r])
  BY <1>1 DEF IInv, TypeOK, HoldsEntity
<1>3. TypeOK'
  BY <1>1, <1>2 DEF IInv, TypeOK, HoldsEntity, InFlightPcs
<1>4. SameProject'
  BY <1>1 DEF IInv, TypeOK, SameProject
<1>5. EntityOK'
  BY <1>1 DEF IInv, TypeOK, EntityOK
<1> QED
  BY <1>3, <1>4, <1>5 DEF IInv

LEMMA ReadsKeep ==
  ASSUME IInv, NEW r \in Requests,
         \/ UpdateRead(r) \/ RemoveRead(r) \/ RestoreRead(r)
         \/ AddDependencyRead(r) \/ RemoveDependencyRead(r)
  PROVE  IInv'
<1> DEFINE t == target[r]
<1>1. pc[r] = "read" /\ UNCHANGED <<db, now, call, target>>
  BY DEF UpdateRead, RemoveRead, RestoreRead, AddDependencyRead,
         RemoveDependencyRead, At
<1>2. call[r] \in Calls /\ IsCall(call[r]) /\ DOMAIN call = Requests
  BY <1>1, CallOK DEF IInv, TypeOK
<1>3. \A u \in DOMAIN tickets : IsRow(tickets[u])
  BY DEF IInv, TypeOK
<1>4. ASSUME NEW row, NEW label \in {"blocker", "reload"}, NEW blockers,
             t \in DOMAIN tickets, IsRow(row),
             row.projectId = tickets[t].projectId,
             blockers \subseteq Blockers(t),
             Hold(r, label, row, blockers)
      PROVE  IInv'
  BY <1>1, <1>2, <1>4, BlockersSameProject, HoldKeeps
<1>5. ASSUME NEW code \in Answers, Answer(r, code)
      PROVE  IInv'
  BY <1>1, <1>5, AnswerKeeps
<1>6. CASE UpdateRead(r)
  <2> DEFINE patch == call[r].patch
  <2>1. IsPatch(patch)
    BY <1>2, <1>6 DEF UpdateRead, At, IsCall
  <2>2. CASE UpdateVerdict(t, patch) # "accepted"
    <3>1. Answer(r, UpdateVerdict(t, patch))
      BY <1>6, <2>2 DEF UpdateRead
    <3>2. UpdateVerdict(t, patch) \in Answers
      BY <2>2, Zenon DEF UpdateVerdict, Answers
    <3> QED
      BY <3>1, <3>2, <1>5
  <2>3. CASE UpdateVerdict(t, patch) = "accepted"
    <3>1. Active(t)
      BY <2>3 DEF UpdateVerdict
    <3>2. Hold(r, "reload", Patched(tickets[t], patch),
               IF Closes(patch) THEN Blockers(t) ELSE {})
      BY <1>6, <2>3 DEF UpdateRead
    <3> QED
      BY <3>1, <3>2, <2>1, <1>3, <1>4, PatchedIsRow DEF Active
  <2> QED
    BY <2>2, <2>3
<1>7. CASE RemoveRead(r)
  <2> DEFINE row == [tickets[t] EXCEPT !.isDeleted = TRUE, !.deletedAt = now]
  <2>1. CASE Answer(r, "404") \/ Answer(r, "400")
    BY <2>1, <1>5 DEF Answers
  <2>2. CASE Active(t) /\ Hold(r, "reload", row, {})
    <3>1. now \in Dates
      BY DEF IInv, TypeOK, Dates
    <3>2. t \in DOMAIN tickets
      BY <2>2 DEF Active
    <3>3. IsRow(row) /\ row.projectId = tickets[t].projectId
      <4>1. IsRow(tickets[t])
        BY <3>2, <1>3
      <4>2. tickets[t] = [c \in Columns |-> tickets[t][c]]
        BY <4>1 DEF IsRow
      <4> HIDE DEF t
      <4> QED
        BY <3>1, <4>1, <4>2, ColumnFacts DEF IsRow
    <3>4. {} \subseteq Blockers(t)
      OBVIOUS
    <3> HIDE DEF row, t
    <3> QED
      BY <2>2, <3>2, <3>3, <3>4, <1>4
  <2> QED
    BY <1>7, <2>1, <2>2 DEF RemoveRead
<1>8. CASE RestoreRead(r)
  <2> DEFINE row == Restored(tickets[t])
  <2>1. CASE Answer(r, "404")
    BY <2>1, <1>5 DEF Answers
  <2>2. CASE t \in DOMAIN tickets /\ Hold(r, "reload", row, {})
    <3>1. IsRow(row) /\ row.projectId = tickets[t].projectId
      <4>1. IsRow(tickets[t])
        BY <2>2, <1>3
      <4> HIDE DEF t
      <4> QED
        BY <4>1, ColumnFacts DEF Restored, IsRow, Dates
    <3>2. {} \subseteq Blockers(t)
      OBVIOUS
    <3> HIDE DEF row, t
    <3> QED
      BY <2>2, <3>1, <3>2, <1>4
  <2> QED
    BY <1>8, <2>1, <2>2 DEF RestoreRead
<1>9. CASE AddDependencyRead(r)
  <2>1. CASE Answer(r, "404")
    BY <2>1, <1>5 DEF Answers
  <2>2. CASE Active(t) /\ Hold(r, "blocker", tickets[t], Blockers(t))
    BY <2>2, <1>3, <1>4 DEF Active
  <2> QED
    BY <1>9, <2>1, <2>2 DEF AddDependencyRead
<1>10. CASE RemoveDependencyRead(r)
  <2>1. CASE Answer(r, "404")
    BY <2>1, <1>5 DEF Answers
  <2>2. CASE /\ Active(t)
             /\ Hold(r, "reload", tickets[t],
                     Without(Blockers(t), call[r].blockedBy))
    BY <2>2, <1>3, <1>4 DEF Active, Without
  <2> QED
    BY <1>10, <2>1, <2>2 DEF RemoveDependencyRead
<1> QED
  BY <1>6, <1>7, <1>8, <1>9, <1>10

LEMMA ReadBlockerKeeps ==
  ASSUME IInv, NEW r \in Requests, AddDependencyReadBlocker(r)
  PROVE  IInv'
<1> DEFINE b == call[r].blockedBy
<1>1. pc[r] = "blocker" /\ UNCHANGED <<db, now, call, target>>
  BY DEF AddDependencyReadBlocker, At
<1>2. call[r] \in Calls /\ DOMAIN call = Requests
  BY <1>1, CallOK DEF IInv, TypeOK
<1>3. CASE Answer(r, "404") \/ Answer(r, "400")
  BY <1>1, <1>3, AnswerKeeps DEF Answers
<1>4. CASE /\ Active(b)
           /\ mem[r].projectId = tickets[b].projectId
           /\ Hold(r, "reload", mem[r], blocked[r] \cup {b})
  <2>1. /\ target[r] \in DOMAIN tickets
        /\ mem[r].projectId = tickets[target[r]].projectId
        /\ \A c \in blocked[r] : tickets[c].projectId = mem[r].projectId
        /\ IsRow(mem[r]) /\ blocked[r] \subseteq DOMAIN tickets
    BY <1>1 DEF IInv, TypeOK, EntityOK, HoldsEntity
  <2> QED
    BY <1>1, <1>2, <1>4, <2>1, HoldKeeps DEF Active
<1> QED
  BY <1>3, <1>4 DEF AddDependencyReadBlocker, InProjectOf

LEMMA AfterSaveKeeps ==
  ASSUME IInv, NEW r \in Requests, AfterSave(r), pc[r] \in {"reload", "write"},
         UNCHANGED <<db, now, call, target>>
  PROVE  IInv'
<1>1. CASE Answer(r, "ok")
  BY <1>1, AnswerKeeps DEF Answers
<1>2. CASE Goto(r, "log") /\ UNCHANGED <<entityVars, plan>>
  <2>1. TypeOK'
    BY <1>2 DEF IInv, TypeOK, Goto, entityVars, HoldsEntity, InFlightPcs, db
  <2>2. SameProject' /\ EntityOK'
    BY <1>2 DEF IInv, TypeOK, SameProject, EntityOK, Goto, entityVars, db
  <2> QED
    BY <2>1, <2>2 DEF IInv
<1> QED
  BY <1>1, <1>2 DEF AfterSave

LEMMA ReloadKeeps ==
  ASSUME IInv, NEW r \in Requests, Reload(r)
  PROVE  IInv'
<1> DEFINE t == target[r]
           columns == Changed(mem[r], tickets[t])
           ins == IF LoadsBlockedBy(call[r])
                  THEN JoinInserts(blocked[r], Blockers(t)) ELSE {}
           del == IF LoadsBlockedBy(call[r])
                  THEN JoinDeletes(blocked[r], Blockers(t)) ELSE {}
<1>1. pc[r] = "reload" /\ UNCHANGED <<db, now, call, target>>
  BY DEF Reload
<1>2. CASE AfterSave(r)
  BY <1>1, <1>2, AfterSaveKeeps
<1>3. CASE /\ plan' = [plan EXCEPT ![r] =
                         [columns |-> columns, ins |-> ins, del |-> del]]
           /\ Goto(r, "write")
           /\ UNCHANGED entityVars
  <2>1. /\ t \in DOMAIN tickets
        /\ mem[r].projectId = tickets[t].projectId
        /\ IsRow(tickets[t])
        /\ blocked[r] \subseteq DOMAIN tickets
    BY <1>1 DEF IInv, TypeOK, EntityOK
  <2>2. columns \subseteq Columns /\ "projectId" \notin columns
    BY <2>1 DEF Changed, IsRow
  <2>3. /\ ins \subseteq blocked[r] /\ ins \subseteq DOMAIN tickets
        /\ del \subseteq DOMAIN tickets
    BY <2>1 DEF JoinInserts, JoinDeletes, Blockers
  <2> HIDE DEF columns, ins, del
  <2>4. TypeOK'
    BY <1>1, <1>3, <2>2, <2>3
       DEF IInv, TypeOK, Goto, HoldsEntity, InFlightPcs, entityVars, db
  <2>5. SameProject'
    BY <1>1 DEF IInv, SameProject, db
  <2>6. EntityOK'
    BY <1>1, <1>3, <2>2, <2>3 DEF IInv, TypeOK, EntityOK, Goto, entityVars, db
  <2> QED
    BY <2>4, <2>5, <2>6 DEF IInv
<1> QED
  BY <1>2, <1>3 DEF Reload

LEMMA WriteKeeps ==
  ASSUME IInv, NEW r \in Requests, Write(r)
  PROVE  IInv'
<1> DEFINE t == target[r]
           row == Updated(tickets[t], mem[r], plan[r].columns)
<1>1. /\ pc[r] = "write"
      /\ tickets' = [tickets EXCEPT ![t] = row]
      /\ deps' = (deps \cup ({t} \X plan[r].ins)) \ ({t} \X plan[r].del)
      /\ AfterSave(r)
      /\ UNCHANGED <<now, call, target>>
  BY DEF Write
<1>2. /\ t \in DOMAIN tickets
      /\ \A b \in plan[r].ins :
           b \in DOMAIN tickets /\ tickets[b].projectId = tickets[t].projectId
      /\ IsRow(tickets[t]) /\ IsRow(mem[r])
      /\ plan[r].columns \subseteq Columns
      /\ "projectId" \notin plan[r].columns
  BY <1>1 DEF IInv, TypeOK, EntityOK, HoldsEntity
<1>3. IsRow(row) /\ row.projectId = tickets[t].projectId
  BY <1>2, UpdatedIsRow
<1> HIDE DEF row
<1>4. /\ DOMAIN tickets' = DOMAIN tickets
      /\ \A u \in DOMAIN tickets :
           /\ IsRow(tickets'[u])
           /\ tickets'[u].projectId = tickets[u].projectId
  BY <1>1, <1>3 DEF IInv, TypeOK
<1>5. deps' \subseteq (DOMAIN tickets) \X (DOMAIN tickets)
  BY <1>1, <1>2 DEF IInv, TypeOK
<1>6. SameProject'
  BY <1>1, <1>2, <1>4 DEF IInv, TypeOK, SameProject
<1>7. CASE Answer(r, "ok")
  <2>1. TypeOK'
    BY <1>1, <1>4, <1>5, <1>7
       DEF IInv, TypeOK, HoldsEntity, Answer, Goto, NoPlan, Answers
  <2>2. EntityOK'
    BY <1>1, <1>4, <1>7 DEF IInv, TypeOK, EntityOK, Answer, Goto
  <2> QED
    BY <1>6, <2>1, <2>2 DEF IInv
<1>8. CASE Goto(r, "log") /\ UNCHANGED <<entityVars, plan>>
  <2>1. TypeOK'
    BY <1>1, <1>4, <1>5, <1>8
       DEF IInv, TypeOK, HoldsEntity, Goto, InFlightPcs, entityVars
  <2>2. EntityOK'
    BY <1>1, <1>4, <1>8 DEF IInv, TypeOK, EntityOK, Goto, entityVars
  <2> QED
    BY <1>6, <2>1, <2>2 DEF IInv
<1> QED
  BY <1>1, <1>7, <1>8 DEF AfterSave

LEMMA LogsKeep ==
  ASSUME IInv, NEW r \in Requests,
         Log(r) \/ LogAssign(r) \/ WriteDuplicate(r) \/ DatabaseError(r)
  PROVE  IInv'
<1>1. pc[r] # "idle" /\ UNCHANGED <<db, now, call, target>>
  BY DEF Log, LogAssign, WriteDuplicate, DatabaseError, InFlightPcs
<1>2. CASE Answer(r, "ok") \/ Answer(r, "500")
  BY <1>1, <1>2, AnswerKeeps DEF Answers
<1>3. CASE pc[r] = "log" /\ Goto(r, "logAssign") /\ UNCHANGED <<entityVars, plan>>
  <2>1. TypeOK'
    BY <1>1, <1>3 DEF IInv, TypeOK, Goto, entityVars, HoldsEntity, InFlightPcs, db
  <2>2. SameProject' /\ EntityOK'
    BY <1>1, <1>3 DEF IInv, TypeOK, SameProject, EntityOK, Goto, entityVars, db
  <2> QED
    BY <2>1, <2>2 DEF IInv
<1> QED
  BY <1>2, <1>3 DEF Log, LogAssign, WriteDuplicate, DatabaseError

LEMMA CrashTickKeep ==
  ASSUME IInv, Crash \/ Tick
  PROVE  IInv'
<1>1. CASE Crash
  <2>1. TypeOK'
    BY <1>1 DEF IInv, TypeOK, Crash, HoldsEntity, InFlight, InFlightPcs,
                Answers, NoPlan, db
  <2>2. SameProject' /\ EntityOK'
    BY <1>1 DEF IInv, TypeOK, SameProject, EntityOK, Crash, InFlight,
                InFlightPcs, db
  <2> QED
    BY <2>1, <2>2 DEF IInv
<1>2. CASE Tick
  <2>1. now' \in 0..MaxTime
    BY <1>2, TicketsAssumption DEF Tick, IInv, TypeOK
  <2>2. TypeOK'
    BY <1>2, <2>1 DEF IInv, TypeOK, Tick, HoldsEntity, entityVars, db
  <2>3. SameProject' /\ EntityOK'
    BY <1>2 DEF IInv, SameProject, EntityOK, Tick, entityVars, db
  <2> QED
    BY <2>2, <2>3 DEF IInv
<1> QED
  BY <1>1, <1>2

LEMMA NextKeeps == IInv /\ [Next]_vars => IInv'
<1> SUFFICES ASSUME IInv, [Next]_vars PROVE IInv'
  OBVIOUS
<1>1. ASSUME NEW r \in Requests, Begin(r) \/ Step(r) \/ DatabaseError(r)
      PROVE  IInv'
  BY <1>1, BeginKeeps, AssignKeeps, InsertKeeps, ReadsKeep, ReadBlockerKeeps,
     ReloadKeeps, WriteKeeps, LogsKeep DEF Step
<1>2. CASE UNCHANGED vars
  BY <1>2 DEF vars, IInv, TypeOK, SameProject, EntityOK, HoldsEntity
<1> QED
  BY <1>1, <1>2, CrashTickKeep DEF Next

\* The three facts hold together in every state, however the steps of any
\* number of requests interleave, fail half way or are lost in a crash.
THEOREM Invariance == Spec => []IInv
BY InitIInv, NextKeeps, PTL DEF Spec

\* The tables hold well-typed rows and the requests well-typed entities: what
\* the handlers build from a patch or a draft and what save() makes of a stale
\* entity is a ticket again, and every join row leads to existing tickets.
THEOREM TypeCorrect == Spec => []TypeOK
BY Invariance, PTL DEF IInv

\* A ticket is only ever blocked by tickets of its own project, although
\* addDependency() compares two rows that it has read at different times.
THEOREM DependenciesStayInProject == Spec => []SameProject
BY Invariance, PTL DEF IInv

-----------------------------------------------------------------------------
(* A step of one request is no step of another.                            *)

Moves(q) == Begin(q) \/ Step(q) \/ DatabaseError(q)

LEMMA AnswerFacts ==
  ASSUME IInv, NEW r \in Requests, NEW code, Answer(r, code)
  PROVE  /\ pc' = [pc EXCEPT ![r] = code]
         /\ \A q \in Requests \ {r} :
              /\ pc'[q] = pc[q]
              /\ mem'[q] = mem[q] /\ blocked'[q] = blocked[q]
              /\ plan'[q] = plan[q]
         /\ pc'[r] = code
BY DEF Answer, Goto, IInv, TypeOK

LEMMA HoldFacts ==
  ASSUME IInv, NEW r \in Requests, NEW label, NEW row, NEW blockers,
         Hold(r, label, row, blockers)
  PROVE  /\ pc' = [pc EXCEPT ![r] = label]
         /\ \A q \in Requests \ {r} :
              /\ pc'[q] = pc[q]
              /\ mem'[q] = mem[q] /\ blocked'[q] = blocked[q]
              /\ plan'[q] = plan[q]
         /\ pc'[r] = label /\ mem'[r] = row /\ blocked'[r] = blockers
BY DEF Hold, Goto, IInv, TypeOK

LEMMA OthersKept ==
  ASSUME IInv, NEW q \in Requests, NEW r \in Requests, q # r, Moves(q)
  PROVE  /\ pc'[r] = pc[r] /\ call'[r] = call[r] /\ target'[r] = target[r]
         /\ mem'[r] = mem[r] /\ blocked'[r] = blocked[r] /\ plan'[r] = plan[r]
<1> USE DEF IInv, TypeOK
<1>1. CASE Begin(q)
  BY <1>1 DEF Begin, Goto, Hold
<1>2. CASE Assign(q)
  BY <1>2, HoldFacts DEF Assign
<1>3. CASE Insert(q)
  BY <1>3 DEF Insert, Goto, entityVars
<1>4. CASE UpdateRead(q) \/ RemoveRead(q) \/ RestoreRead(q)
  BY <1>4, AnswerFacts, HoldFacts DEF UpdateRead, RemoveRead, RestoreRead
<1>5. CASE \/ AddDependencyRead(q) \/ AddDependencyReadBlocker(q)
           \/ RemoveDependencyRead(q)
  BY <1>5, AnswerFacts, HoldFacts
     DEF AddDependencyRead, AddDependencyReadBlocker, RemoveDependencyRead
<1>6. CASE Reload(q)
  BY <1>6, AnswerFacts DEF Reload, AfterSave, Goto, entityVars
<1>7. CASE Write(q)
  BY <1>7, AnswerFacts DEF Write, AfterSave, Goto, entityVars
<1>8. CASE WriteDuplicate(q) \/ Log(q) \/ LogAssign(q) \/ DatabaseError(q)
  BY <1>8, AnswerFacts
     DEF WriteDuplicate, Log, LogAssign, DatabaseError, Goto, entityVars
<1> QED
  BY <1>1, <1>2, <1>3, <1>4, <1>5, <1>6, <1>7, <1>8 DEF Moves, Step

\* A step writes or inserts one ticket at most, and only with its save.
LEMMA SaveFrame ==
  ASSUME IInv, NEW q \in Requests, Moves(q)
  PROVE  \/ tickets' = tickets
         \/ /\ pc[q] \in {"insert", "write"} /\ pc'[q] \in {"log", "ok"}
            /\ \E t : /\ DOMAIN tickets' \subseteq DOMAIN tickets \cup {t}
                     /\ DOMAIN tickets \subseteq DOMAIN tickets'
                     /\ \A u \in DOMAIN tickets \ {t} : tickets'[u] = tickets[u]
<1>1. CASE Insert(q)
  <2>1. pc[q] = "insert" /\ pc'[q] = "log"
    BY <1>1 DEF Insert, At, Goto, IInv, TypeOK
  <2>2. PICK id : tickets' = [t \in DOMAIN tickets \cup {id} |->
                               IF t = id THEN mem[q] ELSE tickets[t]]
    BY <1>1 DEF Insert
  <2>3. /\ DOMAIN tickets' = DOMAIN tickets \cup {id}
        /\ \A u \in DOMAIN tickets \ {id} : tickets'[u] = tickets[u]
    BY <2>2
  <2> QED
    BY <2>1, <2>3
<1>2. CASE Write(q)
  <2>1. pc[q] = "write" /\ pc'[q] \in {"log", "ok"}
    BY <1>2, AnswerFacts DEF Write, AfterSave, Goto, IInv, TypeOK
  <2>2. /\ DOMAIN tickets' = DOMAIN tickets
        /\ \A u \in DOMAIN tickets \ {target[q]} : tickets'[u] = tickets[u]
    BY <1>2 DEF Write
  <2> QED
    BY <2>1, <2>2
<1>3. CASE ~Insert(q) /\ ~Write(q)
  BY <1>3 DEF Moves, Step, Begin, Assign, UpdateRead, RemoveRead, RestoreRead,
              AddDependencyRead, AddDependencyReadBlocker, RemoveDependencyRead,
              Reload, WriteDuplicate, Log, LogAssign, DatabaseError, db
<1> QED
  BY <1>1, <1>2, <1>3

\* Tickets are never dropped and never move to another project.
ProjectsKept ==
  \A t \in DOMAIN tickets :
    t \in DOMAIN tickets' /\ tickets'[t].projectId = tickets[t].projectId

LEMMA NextKeepsProjects == IInv /\ [Next]_vars => ProjectsKept
<1> SUFFICES ASSUME IInv, [Next]_vars PROVE ProjectsKept
  OBVIOUS
<1>1. CASE tickets' = tickets
  BY <1>1 DEF ProjectsKept
<1>2. ASSUME NEW r \in Requests, Insert(r) PROVE ProjectsKept
  BY <1>2 DEF Insert, ProjectsKept
<1>3. ASSUME NEW r \in Requests, Write(r) PROVE ProjectsKept
  <2>1. /\ IsRow(tickets[target[r]]) /\ IsRow(mem[r])
        /\ plan[r].columns \subseteq Columns
        /\ "projectId" \notin plan[r].columns
    BY <1>3 DEF Write, IInv, TypeOK, EntityOK, HoldsEntity
  <2>2. Updated(tickets[target[r]], mem[r], plan[r].columns).projectId
          = tickets[target[r]].projectId
    BY <2>1, UpdatedIsRow
  <2> QED
    BY <1>3, <2>2 DEF Write, ProjectsKept
<1>4. ASSUME NEW r \in Requests, Moves(r)
      PROVE  Insert(r) \/ Write(r) \/ tickets' = tickets
  BY <1>4 DEF Moves, Begin, Step, DatabaseError, Assign, UpdateRead, RemoveRead,
     RestoreRead, AddDependencyRead, AddDependencyReadBlocker,
     RemoveDependencyRead, Reload, WriteDuplicate, Log, LogAssign, db
<1>5. Crash \/ Tick \/ UNCHANGED vars => tickets' = tickets
  BY DEF Crash, Tick, vars, db
<1> QED
  BY <1>1, <1>2, <1>3, <1>4, <1>5 DEF Next, Moves

-----------------------------------------------------------------------------
(* Which entities are marked deleted.                                      *)

\* Entities that are saved to delete a ticket are those of remove() only: a
\* stale one may bring a deleted ticket back, but never deletes it.
EntityDeletes(r) ==
  pc[r] \in {"insert", "blocker", "reload", "write"} /\ call[r].op # "remove" =>
    ~mem[r].isDeleted

LEMMA OwnEntityDeletes ==
  ASSUME IInv, NEW r \in Requests, EntityDeletes(r), Moves(r)
  PROVE  EntityDeletes(r)'
<1>1. \A draft, assignee : NewTicket(draft, assignee).isDeleted = FALSE
  BY DEF NewTicket
<1>2. CASE Begin(r)
  BY <1>1, <1>2 DEF Begin, Hold, Goto, EntityDeletes, IInv, TypeOK
<1>3. CASE Assign(r)
  BY <1>1, <1>3, HoldFacts DEF Assign, EntityDeletes
<1>4. CASE Insert(r)
  BY <1>4 DEF Insert, Goto, EntityDeletes, IInv, TypeOK
<1>5. CASE UpdateRead(r)
  <2>1. CASE Answer(r, UpdateVerdict(target[r], call[r].patch))
             /\ UpdateVerdict(target[r], call[r].patch) # "accepted"
    <3>1. UpdateVerdict(target[r], call[r].patch)
            \in {"404", "400", "409", "accepted"}
      BY ZenonT(30) DEF UpdateVerdict
    <3> QED
      BY <2>1, <3>1, AnswerFacts DEF EntityDeletes
  <2>2. CASE /\ UpdateVerdict(target[r], call[r].patch) = "accepted"
             /\ Hold(r, "reload", Patched(tickets[target[r]], call[r].patch),
                     IF Closes(call[r].patch) THEN Blockers(target[r]) ELSE {})
    <3>1. At(r, "read", "update") /\ call[r] \in Calls
      BY <1>5 DEF UpdateRead, At, IInv, TypeOK
    <3>2. IsPatch(call[r].patch)
      BY <3>1, CallOK DEF At, IsCall
    <3>3. UpdateVerdict(target[r], call[r].patch) = "accepted"
      BY <2>2
    <3>4. Active(target[r])
      BY <3>3, Zenon DEF UpdateVerdict
    <3>5. Patched(tickets[target[r]], call[r].patch).isDeleted
            = tickets[target[r]].isDeleted
      BY <3>2, ColumnFacts DEF Patched, IsPatch, PatchFields
    <3> QED
      BY <2>2, <3>4, <3>5, HoldFacts DEF EntityDeletes, Active
  <2> QED
    BY <1>5, <2>1, <2>2 DEF UpdateRead
<1>6. CASE RemoveRead(r)
  BY <1>6 DEF RemoveRead, At, EntityDeletes
<1>7. CASE RestoreRead(r)
  <2>1. target[r] \in DOMAIN tickets => Restored(tickets[target[r]]).isDeleted = FALSE
    BY ColumnFacts DEF Restored, IInv, TypeOK, IsRow
  <2> QED
    BY <1>7, <2>1, AnswerFacts, HoldFacts DEF RestoreRead, EntityDeletes
<1>8. CASE AddDependencyRead(r) \/ RemoveDependencyRead(r)
  BY <1>8, AnswerFacts, HoldFacts
     DEF AddDependencyRead, RemoveDependencyRead, EntityDeletes, Active
<1>9. CASE AddDependencyReadBlocker(r)
  BY <1>9, AnswerFacts, HoldFacts
     DEF AddDependencyReadBlocker, EntityDeletes, At
<1>10. CASE Reload(r)
  BY <1>10, AnswerFacts
     DEF Reload, AfterSave, Goto, entityVars, EntityDeletes, IInv, TypeOK
<1>11. CASE Write(r)
  BY <1>11, AnswerFacts
     DEF Write, AfterSave, Goto, entityVars, EntityDeletes, IInv, TypeOK
<1>12. CASE WriteDuplicate(r) \/ Log(r) \/ LogAssign(r) \/ DatabaseError(r)
  BY <1>12, AnswerFacts
     DEF WriteDuplicate, Log, LogAssign, DatabaseError, Goto, entityVars,
         EntityDeletes, IInv, TypeOK
<1> QED
  BY <1>2, <1>3, <1>4, <1>5, <1>6, <1>7, <1>8, <1>9, <1>10, <1>11, <1>12
     DEF Moves, Step

\* A ticket is deleted by the save of a remove(), which goes on to the log.
LEMMA DeletedByRemove ==
  ASSUME IInv, NEW r \in Requests, EntityDeletes(r), Moves(r),
         NEW t \in DOMAIN tickets', tickets'[t].isDeleted,
         ~(t \in DOMAIN tickets /\ tickets[t].isDeleted)
  PROVE  /\ t = target[r] /\ target' = target
         /\ call[r].op = "remove" /\ call' = call
         /\ pc[r] = "write" /\ pc'[r] = "log"
<1>1. ~Insert(r)
  <2> SUFFICES ASSUME Insert(r) PROVE FALSE
    OBVIOUS
  <2>1. ~mem[r].isDeleted
    BY DEF Insert, At, EntityDeletes
  <2>2. PICK id : tickets' = [u \in DOMAIN tickets \cup {id} |->
                               IF u = id THEN mem[r] ELSE tickets[u]]
    BY DEF Insert
  <2> QED
    BY <2>1, <2>2
<1>2. Write(r)
  <2>1. tickets' # tickets
    OBVIOUS
  <2> QED
    BY <1>1, <2>1
    DEF Moves, Step, Begin, Assign, UpdateRead, RemoveRead, RestoreRead,
        AddDependencyRead, AddDependencyReadBlocker, RemoveDependencyRead,
        Reload, WriteDuplicate, Log, LogAssign, DatabaseError, db
<1>3. /\ t = target[r] /\ t \in DOMAIN tickets
      /\ tickets'[t] = Updated(tickets[t], mem[r], plan[r].columns)
  BY <1>2 DEF Write
<1>4. IsRow(tickets[t]) /\ IsRow(mem[r]) /\ plan[r].columns \subseteq Columns
  BY <1>2, <1>3 DEF Write, IInv, TypeOK, HoldsEntity
<1>5. mem[r].isDeleted
  BY <1>3, <1>4, ColumnFacts DEF Updated, IsRow
<1>6. call[r].op = "remove"
  BY <1>2, <1>5 DEF Write, EntityDeletes
<1> QED
  BY <1>2, <1>3, <1>6 DEF Write, AfterSave, Goto, LoggedOps, IInv, TypeOK

LEMMA EntitiesStillDelete ==
  ASSUME IInv, \A q \in Requests : EntityDeletes(q), NEW r \in Requests, Moves(r)
  PROVE  \A q \in Requests : EntityDeletes(q)'
<1>1. ASSUME NEW q \in Requests, q # r PROVE EntityDeletes(q)'
  BY <1>1, OthersKept DEF EntityDeletes
<1> QED
  BY <1>1, OwnEntityDeletes

\* What ends all requests, or none, leaves no entity that deletes.
LEMMA QuietDeletes ==
  ASSUME \A r \in Requests : EntityDeletes(r), Crash \/ Tick \/ UNCHANGED vars
  PROVE  \A r \in Requests : EntityDeletes(r)'
BY DEF Crash, Tick, vars, entityVars, EntityDeletes, InFlight, InFlightPcs
=============================================================================
