------------------------------ MODULE Tickets ------------------------------
(***************************************************************************)
(* The ticket workflow: TicketsService over the tables `tickets` and       *)
(* `ticket_dependencies`, with the rows it appends to the audit log.       *)
(*                                                                         *)
(* One Node process runs every handler, and a handler gives way to the     *)
(* others at each `await` of a database round trip.  An action is the code *)
(* between two awaits together with the statement that ends it, so the     *)
(* interleavings of the model are those of the server.  A request walks    *)
(*                                                                         *)
(*   idle -> read [-> blocker] -> reload -> write -> log -> answer         *)
(*   idle [-> assign] -> insert -> log [-> logAssign] -> answer  (create)  *)
(*                                                                         *)
(* reload and write are the two round trips of repository.save (TypeOrm).  *)
(* A request keeps its entity in memory (mem, blocked) over these steps    *)
(* and never reads it again: it goes stale when another request commits.   *)
(***************************************************************************)
EXTENDS Integers, Sequences, FiniteSets, TypeOrm

CONSTANTS
  TicketIds,   \* values of the ticket id sequence
  Projects,    \* project ids
  Users,       \* user ids
  NoUser,      \* an assigneeId that is null
  Contents,    \* values of (title, description, type), which nothing inspects
  Developers,  \* project |-> its DEVELOPER members, by createdAt
  MaxTime,     \* bound on the clock
  Seeds,       \* databases the server may start on
  Calls,       \* calls the clients may make
  Requests,    \* requests, each made at most once
  Isolated     \* TRUE: clients never have two requests open on one ticket

NoDate == -1
NoTicket == 0
Dates == {NoDate} \cup 0..MaxTime
Statuses == {"TODO", "IN_PROGRESS", "IN_REVIEW", "DONE"}
Priorities == {"LOW", "MEDIUM", "HIGH", "CRITICAL"}

\* The columns of a ticket and their types.
ColumnType ==
  [projectId  |-> Projects,
   content    |-> Contents,
   status     |-> Statuses,
   priority   |-> Priorities,
   assigneeId |-> Users \cup {NoUser},
   dueDate    |-> Dates,
   isOverdue  |-> BOOLEAN,
   isDeleted  |-> BOOLEAN,
   deletedAt  |-> Dates,
   version    |-> Nat]

Columns == DOMAIN ColumnType

IsRow(row) ==
  /\ row = [c \in Columns |-> row[c]]
  /\ \A c \in Columns : row[c] \in ColumnType[c]

\* The fields of UpdateTicketDto and CreateTicketDto; a client may omit some.
PatchFields ==
  {"content", "status", "priority", "assigneeId", "dueDate", "version"}
DraftFields ==
  {"projectId", "content", "priority", "assigneeId", "dueDate"}

IsPatch(patch) ==
  /\ DOMAIN patch \subseteq PatchFields
  /\ \A f \in DOMAIN patch : patch[f] \in ColumnType[f]

IsDraft(draft) ==
  /\ DOMAIN draft \in {DraftFields, DraftFields \cup {"status"}}
  /\ \A f \in DOMAIN draft : draft[f] \in ColumnType[f]

IsCall(c) ==
  \/ c.op = "create" /\ IsDraft(c.draft)
  \/ c.op = "update" /\ c.id \in TicketIds /\ IsPatch(c.patch)
  \/ c.op \in {"remove", "restore"} /\ c.id \in TicketIds
  \/ c \in [op : {"addDependency", "removeDependency"},
             id : TicketIds, blockedBy : TicketIds]

\* A database some earlier run of the server may have left.
IsSeed(seed) ==
  /\ DOMAIN seed.tickets \subseteq TicketIds
  /\ \A t \in DOMAIN seed.tickets : IsRow(seed.tickets[t])
  /\ seed.deps \subseteq (DOMAIN seed.tickets) \X (DOMAIN seed.tickets)
  /\ \A d \in seed.deps :
       seed.tickets[d[1]].projectId = seed.tickets[d[2]].projectId

ASSUME TicketsAssumption ==
  /\ TicketIds \subseteq Nat \ {NoTicket}
  /\ NoUser \notin Users
  /\ Developers \in [Projects -> Seq(Users)]
  /\ MaxTime \in Nat
  /\ Isolated \in BOOLEAN
  /\ \A seed \in Seeds : IsSeed(seed)
  /\ \A c \in Calls : IsCall(c)

-----------------------------------------------------------------------------
VARIABLES
  tickets,  \* the table `tickets`: id |-> row
  deps,     \* the table `ticket_dependencies`: <<ticketId, blockedById>>
  audit,    \* the table `audit_logs`; the request stands for the row's id
  now,      \* the clock
  pc,       \* where each request is, or the answer it got
  call,     \* what it was asked to do
  target,   \* the ticket it works on
  mem,      \* its in-memory entity, the columns
  blocked,  \* its in-memory entity, the relation blockedBy
  plan      \* the differences save() found: columns, join rows in and out

db == <<tickets, deps>>
entityVars == <<mem, blocked>>
vars == <<tickets, deps, audit, now, pc, call, target, mem, blocked, plan>>

NoCall == [op |-> "none"]
NoRow == << >>
NoPlan == [columns |-> {}, ins |-> {}, del |-> {}]

InFlightPcs ==
  {"assign", "insert", "read", "blocker", "reload", "write", "log", "logAssign"}
Answers == {"ok", "400", "404", "409", "500", "lost"}

InFlight == {r \in Requests : pc[r] \in InFlightPcs}

Init ==
  /\ \E seed \in Seeds : tickets = seed.tickets /\ deps = seed.deps
  /\ audit = {}
  /\ now = 0
  /\ pc = [r \in Requests |-> "idle"]
  /\ call = [r \in Requests |-> NoCall]
  /\ target = [r \in Requests |-> NoTicket]
  /\ mem = [r \in Requests |-> NoRow]
  /\ blocked = [r \in Requests |-> {}]
  /\ plan = [r \in Requests |-> NoPlan]

-----------------------------------------------------------------------------
(* What the service decides, from the row it read.                         *)

IsPast(date) == date # NoDate /\ date < now

\* Fault: findOne finds soft-deleted tickets, too.
Active_any(t) == t \in DOMAIN tickets

\* findOne hides soft-deleted tickets; the relation blockedBy does not.
Active(t) == t \in DOMAIN tickets /\ ~tickets[t].isDeleted
Blockers(t) == {b \in DOMAIN tickets : <<t, b>> \in deps}

Rank == [TODO |-> 0, IN_PROGRESS |-> 1, IN_REVIEW |-> 2, DONE |-> 3]

\* Fault: any later status is allowed.
IsStatusTransitionAllowed_skip(current, next) == Rank[next] >= Rank[current]

IsStatusTransitionAllowed(current, next) ==
  Rank[next] = Rank[current] \/ Rank[next] = Rank[current] + 1

\* Fault: every() in place of some().
HasUnresolvedBlocker_every(t) ==
  Blockers(t) # {} /\ \A b \in Blockers(t) : tickets[b].status # "DONE"

HasUnresolvedBlocker(t) == \E b \in Blockers(t) : tickets[b].status # "DONE"

Closes(patch) == "status" \in DOMAIN patch /\ patch.status = "DONE"

\* Fault: completed tickets are not refused.
IsDone_never(t) == FALSE

\* ensureNotDone()
IsDone(t) == tickets[t].status = "DONE"

\* Fault: the version of the client is not compared.
IsStale_never(t, patch) == FALSE

IsStale(t, patch) ==
  "version" \in DOMAIN patch /\ tickets[t].version # patch.version

\* The checks of update(), in the order in which they are made.
UpdateVerdict(t, patch) ==
  CASE ~Active(t)                                              -> "404"
    [] IsDone(t)                                               -> "400"
    [] IsStale(t, patch)                                       -> "409"
    [] /\ "status" \in DOMAIN patch
       /\ ~IsStatusTransitionAllowed(tickets[t].status, patch.status)
                                                               -> "400"
    [] Closes(patch) /\ HasUnresolvedBlocker(t)                -> "400"
    [] OTHER                                                   -> "accepted"

\* Fault: isOverdue is set but never cleared.
OverdueAfter_sticky(row, patch) ==
  row.isOverdue \/ ("dueDate" \in DOMAIN patch /\ IsPast(patch.dueDate))

\* A new priority clears the escalation state, a new date recomputes it.
OverdueAfter(row, patch) ==
  IF "priority" \in DOMAIN patch THEN FALSE
  ELSE IF "dueDate" \in DOMAIN patch THEN IsPast(patch.dueDate)
  ELSE row.isOverdue

\* The assignments of update().
Patched(row, patch) ==
  [c \in Columns |->
     IF c = "isOverdue" THEN OverdueAfter(row, patch)
     ELSE IF c \in DOMAIN patch \ {"version"} THEN patch[c]
     ELSE row[c]]

\* Fault: the default is not a status of the workflow.
InitialStatus_open(draft) ==
  IF "status" \in DOMAIN draft THEN draft.status ELSE "OPEN"

InitialStatus(draft) ==
  IF "status" \in DOMAIN draft THEN draft.status ELSE "TODO"

NewTicket(draft, assignee) ==
  [projectId  |-> draft.projectId,
   content    |-> draft.content,
   status     |-> InitialStatus(draft),
   priority   |-> draft.priority,
   assigneeId |-> assignee,
   dueDate    |-> draft.dueDate,
   isOverdue  |-> IsPast(draft.dueDate),
   isDeleted  |-> FALSE,
   deletedAt  |-> NoDate,
   version    |-> 1]

\* The aggregation of create(): open tickets of a developer in a project.
OpenTickets(user, project) ==
  {t \in DOMAIN tickets : /\ tickets[t].assigneeId = user
                          /\ tickets[t].projectId = project
                          /\ tickets[t].status # "DONE"
                          /\ ~tickets[t].isDeleted}

\* Fault: the counts are ordered descending.
IsLeastLoaded_most(i, project) ==
  LET load(j) == Cardinality(OpenTickets(Developers[project][j], project))
  IN  \A j \in DOMAIN Developers[project] :
        load(i) > load(j) \/ (load(i) = load(j) /\ i <= j)

\* The i-th developer comes first by open tickets, then by createdAt.
IsLeastLoaded(i, project) ==
  LET load(j) == Cardinality(OpenTickets(Developers[project][j], project))
  IN  \A j \in DOMAIN Developers[project] :
        load(i) < load(j) \/ (load(i) = load(j) /\ i <= j)

-----------------------------------------------------------------------------
(* The life of a request.                                                  *)

At(r, label, op) == pc[r] = label /\ call[r].op = op

Goto(r, label) == pc' = [pc EXCEPT ![r] = label]

\* The handler returns or throws: its entity is garbage.
Answer(r, code) ==
  /\ Goto(r, code)
  /\ mem' = [mem EXCEPT ![r] = NoRow]
  /\ blocked' = [blocked EXCEPT ![r] = {}]
  /\ plan' = [plan EXCEPT ![r] = NoPlan]

\* The handler holds an entity and goes on.
Hold(r, label, row, blockers) ==
  /\ Goto(r, label)
  /\ mem' = [mem EXCEPT ![r] = row]
  /\ blocked' = [blocked EXCEPT ![r] = blockers]
  /\ UNCHANGED plan

\* A call arrives.  create() with an assignee builds its entity at once.
Begin(r) ==
  /\ pc[r] = "idle"
  /\ \E c \in Calls :
       /\ call' = [call EXCEPT ![r] = c]
       /\ \/ /\ c.op = "create"
             /\ c.draft.assigneeId = NoUser
             /\ Goto(r, "assign")
             /\ UNCHANGED <<target, mem, blocked, plan>>
          \/ /\ c.op = "create"
             /\ c.draft.assigneeId # NoUser
             /\ Hold(r, "insert", NewTicket(c.draft, c.draft.assigneeId), {})
             /\ UNCHANGED target
          \/ /\ c.op # "create"
             /\ Isolated => \A q \in InFlight : target[q] # c.id
             /\ target' = [target EXCEPT ![r] = c.id]
             /\ Goto(r, "read")
             /\ UNCHANGED <<mem, blocked, plan>>
  /\ UNCHANGED <<db, audit, now>>

\* create(): ask for the least loaded developer, then build the entity.
Assign(r) ==
  /\ At(r, "assign", "create")
  /\ LET draft == call[r].draft
         developers == Developers[draft.projectId]
     IN  \/ /\ developers = << >>
            /\ Hold(r, "insert", NewTicket(draft, NoUser), {})
         \/ \E i \in DOMAIN developers :
              /\ IsLeastLoaded(i, draft.projectId)
              /\ Hold(r, "insert", NewTicket(draft, developers[i]), {})
  /\ UNCHANGED <<db, audit, now, call, target>>

\* create(): save() of an entity without an id is one INSERT.
Insert(r) ==
  /\ At(r, "insert", "create")
  /\ \E id \in TicketIds \ DOMAIN tickets :
       /\ \A other \in TicketIds \ DOMAIN tickets : id <= other
       /\ tickets' = [t \in DOMAIN tickets \cup {id} |->
                        IF t = id THEN mem[r] ELSE tickets[t]]
       /\ target' = [target EXCEPT ![r] = id]
  /\ Goto(r, "log")
  /\ UNCHANGED <<deps, audit, now, call, entityVars, plan>>

\* update(): one read, with the blockers if the ticket is to be closed.
UpdateRead(r) ==
  /\ At(r, "read", "update")
  /\ LET t == target[r]
         patch == call[r].patch
         verdict == UpdateVerdict(t, patch)
     IN  \/ verdict # "accepted" /\ Answer(r, verdict)
         \/ /\ verdict = "accepted"
            /\ Hold(r, "reload", Patched(tickets[t], patch),
                    IF Closes(patch) THEN Blockers(t) ELSE {})
  /\ UNCHANGED <<db, audit, now, call, target>>

RemoveRead(r) ==
  /\ At(r, "read", "remove")
  /\ LET t == target[r]
     IN  \/ ~Active(t) /\ Answer(r, "404")
         \/ Active(t) /\ IsDone(t) /\ Answer(r, "400")
         \/ /\ Active(t)
            /\ ~IsDone(t)
            /\ Hold(r, "reload",
                    [tickets[t] EXCEPT !.isDeleted = TRUE, !.deletedAt = now],
                    {})
  /\ UNCHANGED <<db, audit, now, call, target>>

\* Fault: deletedAt keeps its value.
Restored_marked(row) == [row EXCEPT !.isDeleted = FALSE]

\* Fault: the entity is rebuilt, with the version of a new one.
Restored_anew(row) ==
  [row EXCEPT !.isDeleted = FALSE, !.deletedAt = NoDate, !.version = 1]

Restored(row) == [row EXCEPT !.isDeleted = FALSE, !.deletedAt = NoDate]

RestoreRead(r) ==
  /\ At(r, "read", "restore")
  /\ LET t == target[r]
         deleted == t \in DOMAIN tickets /\ tickets[t].isDeleted
     IN  \/ ~deleted /\ Answer(r, "404")
         \/ deleted /\ Hold(r, "reload", Restored(tickets[t]), {})
  /\ UNCHANGED <<db, audit, now, call, target>>

\* addDependency(): the ticket with its blockers, then the new blocker.
AddDependencyRead(r) ==
  /\ At(r, "read", "addDependency")
  /\ LET t == target[r]
     IN  \/ ~Active(t) /\ Answer(r, "404")
         \/ Active(t) /\ Hold(r, "blocker", tickets[t], Blockers(t))
  /\ UNCHANGED <<db, audit, now, call, target>>

\* Fault: the projects are not compared.
InProjectOf_any(row, b) == TRUE

InProjectOf(row, b) == row.projectId = tickets[b].projectId

AddDependencyReadBlocker(r) ==
  /\ At(r, "blocker", "addDependency")
  /\ LET b == call[r].blockedBy
     IN  \/ ~Active(b) /\ Answer(r, "404")
         \/ Active(b) /\ ~InProjectOf(mem[r], b) /\ Answer(r, "400")
         \/ /\ Active(b)
            /\ InProjectOf(mem[r], b)
            /\ Hold(r, "reload", mem[r], blocked[r] \cup {b})
  /\ UNCHANGED <<db, audit, now, call, target>>

Without(blockers, b) == blockers \ {b}

RemoveDependencyRead(r) ==
  /\ At(r, "read", "removeDependency")
  /\ LET t == target[r]
     IN  \/ ~Active(t) /\ Answer(r, "404")
         \/ /\ Active(t)
            /\ Hold(r, "reload", tickets[t],
                    Without(Blockers(t), call[r].blockedBy))
  /\ UNCHANGED <<db, audit, now, call, target>>

-----------------------------------------------------------------------------
(* repository.save, and what the handler does after it.                    *)

\* save() compares the relation only where the handler loaded it.
LoadsBlockedBy(c) ==
  \/ c.op \in {"addDependency", "removeDependency"}
  \/ c.op = "update" /\ Closes(c.patch)

\* Fault: restore() answers without an audit entry.
LoggedOps_restore == {"update", "remove"}

LoggedOps == {"update", "remove", "restore"}

\* The dependency handlers answer; the others go on to the audit log.
AfterSave(r) ==
  \/ call[r].op \notin LoggedOps /\ Answer(r, "ok")
  \/ /\ call[r].op \in LoggedOps
     /\ Goto(r, "log")
     /\ UNCHANGED <<entityVars, plan>>

\* First round trip: find what differs now.  Nothing differs: nothing to do.
Reload(r) ==
  /\ pc[r] = "reload"
  /\ LET t == target[r]
         columns == Changed(mem[r], tickets[t])
         ins == IF LoadsBlockedBy(call[r])
                THEN JoinInserts(blocked[r], Blockers(t)) ELSE {}
         del == IF LoadsBlockedBy(call[r])
                THEN JoinDeletes(blocked[r], Blockers(t)) ELSE {}
     IN  \/ columns = {} /\ ins = {} /\ del = {} /\ AfterSave(r)
         \/ /\ ~(columns = {} /\ ins = {} /\ del = {})
            /\ plan' = [plan EXCEPT
                          ![r] = [columns |-> columns, ins |-> ins, del |-> del]]
            /\ Goto(r, "write")
            /\ UNCHANGED entityVars
  /\ UNCHANGED <<db, audit, now, call, target>>

\* Second round trip: one transaction writes what differed then.
Write(r) ==
  /\ pc[r] = "write"
  /\ LET t == target[r]
     IN  /\ plan[r].ins \cap Blockers(t) = {}
         /\ tickets' = [tickets EXCEPT
                          ![t] = Updated(@, mem[r], plan[r].columns)]
         /\ deps' = (deps \cup ({t} \X plan[r].ins)) \ ({t} \X plan[r].del)
  /\ AfterSave(r)
  /\ UNCHANGED <<audit, now, call, target>>

\* Fault: the promise of a failed save is neither awaited nor caught.
WriteDuplicate_unhandled(r) == FALSE

\* A join row inserted by another request in between is a duplicate key.
WriteDuplicate(r) ==
  /\ pc[r] = "write"
  /\ plan[r].ins \cap Blockers(target[r]) # {}
  /\ Answer(r, "500")
  /\ UNCHANGED <<db, audit, now, call, target>>

AuditActionOf(op) ==
  CASE op = "create" -> "CREATE"
    [] op = "remove" -> "DELETE"
    [] OTHER         -> "UPDATE"

LogEntry(by, action, entityType, entityId, actor) ==
  [request |-> by, action |-> action, entityType |-> entityType,
   entityId |-> entityId, actor |-> actor]

TicketEntry(r, action, actor) ==
  LogEntry(r, action, "TICKET", target[r], actor)

AutoAssigned(r) ==
  /\ call[r].op = "create"
  /\ call[r].draft.assigneeId = NoUser
  /\ mem[r].assigneeId # NoUser

\* Fault: AUTO_ASSIGN is logged in place of CREATE.
Log_instead(r) ==
  /\ pc[r] = "log"
  /\ \/ AutoAssigned(r) /\ Goto(r, "logAssign")
        /\ UNCHANGED <<audit, entityVars, plan>>
     \/ /\ ~AutoAssigned(r)
        /\ audit' = audit \cup {TicketEntry(r, AuditActionOf(call[r].op), "USER")}
        /\ Answer(r, "ok")
  /\ UNCHANGED <<db, now, call, target>>

\* logTicketAction(), after the save has been committed.
Log(r) ==
  /\ pc[r] = "log"
  /\ audit' = audit \cup {TicketEntry(r, AuditActionOf(call[r].op), "USER")}
  /\ \/ AutoAssigned(r) /\ Goto(r, "logAssign") /\ UNCHANGED <<entityVars, plan>>
     \/ ~AutoAssigned(r) /\ Answer(r, "ok")
  /\ UNCHANGED <<db, now, call, target>>

LogAssign(r) ==
  /\ pc[r] = "logAssign"
  /\ audit' = audit \cup {TicketEntry(r, "AUTO_ASSIGN", "SYSTEM")}
  /\ Answer(r, "ok")
  /\ UNCHANGED <<db, now, call, target>>

\* Any round trip may fail: the handler throws, nothing is undone.
DatabaseError(r) ==
  /\ pc[r] \in InFlightPcs
  /\ Answer(r, "500")
  /\ UNCHANGED <<db, audit, now, call, target>>

\* The process dies: the open requests never answer, the tables stay.
Crash ==
  /\ InFlight # {}
  /\ pc' = [r \in Requests |-> IF r \in InFlight THEN "lost" ELSE pc[r]]
  /\ mem' = [r \in Requests |-> NoRow]
  /\ blocked' = [r \in Requests |-> {}]
  /\ plan' = [r \in Requests |-> NoPlan]
  /\ UNCHANGED <<db, audit, now, call, target>>

Tick ==
  /\ now < MaxTime
  /\ now' = now + 1
  /\ UNCHANGED <<db, audit, pc, call, target, entityVars, plan>>

\* One request goes on by one round trip.
Step(r) ==
  \/ Assign(r) \/ Insert(r)
  \/ UpdateRead(r) \/ RemoveRead(r) \/ RestoreRead(r)
  \/ AddDependencyRead(r) \/ AddDependencyReadBlocker(r)
  \/ RemoveDependencyRead(r)
  \/ Reload(r) \/ Write(r) \/ WriteDuplicate(r)
  \/ Log(r) \/ LogAssign(r)

Next ==
  \/ \E r \in Requests : Begin(r) \/ Step(r) \/ DatabaseError(r)
  \/ Crash
  \/ Tick

Spec == Init /\ [][Next]_vars

-----------------------------------------------------------------------------
(* Properties.                                                             *)

HoldsEntity(r) ==
  pc[r] \in {"insert", "blocker", "reload", "write", "log", "logAssign"}

\* Types of all variables, in-memory entities included.
TypeOK ==
  /\ DOMAIN tickets \subseteq TicketIds
  /\ \A t \in DOMAIN tickets : IsRow(tickets[t])
  /\ deps \subseteq (DOMAIN tickets) \X (DOMAIN tickets)
  /\ now \in 0..MaxTime
  /\ pc \in [Requests -> {"idle"} \cup InFlightPcs \cup Answers]
  /\ DOMAIN call = Requests
  /\ target \in [Requests -> TicketIds \cup {NoTicket}]
  /\ DOMAIN mem = Requests
  /\ blocked \in [Requests -> SUBSET DOMAIN tickets]
  /\ DOMAIN plan = Requests
  /\ \A r \in Requests :
       /\ pc[r] # "idle" => call[r] \in Calls
       /\ HoldsEntity(r) => IsRow(mem[r])
       /\ plan[r].columns \subseteq Columns
       /\ plan[r].ins \subseteq DOMAIN tickets
       /\ plan[r].del \subseteq DOMAIN tickets

\* A ticket is only ever blocked by tickets of its own project.  No handler
\* writes the project of a ticket, so that what addDependency() compares, two
\* rows read at different times, still holds of whatever a save puts back.
SameProject ==
  \A d \in deps : tickets[d[1]].projectId = tickets[d[2]].projectId

\* The log entries of a request.
EntriesOf(r) == {e \in audit : e.request = r}

\* A refused request (4xx) has logged nothing, and a create, update, remove
\* or restore that answered ok has logged its action on its ticket: a client
\* can tell from the answer what the log holds.
AuditMatchesAnswer ==
  \A r \in Requests :
    /\ pc[r] \in {"400", "404", "409"} => EntriesOf(r) = {}
    /\ pc[r] = "ok" /\ call[r].op \in {"create", "update", "remove", "restore"} =>
         \E e \in EntriesOf(r) :
           /\ e.action = AuditActionOf(call[r].op)
           /\ e.entityType = "TICKET"
           /\ e.entityId = target[r]

\* The log never tells of a ticket that does not exist, and never of an
\* automatic assignment without the creation it belongs to, even when the
\* process dies or the insert of an entry fails half way through create().
AuditSound ==
  \A e \in audit : e.entityType = "TICKET" =>
    /\ e.entityId \in DOMAIN tickets
    /\ e.action = "AUTO_ASSIGN" =>
         \E f \in audit :
           f = [e EXCEPT !.action = "CREATE", !.actor = "USER"]

\* The request whose transaction a step commits.
Commits(r) == pc[r] = "write" /\ pc'[r] \in {"log", "ok"}

\* A ticket becomes deleted only by the commit of a remove() of that ticket.
\* save() writes whatever differs from the row, so a stale entity may bring a
\* deleted ticket back; but no entity that is saved for another reason is
\* marked deleted, so that none deletes a ticket that was restored meanwhile.
OnlyRemovalsDelete ==
  [][\A t \in DOMAIN tickets' :
       tickets'[t].isDeleted /\ ~(t \in DOMAIN tickets /\ tickets[t].isDeleted) =>
         \E r \in Requests :
           Commits(r) /\ call[r].op = "remove" /\ target[r] = t]_vars

\* update(), "verifying optimistic locks to prevent clobbering concurrent
\* edits": an update that carries a version replaces the row of that version.
TokenHoldsAtCommit ==
  [][\A r \in Requests :
       Commits(r) /\ call[r].op = "update" /\ "version" \in DOMAIN call[r].patch
         => tickets[target[r]].version = call[r].patch.version]_vars

\* ensureNotDone(): a ticket that is DONE keeps every column that is not
\* about its soft deletion, through all later updates and removals.
DoneFrozen ==
  [][\A t \in DOMAIN tickets : tickets[t].status = "DONE" =>
       \A c \in Columns \ {"isDeleted", "deletedAt", "version"} :
         tickets'[t][c] = tickets[t][c]]_vars

\* A ticket becomes DONE only at a moment when all its blockers are DONE,
\* although update() checked them two round trips earlier and the blockers
\* are open to other requests meanwhile.
CloseGuard ==
  [][\A t \in DOMAIN tickets :
       tickets[t].status # "DONE" /\ tickets'[t].status = "DONE" =>
         \A b \in Blockers(t) : tickets'[b].status = "DONE"]_vars

\* "Incremented automatically by TypeORM on every UPDATE": a step that
\* changes a row adds one to its version, so equal versions mean equal rows.
VersionCountsWrites ==
  [][\A t \in DOMAIN tickets : tickets'[t] # tickets[t] =>
       tickets'[t].version = tickets[t].version + 1]_vars

\* remove() and restore() keep the two columns of the soft deletion in step:
\* a ticket has a deletion date exactly while it is deleted.
SoftDeleteMarker ==
  \A t \in DOMAIN tickets :
    tickets[t].isDeleted <=> tickets[t].deletedAt # NoDate

\* A ticket is flagged overdue only if it has a due date and the date is
\* past, through changes of the date, of the priority, and of the clock.
OverdueMeansPast ==
  \A t \in DOMAIN tickets : tickets[t].isOverdue => IsPast(tickets[t].dueDate)

\* The entity comment calls blockedBy a Directed Acyclic Graph: every set of
\* tickets has one without a blocker in the set.
Acyclic ==
  \A S \in SUBSET DOMAIN tickets :
    S # {} => \E t \in S : Blockers(t) \cap S = {}

\* Whatever the others commit while it waits, a handler can go on from every
\* round trip: so every request is answered, or lost with the process.  The
\* save of a dependency that another request has inserted meanwhile hits the
\* key of the join row, and must answer all the same.
NeverStuck == \A r \in InFlight : ENABLED Step(r)

Lifecycle == INSTANCE TicketLifecycle WITH
  Ids <- TicketIds,
  status <- [t \in DOMAIN tickets |-> tickets[t].status],
  deleted <- {t \in DOMAIN tickets : tickets[t].isDeleted},
  edges <- deps

\* Requests that never meet on a ticket implement the abstract lifecycle.
ImplementsLifecycle == Lifecycle!Spec
=============================================================================
