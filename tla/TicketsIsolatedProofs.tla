----------------------- MODULE TicketsIsolatedProofs -----------------------
(***************************************************************************)
(* What Tickets keeps when clients never have two requests open on one     *)
(* ticket, although requests on different tickets, among them a ticket and *)
(* its blocker, interleave freely, fail and are lost.                      *)
(*                                                                         *)
(* Everything follows from Fresh: from its read to its commit, a handler   *)
(* holds the row as it is, but for what its call asks for, and the checks  *)
(* it made at the read still hold.                                         *)
(***************************************************************************)
EXTENDS TicketsProofs

Saving == {"read", "blocker", "reload", "write"}

\* No two requests are about to save one ticket.
Exclusive ==
  \A q, r \in Requests :
    q # r /\ pc[q] \in Saving /\ pc[r] \in Saving => target[q] # target[r]

\* A request works on the ticket that its call names.
OnCalledTicket ==
  \A r \in Requests :
    pc[r] \in Saving => target[r] = call[r].id /\ call[r].op # "create"

Own(r) == tickets[target[r]]
OwnBlockers(r) == Blockers(target[r])

\* In memory and in the table, the ticket differs in these columns at most.
DiffersIn(r, columns) ==
  \A c \in Columns \ columns : mem[r][c] = Own(r)[c]

FreshUpdate(r) ==
  LET patch == call[r].patch
  IN  /\ ~Own(r).isDeleted /\ Own(r).status # "DONE"
      /\ "version" \in DOMAIN patch => Own(r).version = patch.version
      /\ "status" \in DOMAIN patch =>
           IsStatusTransitionAllowed(Own(r).status, patch.status)
      /\ Closes(patch) => /\ blocked[r] = OwnBlockers(r)
                          /\ \A b \in OwnBlockers(r) : tickets[b].status = "DONE"
      /\ DiffersIn(r, (DOMAIN patch \ {"version"}) \cup {"isOverdue"})
      /\ \A c \in DOMAIN patch \ {"version"} : mem[r][c] = patch[c]
      /\ "priority" \in DOMAIN patch => ~mem[r].isOverdue
      /\ "priority" \notin DOMAIN patch /\ "dueDate" \in DOMAIN patch =>
           (mem[r].isOverdue => IsPast(patch.dueDate))
      /\ DOMAIN patch \cap {"priority", "dueDate"} = {} =>
           mem[r].isOverdue = Own(r).isOverdue

FreshRemove(r) ==
  /\ ~Own(r).isDeleted /\ Own(r).status # "DONE"
  /\ DiffersIn(r, {"isDeleted", "deletedAt"})
  /\ mem[r].isDeleted /\ mem[r].deletedAt # NoDate

FreshRestore(r) ==
  /\ Own(r).isDeleted
  /\ DiffersIn(r, {"isDeleted", "deletedAt"})
  /\ ~mem[r].isDeleted /\ mem[r].deletedAt = NoDate

FreshDependency(r) ==
  /\ ~Own(r).isDeleted
  /\ DiffersIn(r, {})
  /\ pc[r] = "blocker" => blocked[r] = OwnBlockers(r)
  /\ pc[r] # "blocker" /\ call[r].op = "addDependency" =>
       /\ call[r].blockedBy \in DOMAIN tickets
       /\ blocked[r] = OwnBlockers(r) \cup {call[r].blockedBy}
  /\ pc[r] # "blocker" /\ call[r].op = "removeDependency" =>
       blocked[r] = OwnBlockers(r) \ {call[r].blockedBy}

FreshEntity(r) ==
  \/ call[r].op = "update" /\ FreshUpdate(r)
  \/ call[r].op = "remove" /\ FreshRemove(r)
  \/ call[r].op = "restore" /\ FreshRestore(r)
  \/ call[r].op \in {"addDependency", "removeDependency"} /\ FreshDependency(r)

\* What save() has found to write is what a new comparison would find.
FreshPlan(r) ==
  LET loads == LoadsBlockedBy(call[r])
  IN  /\ plan[r].columns = {c \in Columns : mem[r][c] # Own(r)[c]}
      /\ plan[r].ins = IF loads THEN blocked[r] \ OwnBlockers(r) ELSE {}
      /\ plan[r].del = IF loads THEN OwnBlockers(r) \ blocked[r] ELSE {}

Fresh(r) ==
  /\ pc[r] \in {"blocker", "reload", "write"} => FreshEntity(r)
  /\ pc[r] = "blocker" => call[r].op = "addDependency"
  /\ pc[r] = "write" => FreshPlan(r)

\* create() builds a ticket that is not deleted, and overdue only if it is.
FreshNew(r) ==
  pc[r] = "insert" =>
    /\ ~mem[r].isDeleted /\ mem[r].deletedAt = NoDate
    /\ mem[r].isOverdue => IsPast(mem[r].dueDate)

IsoInv ==
  /\ Exclusive
  /\ OnCalledTicket
  /\ \A r \in Requests : Fresh(r) /\ FreshNew(r)

-----------------------------------------------------------------------------
(* What a step does to the tables.                                         *)

LEMMA RowFacts ==
  ASSUME IInv, NEW t \in DOMAIN tickets
  PROVE  /\ tickets[t] = [c \in Columns |-> tickets[t][c]]
         /\ \A c \in Columns : tickets[t][c] \in ColumnType[c]
         /\ DOMAIN tickets[t] = Columns
BY DEF IInv, TypeOK, IsRow

\* The row a handler is about to save exists, and it holds an entity.
LEMMA SavingFacts ==
  ASSUME IInv, NEW r \in Requests, pc[r] \in {"blocker", "reload", "write"}
  PROVE  /\ target[r] \in DOMAIN tickets
         /\ IsRow(mem[r]) /\ IsRow(Own(r))
         /\ mem[r] = [c \in Columns |-> mem[r][c]]
         /\ Own(r) = [c \in Columns |-> Own(r)[c]]
         /\ DOMAIN Own(r) = Columns
         /\ blocked[r] \subseteq DOMAIN tickets
         /\ OwnBlockers(r) \subseteq DOMAIN tickets
         /\ IsCall(call[r])
<1>1. /\ target[r] \in DOMAIN tickets
      /\ IsRow(mem[r])
      /\ blocked[r] \subseteq DOMAIN tickets
  BY DEF IInv, TypeOK, EntityOK, HoldsEntity
<1>2. IsRow(Own(r))
  BY <1>1 DEF IInv, TypeOK, Own
<1> QED
  BY <1>1, <1>2, CallOK DEF IsRow, OwnBlockers, Blockers

\* A step leaves every row and its blockers alone, but for the commit.
LEMMA RowFrame ==
  ASSUME IInv, NEW q \in Requests, Moves(q), NEW t \in DOMAIN tickets,
         ~(Write(q) /\ t = target[q])
  PROVE  /\ t \in DOMAIN tickets'
         /\ tickets'[t] = tickets[t]
         /\ Blockers(t)' = Blockers(t)
<1>1. CASE Insert(q)
  <2>1. PICK id \in TicketIds \ DOMAIN tickets :
          tickets' = [u \in DOMAIN tickets \cup {id} |->
                        IF u = id THEN mem[q] ELSE tickets[u]]
    BY <1>1 DEF Insert
  <2>2. deps' = deps
    BY <1>1 DEF Insert
  <2>3. \A b : <<t, b>> \in deps => b \in DOMAIN tickets
    BY DEF IInv, TypeOK
  <2>4. DOMAIN tickets' = DOMAIN tickets \cup {id} /\ tickets'[t] = tickets[t]
    BY <2>1
  <2>5. Blockers(t)' = Blockers(t)
    BY <2>2, <2>3, <2>4 DEF Blockers
  <2> QED
    BY <2>4, <2>5
<1>2. CASE Write(q)
  <2>1. t # target[q]
    BY <1>2
  <2>2. /\ DOMAIN tickets' = DOMAIN tickets /\ tickets'[t] = tickets[t]
        /\ \A b : <<t, b>> \in deps' <=> <<t, b>> \in deps
    BY <1>2, <2>1 DEF Write
  <2> QED
    BY <2>2 DEF Blockers
<1>3. CASE ~Insert(q) /\ ~Write(q)
  <2>1. UNCHANGED db
    BY <1>3
       DEF Moves, Step, Begin, Assign, UpdateRead, RemoveRead, RestoreRead,
           AddDependencyRead, AddDependencyReadBlocker, RemoveDependencyRead,
           Reload, WriteDuplicate, Log, LogAssign, DatabaseError
  <2> QED
    BY <2>1 DEF db, Blockers
<1> QED
  BY <1>1, <1>2, <1>3

\* A commit writes the entity, and counts it in the version.
LEMMA WriteEffect ==
  ASSUME IInv, NEW r \in Requests, Fresh(r), Write(r)
  PROVE  /\ target[r] \in DOMAIN tickets
         /\ DOMAIN tickets' = DOMAIN tickets
         /\ target' = target /\ call' = call /\ now' = now
         /\ \A t \in DOMAIN tickets \ {target[r]} : tickets'[t] = tickets[t]
         /\ \A c \in Columns \ {"version"} : Own(r)'[c] = mem[r][c]
         /\ Own(r)' # Own(r) => Own(r)'.version = Own(r).version + 1
         /\ plan[r].columns = {} => Own(r)' = Own(r)
         /\ deps' = (deps \cup ({target[r]} \X plan[r].ins))
                      \ ({target[r]} \X plan[r].del)
         /\ mem[r].version = Own(r).version
         /\ FreshEntity(r) /\ FreshPlan(r)
         /\ pc[r] = "write"
<1> DEFINE t == target[r]
           row == Updated(tickets[t], mem[r], plan[r].columns)
<1>1. /\ pc[r] = "write"
      /\ tickets' = [tickets EXCEPT ![t] = row]
      /\ deps' = (deps \cup ({t} \X plan[r].ins)) \ ({t} \X plan[r].del)
      /\ UNCHANGED <<now, call, target>>
  BY DEF Write
<1>2. FreshEntity(r) /\ FreshPlan(r)
  BY <1>1 DEF Fresh
<1>3. /\ t \in DOMAIN tickets
      /\ tickets[t] = [c \in Columns |-> tickets[t][c]]
      /\ DOMAIN tickets[t] = Columns
      /\ IsCall(call[r])
  BY <1>1, SavingFacts DEF Own
<1>4. mem[r].version = Own(r).version
  BY <1>2, ColumnFacts
     DEF FreshEntity, FreshUpdate, FreshRemove, FreshRestore, FreshDependency,
         DiffersIn
<1>5. "version" \notin plan[r].columns
  BY <1>2, <1>4 DEF FreshPlan
<1>6. /\ row = [c \in Columns |-> row[c]]
      /\ \A c \in Columns \ {"version"} : row[c] = mem[r][c]
      /\ row # tickets[t] => row.version = tickets[t].version + 1
      /\ plan[r].columns = {} => row = tickets[t]
  <2>1. row = [c \in Columns |->
                 IF c \in plan[r].columns THEN mem[r][c]
                 ELSE IF c = "version" /\ plan[r].columns # {}
                      THEN tickets[t][c] + 1
                 ELSE tickets[t][c]]
    BY <1>3 DEF Updated
  <2>2. \A c \in Columns \ {"version"} : row[c] = mem[r][c]
    BY <1>2, <2>1 DEF FreshPlan, Own
  <2>3. CASE plan[r].columns = {}
    <3>1. row = [c \in Columns |-> tickets[t][c]]
      BY <2>1, <2>3
    <3> QED
      BY <1>3, <2>1, <2>2, <3>1
  <2>4. CASE plan[r].columns # {}
    BY <1>5, <2>1, <2>2, <2>4, ColumnFacts
  <2> QED
    BY <2>3, <2>4
<1> HIDE DEF row
<1>7. Own(r)' = row /\ Own(r) = tickets[t]
  BY <1>1, <1>3 DEF Own
<1> QED
  BY <1>1, <1>2, <1>3, <1>4, <1>6, <1>7

\* A commit on a DONE ticket writes nothing but its soft deletion.
LEMMA CommitKeepsDone ==
  ASSUME IInv, NEW r \in Requests, Fresh(r), Write(r), Own(r).status = "DONE"
  PROVE  \A c \in Columns \ {"isDeleted", "deletedAt", "version"} :
           Own(r)'[c] = Own(r)[c]
<1>1. \A c \in Columns \ {"isDeleted", "deletedAt", "version"} :
        mem[r][c] = Own(r)[c]
  BY WriteEffect
     DEF FreshEntity, FreshUpdate, FreshRemove, FreshRestore, FreshDependency,
         DiffersIn
<1> QED
  BY <1>1, WriteEffect

LEMMA DoneStays ==
  ASSUME IInv, NEW q \in Requests, Fresh(q), Moves(q), NEW t \in DOMAIN tickets,
         tickets[t].status = "DONE"
  PROVE  \A c \in Columns \ {"isDeleted", "deletedAt", "version"} :
           tickets'[t][c] = tickets[t][c]
<1>1. CASE Write(q) /\ t = target[q]
  BY <1>1, CommitKeepsDone, WriteEffect DEF Own
<1>2. CASE ~(Write(q) /\ t = target[q])
  BY <1>2, RowFrame
<1> QED
  BY <1>1, <1>2

-----------------------------------------------------------------------------
(* Fresh is kept: by the others, and by the handler itself.                *)

\* What Fresh says of a request depends on its own state, its row and the
\* blockers of it, and on the other rows only in what no step takes back.
LEMMA FreshStable ==
  ASSUME IInv, NEW r \in Requests, Fresh(r),
         pc[r] \in {"blocker", "reload", "write"},
         pc'[r] = pc[r], call'[r] = call[r],
         mem'[r] = mem[r], blocked'[r] = blocked[r], plan'[r] = plan[r],
         Own(r)' = Own(r), OwnBlockers(r)' = OwnBlockers(r),
         DOMAIN tickets \subseteq DOMAIN tickets',
         \A t \in DOMAIN tickets :
           tickets[t].status = "DONE" => tickets'[t].status = "DONE",
         \A date \in Dates : IsPast(date) => IsPast(date)'
  PROVE  Fresh(r)'
<1>1. FreshEntity(r) /\ IsCall(call[r]) /\ OwnBlockers(r) \subseteq DOMAIN tickets
  BY SavingFacts DEF Fresh
<1>2. CASE call[r].op = "update"
  <2>1. FreshUpdate(r)
    BY <1>1, <1>2 DEF FreshEntity
  <2>2. IsPatch(call[r].patch)
    BY <1>1, <1>2 DEF IsCall
  <2>3. "dueDate" \in DOMAIN call[r].patch => call[r].patch.dueDate \in Dates
    BY <2>2, ColumnFacts DEF IsPatch
  <2>4. FreshUpdate(r)'
    BY <1>1, <2>1, <2>3 DEF FreshUpdate, DiffersIn, Closes
  <2> QED
    BY <1>2, <2>4 DEF Fresh, FreshEntity, FreshPlan, LoadsBlockedBy, Closes
<1>3. CASE call[r].op = "remove"
  BY <1>1, <1>3
     DEF Fresh, FreshEntity, FreshRemove, DiffersIn, FreshPlan, LoadsBlockedBy, Closes
<1>4. CASE call[r].op = "restore"
  BY <1>1, <1>4
     DEF Fresh, FreshEntity, FreshRestore, DiffersIn, FreshPlan, LoadsBlockedBy, Closes
<1>5. CASE call[r].op \in {"addDependency", "removeDependency"}
  BY <1>1, <1>5
     DEF Fresh, FreshEntity, FreshDependency, DiffersIn, FreshPlan,
         LoadsBlockedBy, Closes
<1> QED
  BY <1>1, <1>2, <1>3, <1>4, <1>5 DEF FreshEntity

LEMMA OthersFresh ==
  ASSUME IInv, IsoInv, NEW q \in Requests, NEW r \in Requests, q # r, Moves(q)
  PROVE  Fresh(r)'
<1>1. /\ pc'[r] = pc[r] /\ call'[r] = call[r] /\ target'[r] = target[r]
      /\ mem'[r] = mem[r] /\ blocked'[r] = blocked[r] /\ plan'[r] = plan[r]
  BY OthersKept
<1>2. CASE pc[r] \notin {"blocker", "reload", "write"}
  BY <1>1, <1>2 DEF Fresh
<1>3. CASE pc[r] \in {"blocker", "reload", "write"}
  <2>1. target[r] \in DOMAIN tickets
    BY <1>3, SavingFacts
  <2>2. ~(Write(q) /\ target[r] = target[q])
    BY <1>3 DEF IsoInv, Exclusive, Saving, Write
  <2>3. Own(r)' = Own(r) /\ OwnBlockers(r)' = OwnBlockers(r)
    <3> SUFFICES ASSUME NEW t, t = target[r]
                 PROVE  Own(r)' = Own(r) /\ OwnBlockers(r)' = OwnBlockers(r)
      OBVIOUS
    <3>1. tickets'[t] = tickets[t] /\ Blockers(t)' = Blockers(t)
      BY <2>1, <2>2, RowFrame
    <3> QED
      BY <1>1, <3>1 DEF Own, OwnBlockers, Blockers
  <2>4. now' = now
    BY DEF Moves, Step, Begin, Assign, Insert, UpdateRead, RemoveRead,
           RestoreRead, AddDependencyRead, AddDependencyReadBlocker,
           RemoveDependencyRead, Reload, Write, WriteDuplicate, Log, LogAssign,
           DatabaseError
  <2>5. /\ DOMAIN tickets \subseteq DOMAIN tickets'
        /\ \A t \in DOMAIN tickets :
             tickets[t].status = "DONE" => tickets'[t].status = "DONE"
    <3>1. Fresh(q)
      BY DEF IsoInv
    <3>2. ASSUME NEW t \in DOMAIN tickets PROVE t \in DOMAIN tickets'
      BY <3>1, RowFrame, WriteEffect
    <3> QED
      BY <3>1, <3>2, DoneStays, ColumnFacts
  <2>6. \A date \in Dates : IsPast(date) => IsPast(date)'
    BY <2>4 DEF IsPast
  <2> QED
    BY <1>1, <1>3, <2>3, <2>5, <2>6, FreshStable DEF IsoInv
<1> QED
  BY <1>2, <1>3

LEMMA AcceptedFacts ==
  ASSUME NEW t, NEW patch, UpdateVerdict(t, patch) = "accepted"
  PROVE  /\ Active(t) /\ ~IsDone(t) /\ ~IsStale(t, patch)
         /\ "status" \in DOMAIN patch =>
              IsStatusTransitionAllowed(tickets[t].status, patch.status)
         /\ Closes(patch) => ~HasUnresolvedBlocker(t)
BY Zenon DEF UpdateVerdict

\* update() checks the row it reads and patches it.
LEMMA UpdateReadFresh ==
  ASSUME IInv, NEW r \in Requests, UpdateRead(r), pc'[r] = "reload"
  PROVE  Fresh(r)'
<1> DEFINE t == target[r]
           patch == call[r].patch
           row == Patched(tickets[t], patch)
<1>1. /\ pc[r] = "read" /\ call[r].op = "update"
      /\ UNCHANGED <<tickets, deps, now, call, target>>
  BY DEF UpdateRead, At, db
<1>2. IsPatch(patch)
  BY <1>1, CallOK DEF IsCall
<1>3. UpdateVerdict(t, patch) = "accepted"
      /\ Hold(r, "reload", row, IF Closes(patch) THEN Blockers(t) ELSE {})
  <2>1. CASE Answer(r, UpdateVerdict(t, patch)) /\ UpdateVerdict(t, patch) # "accepted"
    <3>1. pc'[r] \in Answers
      BY <2>1, AnswerFacts, Zenon DEF UpdateVerdict, Answers
    <3> QED
      BY <3>1 DEF Answers
  <2> QED
    BY <2>1 DEF UpdateRead
<1>4. /\ mem'[r] = row
      /\ blocked'[r] = IF Closes(patch) THEN Blockers(t) ELSE {}
  BY <1>3, HoldFacts
<1>5. /\ Active(t) /\ ~IsDone(t) /\ ~IsStale(t, patch)
      /\ "status" \in DOMAIN patch =>
           IsStatusTransitionAllowed(tickets[t].status, patch.status)
      /\ Closes(patch) => ~HasUnresolvedBlocker(t)
  BY <1>3, AcceptedFacts
<1>6. /\ \A c \in Columns \ ((DOMAIN patch \ {"version"}) \cup {"isOverdue"}) :
           row[c] = tickets[t][c]
      /\ \A c \in DOMAIN patch \ {"version"} : row[c] = patch[c]
      /\ row.isOverdue = OverdueAfter(tickets[t], patch)
  BY <1>2, ColumnFacts DEF Patched, IsPatch, PatchFields
<1>7. /\ Own(r)' = tickets[t] /\ OwnBlockers(r)' = Blockers(t)
      /\ call'[r].patch = patch /\ call'[r].op = "update"
  BY <1>1 DEF Own, OwnBlockers, Blockers
<1> HIDE DEF row
<1>8. FreshUpdate(r)'
  <2>1. Closes(patch)' <=> Closes(patch)
    BY <1>1 DEF Closes
  <2>2. \A b \in Blockers(t) : tickets'[b] = tickets[b]
    BY <1>1
  <2>3. \A date : IsPast(date)' <=> IsPast(date)
    BY <1>1 DEF IsPast
  <2> QED
    BY <1>1, <1>4, <1>5, <1>6, <1>7, <2>1, <2>2, <2>3
       DEF FreshUpdate, Active, IsDone, IsStale, HasUnresolvedBlocker, Closes,
           DiffersIn, OverdueAfter
<1> QED
  BY <1>7, <1>8 DEF Fresh, FreshEntity

\* The other handlers, at their reads.
LEMMA OtherReadsFresh ==
  ASSUME IInv, NEW r \in Requests, pc'[r] \in {"blocker", "reload"},
         \/ RemoveRead(r) \/ RestoreRead(r)
         \/ AddDependencyRead(r) \/ RemoveDependencyRead(r)
  PROVE  Fresh(r)'
<1> DEFINE t == target[r]
<1>1. /\ UNCHANGED <<tickets, deps, now, call, target>> /\ pc[r] = "read"
      /\ Own(r)' = tickets[t] /\ OwnBlockers(r)' = Blockers(t)
  BY DEF RemoveRead, RestoreRead, AddDependencyRead, RemoveDependencyRead, At,
         db, Own, OwnBlockers, Blockers
<1>2. ASSUME Answer(r, "400") \/ Answer(r, "404") PROVE FALSE
  BY <1>2, AnswerFacts
<1>3. now # NoDate
  BY DEF IInv, TypeOK, NoDate
<1>4. CASE RemoveRead(r)
  <2>1. /\ Active(t) /\ ~IsDone(t) /\ call[r].op = "remove"
        /\ Hold(r, "reload",
                [tickets[t] EXCEPT !.isDeleted = TRUE, !.deletedAt = now], {})
    BY <1>2, <1>4 DEF RemoveRead, At
  <2>2. /\ pc'[r] = "reload"
        /\ mem'[r] = [tickets[t] EXCEPT !.isDeleted = TRUE, !.deletedAt = now]
    BY <2>1, HoldFacts
  <2>3. /\ mem'[r].isDeleted /\ mem'[r].deletedAt = now
        /\ \A c \in Columns \ {"isDeleted", "deletedAt"} :
             mem'[r][c] = tickets[t][c]
    BY <2>1, <2>2, RowFacts, ColumnFacts DEF Active
  <2> QED
    BY <1>1, <1>3, <2>1, <2>2, <2>3
       DEF Fresh, FreshEntity, FreshRemove, DiffersIn, Active, IsDone
<1>5. CASE RestoreRead(r)
  <2>1. /\ t \in DOMAIN tickets /\ tickets[t].isDeleted /\ call[r].op = "restore"
        /\ Hold(r, "reload", Restored(tickets[t]), {})
    BY <1>2, <1>5 DEF RestoreRead, At
  <2>2. pc'[r] = "reload" /\ mem'[r] = Restored(tickets[t])
    BY <2>1, HoldFacts
  <2>3. /\ ~mem'[r].isDeleted /\ mem'[r].deletedAt = NoDate
        /\ \A c \in Columns \ {"isDeleted", "deletedAt"} :
             mem'[r][c] = tickets[t][c]
    <3>1. DOMAIN tickets[t] = Columns
      BY <2>1, RowFacts
    <3> QED
      BY <2>2, <3>1, ColumnFacts DEF Restored
  <2> QED
    BY <1>1, <2>1, <2>2, <2>3 DEF Fresh, FreshEntity, FreshRestore, DiffersIn
<1>6. CASE AddDependencyRead(r)
  <2>1. /\ Active(t) /\ call[r].op = "addDependency"
        /\ Hold(r, "blocker", tickets[t], Blockers(t))
    BY <1>2, <1>6 DEF AddDependencyRead, At
  <2>2. /\ pc'[r] = "blocker" /\ mem'[r] = tickets[t]
        /\ blocked'[r] = Blockers(t)
    BY <2>1, HoldFacts
  <2> QED
    BY <1>1, <2>1, <2>2 DEF Fresh, FreshEntity, FreshDependency, DiffersIn, Active
<1>7. CASE RemoveDependencyRead(r)
  <2>1. /\ Active(t) /\ call[r].op = "removeDependency"
        /\ Hold(r, "reload", tickets[t], Without(Blockers(t), call[r].blockedBy))
    BY <1>2, <1>7 DEF RemoveDependencyRead, At
  <2>2. /\ pc'[r] = "reload" /\ mem'[r] = tickets[t]
        /\ blocked'[r] = Blockers(t) \ {call[r].blockedBy}
    BY <2>1, HoldFacts DEF Without
  <2> QED
    BY <1>1, <2>1, <2>2 DEF Fresh, FreshEntity, FreshDependency, DiffersIn, Active
<1> QED
  BY <1>4, <1>5, <1>6, <1>7

LEMMA ReadBlockerFresh ==
  ASSUME IInv, NEW r \in Requests, Fresh(r), AddDependencyReadBlocker(r),
         pc'[r] = "reload"
  PROVE  Fresh(r)'
<1> DEFINE b == call[r].blockedBy
<1>1. /\ pc[r] = "blocker" /\ call[r].op = "addDependency"
      /\ UNCHANGED <<tickets, deps, call, target>>
      /\ Own(r)' = Own(r) /\ OwnBlockers(r)' = OwnBlockers(r)
  BY DEF AddDependencyReadBlocker, At, db, Own, OwnBlockers, Blockers
<1>2. ASSUME Answer(r, "400") \/ Answer(r, "404") PROVE FALSE
  BY <1>2, AnswerFacts
<1>3. Active(b) /\ Hold(r, "reload", mem[r], blocked[r] \cup {b})
  BY <1>2 DEF AddDependencyReadBlocker
<1>4. mem'[r] = mem[r] /\ blocked'[r] = blocked[r] \cup {b}
  BY <1>3, HoldFacts
<1>5. FreshDependency(r)
  BY <1>1 DEF Fresh, FreshEntity
<1> QED
  BY <1>1, <1>3, <1>4, <1>5
     DEF Fresh, FreshEntity, FreshDependency, DiffersIn, Active

LEMMA ReloadFresh ==
  ASSUME IInv, NEW r \in Requests, Fresh(r), Reload(r), pc'[r] = "write"
  PROVE  Fresh(r)'
<1> DEFINE t == target[r]
           columns == Changed(mem[r], tickets[t])
           ins == IF LoadsBlockedBy(call[r])
                  THEN JoinInserts(blocked[r], Blockers(t)) ELSE {}
           del == IF LoadsBlockedBy(call[r])
                  THEN JoinDeletes(blocked[r], Blockers(t)) ELSE {}
<1>1. /\ pc[r] = "reload" /\ UNCHANGED <<tickets, deps, now, call, target>>
      /\ Own(r)' = Own(r) /\ OwnBlockers(r)' = OwnBlockers(r)
  BY DEF Reload, db, Own, OwnBlockers, Blockers
<1>2. ~AfterSave(r)
  BY AnswerFacts DEF AfterSave, Goto, IInv, TypeOK
<1>3. /\ plan' = [plan EXCEPT ![r] =
                    [columns |-> columns, ins |-> ins, del |-> del]]
      /\ UNCHANGED entityVars
  BY <1>2 DEF Reload
<1>4. DOMAIN Own(r) = Columns
  BY <1>1, SavingFacts
<1>5. /\ columns = {c \in Columns : mem[r][c] # Own(r)[c]}
      /\ ins = IF LoadsBlockedBy(call[r]) THEN blocked[r] \ OwnBlockers(r) ELSE {}
      /\ del = IF LoadsBlockedBy(call[r]) THEN OwnBlockers(r) \ blocked[r] ELSE {}
  BY <1>4 DEF Changed, JoinInserts, JoinDeletes, Own, OwnBlockers
<1> HIDE DEF columns, ins, del
<1>6. plan'[r] = [columns |-> columns, ins |-> ins, del |-> del]
  BY <1>3 DEF IInv, TypeOK
<1>7. mem'[r] = mem[r] /\ blocked'[r] = blocked[r] /\ call'[r] = call[r]
  BY <1>1, <1>3 DEF entityVars
<1>8. FreshPlan(r)'
  <2>1. LoadsBlockedBy(call[r])' <=> LoadsBlockedBy(call[r])
    BY <1>7 DEF LoadsBlockedBy, Closes
  <2>2. /\ plan'[r].columns = columns /\ plan'[r].ins = ins
        /\ plan'[r].del = del
    BY <1>6
  <2> QED
    BY <1>1, <1>5, <1>7, <2>1, <2>2 DEF FreshPlan
<1>9. FreshEntity(r)'
  <2>1. FreshEntity(r)
    BY <1>1 DEF Fresh
  <2>2. \A date : IsPast(date)' <=> IsPast(date)
    BY <1>1 DEF IsPast
  <2> QED
    BY <1>1, <1>7, <2>1, <2>2
       DEF FreshEntity, FreshUpdate, FreshRemove, FreshRestore, FreshDependency,
           DiffersIn, Closes
<1> QED
  BY <1>8, <1>9 DEF Fresh

\* A handler's own step: the entity it takes up is fresh, and stays so.
LEMMA OwnFresh ==
  ASSUME IInv, IsoInv, NEW r \in Requests, Moves(r)
  PROVE  Fresh(r)'
<1> SUFFICES ASSUME pc'[r] \in {"blocker", "reload", "write"} PROVE Fresh(r)'
  BY DEF Fresh
<1>1. Fresh(r)
  BY DEF IsoInv
<1>2. ASSUME NEW code \in Answers, Answer(r, code) PROVE FALSE
  BY <1>2, AnswerFacts DEF Answers
<1>3. ASSUME NEW label, Goto(r, label) PROVE pc'[r] = label
  BY <1>3 DEF Goto, IInv, TypeOK
<1>4. ~Begin(r) /\ ~Assign(r) /\ ~Insert(r)
  BY <1>3, HoldFacts DEF Begin, Assign, Insert
<1>5. ~Write(r) /\ ~WriteDuplicate(r) /\ ~Log(r) /\ ~LogAssign(r)
      /\ ~DatabaseError(r)
  BY <1>2, <1>3
     DEF Write, AfterSave, WriteDuplicate, Log, LogAssign, DatabaseError, Answers
<1>6. CASE UpdateRead(r)
  <2>1. pc'[r] = "reload"
    <3>1. CASE Answer(r, UpdateVerdict(target[r], call[r].patch))
      <4>1. UpdateVerdict(target[r], call[r].patch) \in Answers \cup {"accepted"}
        BY Zenon DEF UpdateVerdict, Answers
      <4> QED
        BY <3>1, <4>1, AnswerFacts DEF Answers
    <3> QED
      BY <1>6, <3>1, HoldFacts DEF UpdateRead
  <2> QED
    BY <1>6, <2>1, UpdateReadFresh
<1>7. CASE \/ RemoveRead(r) \/ RestoreRead(r)
           \/ AddDependencyRead(r) \/ RemoveDependencyRead(r)
  <2>1. pc'[r] \in {"blocker", "reload"}
    BY <1>2, <1>7, HoldFacts
       DEF RemoveRead, RestoreRead, AddDependencyRead, RemoveDependencyRead, Answers
  <2> QED
    BY <1>7, <2>1, OtherReadsFresh
<1>8. CASE AddDependencyReadBlocker(r)
  <2>1. pc'[r] = "reload"
    BY <1>2, <1>8, HoldFacts DEF AddDependencyReadBlocker, Answers
  <2> QED
    BY <1>1, <1>8, <2>1, ReadBlockerFresh
<1>9. CASE Reload(r)
  <2>1. pc'[r] = "write"
    BY <1>2, <1>3, <1>9 DEF Reload, AfterSave, Answers
  <2> QED
    BY <1>1, <1>9, <2>1, ReloadFresh
<1> QED
  BY <1>4, <1>5, <1>6, <1>7, <1>8, <1>9 DEF Moves, Step

\* A step takes no ticket that another request is about to save.
LEMMA SavingFrame ==
  ASSUME IInv, NEW r \in Requests, Moves(r), pc'[r] \in Saving
  PROVE  \/ Begin(r) /\ pc'[r] = "read"
         \/ pc[r] \in Saving /\ target' = target /\ call' = call
<1>1. CASE Begin(r)
  <2>1. \/ Goto(r, "assign") \/ Goto(r, "read")
        \/ \E row : Hold(r, "insert", row, {})
    BY <1>1 DEF Begin
  <2>2. pc'[r] \in {"assign", "read", "insert"}
    BY <2>1 DEF Hold, Goto, IInv, TypeOK
  <2> QED
    BY <1>1, <2>2 DEF Saving
<1>2. CASE Assign(r)
  BY <1>2, HoldFacts DEF Assign, Saving
<1>3. CASE Insert(r)
  BY <1>3 DEF Insert, Goto, Saving, IInv, TypeOK
<1>4. CASE Log(r) \/ LogAssign(r)
  BY <1>4, AnswerFacts DEF Log, LogAssign, Goto, Saving, IInv, TypeOK
<1>5. CASE DatabaseError(r)
  BY <1>5, AnswerFacts DEF DatabaseError, Saving
<1>6. CASE \/ UpdateRead(r) \/ RemoveRead(r) \/ RestoreRead(r)
           \/ AddDependencyRead(r) \/ AddDependencyReadBlocker(r)
           \/ RemoveDependencyRead(r)
           \/ Reload(r) \/ Write(r) \/ WriteDuplicate(r)
  BY <1>6
     DEF UpdateRead, RemoveRead, RestoreRead, AddDependencyRead,
         AddDependencyReadBlocker, RemoveDependencyRead, Reload, Write,
         WriteDuplicate, At, Saving
<1> QED
  BY <1>1, <1>2, <1>3, <1>4, <1>5, <1>6 DEF Moves, Step

LEMMA ExclusiveKept ==
  ASSUME Isolated, IInv, IsoInv, NEW q \in Requests, Moves(q)
  PROVE  Exclusive'
<1> SUFFICES ASSUME NEW r \in Requests, q # r,
                    pc'[q] \in Saving, pc'[r] \in Saving
             PROVE  target'[q] # target'[r]
  <2>1. \A r, s \in Requests \ {q} :
          /\ pc'[r] = pc[r] /\ target'[r] = target[r]
          /\ pc'[s] = pc[s] /\ target'[s] = target[s]
    BY OthersKept
  <2> QED
    BY <2>1 DEF IsoInv, Exclusive
<1>1. pc'[r] = pc[r] /\ target'[r] = target[r]
  BY OthersKept
<1>2. CASE Begin(q) /\ pc'[q] = "read"
  <2>1. PICK c \in Calls :
          /\ Isolated => \A s \in InFlight : target[s] # c.id
          /\ target' = [target EXCEPT ![q] = c.id]
    BY <1>2, HoldFacts DEF Begin, Goto, IInv, TypeOK
  <2>2. r \in InFlight
    BY <1>1 DEF InFlight, InFlightPcs, Saving
  <2> QED
    BY <1>1, <2>1, <2>2 DEF IInv, TypeOK
<1>3. CASE pc[q] \in Saving /\ target' = target
  BY <1>1, <1>3 DEF IsoInv, Exclusive
<1> QED
  BY <1>2, <1>3, SavingFrame

LEMMA NewKept ==
  ASSUME IInv, IsoInv, NEW q \in Requests, NEW r \in Requests, Moves(q)
  PROVE  FreshNew(r)'
<1> SUFFICES ASSUME pc'[r] = "insert" PROVE FreshNew(r)'
  BY DEF FreshNew
<1>1. now' = now
  BY DEF Moves, Step, Begin, Assign, Insert, UpdateRead, RemoveRead,
         RestoreRead, AddDependencyRead, AddDependencyReadBlocker,
         RemoveDependencyRead, Reload, Write, WriteDuplicate, Log, LogAssign,
         DatabaseError
<1>2. CASE q # r
  BY <1>1, <1>2, OthersKept DEF IsoInv, FreshNew, IsPast
<1>3. ASSUME NEW draft, NEW assignee, NEW blockers, q = r,
             Hold(q, "insert", NewTicket(draft, assignee), blockers)
      PROVE  FreshNew(r)'
  <2>1. mem'[r] = NewTicket(draft, assignee)
    BY <1>3, HoldFacts
  <2>2. /\ ~NewTicket(draft, assignee).isDeleted
        /\ NewTicket(draft, assignee).deletedAt = NoDate
        /\ NewTicket(draft, assignee).isOverdue = IsPast(draft.dueDate)
        /\ NewTicket(draft, assignee).dueDate = draft.dueDate
    BY DEF NewTicket
  <2> QED
    BY <1>1, <2>1, <2>2 DEF FreshNew, IsPast
<1>4. CASE q = r /\ Begin(q)
  <2>1. \/ Goto(q, "assign") \/ Goto(q, "read")
        \/ \E draft, assignee :
             Hold(q, "insert", NewTicket(draft, assignee), {})
    BY <1>4 DEF Begin
  <2>2. ~Goto(q, "assign") /\ ~Goto(q, "read")
    BY <1>4 DEF Goto, IInv, TypeOK
  <2> QED
    BY <1>3, <1>4, <2>1, <2>2
<1>5. CASE q = r /\ Assign(q)
  BY <1>3, <1>5 DEF Assign
<1>6. CASE q = r /\ ~Begin(q) /\ ~Assign(q)
  <2>1. ASSUME NEW code, Answer(q, code), code # "insert" PROVE FALSE
    BY <1>6, <2>1, AnswerFacts
  <2>2. ASSUME NEW label, Goto(q, label), label # "insert" PROVE FALSE
    BY <1>6, <2>2 DEF Goto, IInv, TypeOK
  <2>3. ASSUME NEW label, NEW row, NEW blockers, label # "insert",
               Hold(q, label, row, blockers)
        PROVE  FALSE
    BY <1>6, <2>3, HoldFacts
  <2>4. ~UpdateRead(q)
    <3>1. UpdateVerdict(target[q], call[q].patch) # "insert"
      BY Zenon DEF UpdateVerdict
    <3> QED
      BY <2>1, <2>3, <3>1 DEF UpdateRead
  <2>5. ~RemoveRead(q) /\ ~RestoreRead(q) /\ ~AddDependencyRead(q)
        /\ ~AddDependencyReadBlocker(q) /\ ~RemoveDependencyRead(q)
    BY <2>1, <2>3
       DEF RemoveRead, RestoreRead, AddDependencyRead, AddDependencyReadBlocker,
           RemoveDependencyRead
  <2>6. ~Insert(q) /\ ~Reload(q) /\ ~Write(q) /\ ~WriteDuplicate(q)
        /\ ~Log(q) /\ ~LogAssign(q) /\ ~DatabaseError(q)
    BY <2>1, <2>2 DEF Insert, Reload, Write, AfterSave, WriteDuplicate, Log,
                      LogAssign, DatabaseError
  <2> QED
    BY <1>6, <2>4, <2>5, <2>6 DEF Moves, Step
<1> QED
  BY <1>2, <1>4, <1>5, <1>6

LEMMA OnCalledTicketKept ==
  ASSUME IInv, IsoInv, NEW q \in Requests, Moves(q)
  PROVE  OnCalledTicket'
<1> SUFFICES ASSUME NEW r \in Requests, pc'[r] \in Saving
             PROVE  target'[r] = call'[r].id /\ call'[r].op # "create"
  BY DEF OnCalledTicket
<1>1. CASE r # q
  BY <1>1, OthersKept DEF IsoInv, OnCalledTicket
<1>2. CASE r = q /\ Begin(q) /\ pc'[q] = "read"
  <2>1. PICK c \in Calls :
          /\ call' = [call EXCEPT ![q] = c]
          /\ \/ Goto(q, "assign")
             \/ \E row : Hold(q, "insert", row, {})
             \/ c.op # "create" /\ target' = [target EXCEPT ![q] = c.id]
    BY <1>2 DEF Begin
  <2>2. c.op # "create" /\ target' = [target EXCEPT ![q] = c.id]
    BY <1>2, <2>1 DEF Hold, Goto, IInv, TypeOK
  <2> QED
    BY <1>2, <2>1, <2>2 DEF IInv, TypeOK
<1>3. CASE r = q /\ pc[q] \in Saving /\ target' = target /\ call' = call
  BY <1>3 DEF IsoInv, OnCalledTicket
<1> QED
  BY <1>1, <1>2, <1>3, SavingFrame

LEMMA CrashTickIso ==
  ASSUME IInv, IsoInv, Crash \/ Tick \/ UNCHANGED vars
  PROVE  IsoInv'
<1>1. CASE Crash
  BY <1>1 DEF Crash, InFlight, InFlightPcs, IsoInv, Exclusive, OnCalledTicket,
              Saving, Fresh, FreshNew, IInv, TypeOK
<1>2. CASE Tick \/ UNCHANGED vars
  <2>1. /\ UNCHANGED <<tickets, deps, pc, call, target, mem, blocked, plan>>
        /\ now' \in {now, now + 1} /\ now \in Nat
    BY <1>2 DEF Tick, vars, db, entityVars, IInv, TypeOK
  <2>2. \A date \in Dates : IsPast(date) => IsPast(date)'
    BY <2>1, TicketsAssumption DEF IsPast, Dates, NoDate
  <2>3. ASSUME NEW r \in Requests PROVE Fresh(r)'
    <3>1. Own(r)' = Own(r) /\ OwnBlockers(r)' = OwnBlockers(r)
      BY <2>1 DEF Own, OwnBlockers, Blockers
    <3>2. Fresh(r)
      BY DEF IsoInv
    <3>3. CASE pc[r] \in {"blocker", "reload", "write"}
      BY <2>1, <2>2, <3>1, <3>2, <3>3, FreshStable
    <3>4. CASE pc[r] \notin {"blocker", "reload", "write"}
      BY <2>1, <3>4 DEF Fresh
    <3> QED
      BY <3>3, <3>4
  <2>4. ASSUME NEW r \in Requests PROVE FreshNew(r)'
    <3>1. mem[r].dueDate \in Dates \/ pc[r] # "insert"
      BY ColumnFacts DEF IInv, TypeOK, HoldsEntity, IsRow
    <3> QED
      BY <2>1, <2>2, <3>1 DEF IsoInv, FreshNew
  <2> QED
    BY <2>1, <2>3, <2>4 DEF IsoInv, Exclusive, OnCalledTicket
<1> QED
  BY <1>1, <1>2

LEMMA IsoKept == ASSUME Isolated PROVE IInv /\ IsoInv /\ [Next]_vars => IsoInv'
<1> SUFFICES ASSUME IInv, IsoInv, [Next]_vars PROVE IsoInv'
  OBVIOUS
<1>1. ASSUME NEW q \in Requests, Moves(q) PROVE IsoInv'
  BY <1>1, ExclusiveKept, OnCalledTicketKept, NewKept, OwnFresh, OthersFresh
     DEF IsoInv
<1> QED
  BY <1>1, CrashTickIso DEF Next, Moves

\* While no two requests work on one ticket, the entity every handler holds
\* between its read and its commit is the row it will overwrite, changed only
\* as the call asks, and the checks it made at the read still hold: no other
\* request, on a blocker or elsewhere, and no tick can make them stale.
THEOREM EntitiesStayFresh == ASSUME Isolated PROVE Spec => [](IInv /\ IsoInv)
<1>1. Init => IsoInv
  BY DEF Init, IsoInv, Exclusive, OnCalledTicket, Fresh, FreshNew, Saving
<1>2. IInv /\ IsoInv /\ [Next]_vars => IsoInv'
  BY IsoKept
<1> QED
  BY <1>1, <1>2, InitIInv, NextKeeps, PTL DEF Spec

-----------------------------------------------------------------------------
(* What a commit may do.                                                   *)

LEMMA Stuttering ==
  ASSUME Crash \/ Tick \/ UNCHANGED vars
  PROVE  UNCHANGED db /\ UNCHANGED target
BY DEF Crash, Tick, vars, db

\* A row that changes, or whose blockers change, is the row of a commit.
LEMMA ChangeIsCommit ==
  ASSUME IInv, [Next]_vars, NEW t \in DOMAIN tickets,
         tickets'[t] # tickets[t] \/ Blockers(t)' # Blockers(t)
  PROVE  \E q \in Requests : Moves(q) /\ Write(q) /\ t = target[q]
<1>1. ~(Crash \/ Tick \/ UNCHANGED vars)
  BY Stuttering DEF db, Blockers
<1>2. PICK q \in Requests : Moves(q)
  BY <1>1 DEF Next, Moves
<1> QED
  BY <1>2, RowFrame

LEMMA DoneKept ==
  ASSUME IInv, IsoInv, [Next]_vars, NEW t \in DOMAIN tickets,
         tickets[t].status = "DONE"
  PROVE  \A c \in Columns \ {"isDeleted", "deletedAt", "version"} :
           tickets'[t][c] = tickets[t][c]
<1>1. CASE Crash \/ Tick \/ UNCHANGED vars
  BY <1>1, Stuttering DEF db
<1>2. ASSUME NEW q \in Requests, Moves(q)
      PROVE  \A c \in Columns \ {"isDeleted", "deletedAt", "version"} :
               tickets'[t][c] = tickets[t][c]
  BY <1>2, DoneStays DEF IsoInv
<1> QED
  BY <1>1, <1>2 DEF Next, Moves

\* Only an update that asks for it closes a ticket.
LEMMA ClosingCommit ==
  ASSUME IInv, NEW q \in Requests, Fresh(q), Write(q),
         Own(q).status # "DONE", Own(q)'.status = "DONE"
  PROVE  /\ call[q].op = "update" /\ Closes(call[q].patch)
         /\ \A b \in OwnBlockers(q) : tickets[b].status = "DONE"
<1>1. mem[q].status = "DONE"
  BY WriteEffect, ColumnFacts
<1>2. FreshEntity(q) /\ IsCall(call[q])
  BY WriteEffect, SavingFacts
<1>3. call[q].op = "update" /\ FreshUpdate(q)
  BY <1>1, <1>2, ColumnFacts
     DEF FreshEntity, FreshRemove, FreshRestore, FreshDependency, DiffersIn
<1>4. Closes(call[q].patch)
  BY <1>1, <1>3, ColumnFacts DEF FreshUpdate, DiffersIn, Closes
<1> QED
  BY <1>3, <1>4 DEF FreshUpdate

LEMMA ClosesGuarded ==
  ASSUME IInv, IsoInv, [Next]_vars, NEW t \in DOMAIN tickets,
         tickets[t].status # "DONE", tickets'[t].status = "DONE"
  PROVE  \A b \in Blockers(t) : tickets'[b].status = "DONE"
<1>1. PICK q \in Requests : Moves(q) /\ Write(q) /\ t = target[q]
  BY ChangeIsCommit
<1>2. Fresh(q)
  BY DEF IsoInv
<1>3. Own(q)' = tickets'[t] /\ Own(q) = tickets[t] /\ OwnBlockers(q) = Blockers(t)
  BY <1>1, <1>2, WriteEffect DEF Own, OwnBlockers
<1>4. \A b \in Blockers(t) : tickets[b].status = "DONE"
  BY <1>1, <1>2, <1>3, ClosingCommit
<1>5. Blockers(t) \subseteq DOMAIN tickets
  BY DEF Blockers
<1> QED
  BY <1>4, <1>5, DoneKept, ColumnFacts

\* What a commit finds to insert into and delete from the join table.
LEMMA PlannedJoins ==
  ASSUME IInv, NEW r \in Requests, FreshEntity(r), FreshPlan(r), pc[r] = "write"
  PROVE  /\ plan[r].ins # {} =>
              /\ call[r].op = "addDependency"
              /\ plan[r].ins \subseteq {call[r].blockedBy}
         /\ plan[r].del # {} =>
              /\ call[r].op = "removeDependency"
              /\ plan[r].del \subseteq {call[r].blockedBy}
<1>1. CASE call[r].op = "update"
  BY <1>1 DEF FreshEntity, FreshUpdate, FreshPlan, LoadsBlockedBy
<1>2. CASE call[r].op \in {"remove", "restore"}
  BY <1>2 DEF FreshPlan, LoadsBlockedBy
<1>3. CASE call[r].op = "addDependency"
  BY <1>3 DEF FreshEntity, FreshDependency, FreshPlan
<1>4. CASE call[r].op = "removeDependency"
  BY <1>4 DEF FreshEntity, FreshDependency, FreshPlan
<1> QED
  BY <1>1, <1>2, <1>3, <1>4 DEF FreshEntity

\* ensureNotDone(): a ticket that is DONE keeps every column but those of its
\* soft deletion, although the check is made two round trips before the save.
THEOREM DoneIsFrozen == ASSUME Isolated PROVE Spec => DoneFrozen
<1>1. IInv /\ IsoInv /\ [Next]_vars =>
        [\A t \in DOMAIN tickets : tickets[t].status = "DONE" =>
           \A c \in Columns \ {"isDeleted", "deletedAt", "version"} :
             tickets'[t][c] = tickets[t][c]]_vars
  BY DoneKept
<1> QED
  BY <1>1, EntitiesStayFresh, PTL DEF Spec, DoneFrozen

\* A ticket is closed only while all its blockers are DONE, although their
\* own requests run freely between the check and the save.
THEOREM ClosingIsGuarded == ASSUME Isolated PROVE Spec => CloseGuard
<1>1. IInv /\ IsoInv /\ [Next]_vars =>
        [\A t \in DOMAIN tickets :
           tickets[t].status # "DONE" /\ tickets'[t].status = "DONE" =>
             \A b \in Blockers(t) : tickets'[b].status = "DONE"]_vars
  BY ClosesGuarded
<1> QED
  BY <1>1, EntitiesStayFresh, PTL DEF Spec, CloseGuard

-----------------------------------------------------------------------------
(* Soft deletion and the overdue flag.                                     *)

\* The tables the server starts on have both in order, at time 0.
CleanSeeds ==
  \A seed \in Seeds : \A t \in DOMAIN seed.tickets :
    /\ seed.tickets[t].isDeleted <=> seed.tickets[t].deletedAt # NoDate
    /\ ~seed.tickets[t].isOverdue

RowInOrder(row) ==
  /\ row.isDeleted <=> row.deletedAt # NoDate
  /\ row.isOverdue => IsPast(row.dueDate)

RowsInv == \A t \in DOMAIN tickets : RowInOrder(tickets[t])

\* A commit leaves the row in order.
LEMMA CommitInOrder ==
  ASSUME IInv, IsoInv, NEW r \in Requests, Write(r), RowInOrder(Own(r))
  PROVE  RowInOrder(Own(r)')
<1>1. FreshEntity(r) /\ IsCall(call[r])
  BY WriteEffect, SavingFacts DEF IsoInv
<1>2. /\ Own(r)'.isDeleted = mem[r].isDeleted
      /\ Own(r)'.deletedAt = mem[r].deletedAt
      /\ Own(r)'.isOverdue = mem[r].isOverdue
      /\ Own(r)'.dueDate = mem[r].dueDate
  BY WriteEffect, ColumnFacts DEF IsoInv
<1>3. CASE call[r].op = "update"
  <2>1. FreshUpdate(r) /\ IsPatch(call[r].patch)
    BY <1>1, <1>3 DEF FreshEntity, IsCall
  <2>2. /\ mem[r].isDeleted = Own(r).isDeleted
        /\ mem[r].deletedAt = Own(r).deletedAt
        /\ "dueDate" \in DOMAIN call[r].patch =>
             mem[r].dueDate = call[r].patch.dueDate
        /\ "dueDate" \notin DOMAIN call[r].patch =>
             mem[r].dueDate = Own(r).dueDate
    BY <2>1, ColumnFacts DEF FreshUpdate, DiffersIn, IsPatch, PatchFields
  <2> QED
    BY <1>2, <2>1, <2>2 DEF FreshUpdate, RowInOrder
<1>4. CASE call[r].op # "update"
  BY <1>1, <1>2, <1>4, ColumnFacts
     DEF FreshEntity, FreshRemove, FreshRestore, FreshDependency, DiffersIn,
         RowInOrder
<1> QED
  BY <1>3, <1>4

LEMMA RowsKept ==
  ASSUME IInv, IsoInv, RowsInv, [Next]_vars
  PROVE  RowsInv'
<1>1. CASE Crash \/ Tick \/ UNCHANGED vars
  <2>1. UNCHANGED tickets /\ now' \in {now, now + 1} /\ now \in Nat
    BY <1>1 DEF Crash, Tick, vars, db, IInv, TypeOK
  <2>2. \A t \in DOMAIN tickets : tickets[t].dueDate \in Dates
    BY RowFacts, ColumnFacts
  <2>3. \A date \in Dates : IsPast(date) => IsPast(date)'
    BY <2>1, TicketsAssumption DEF IsPast, Dates, NoDate
  <2> QED
    BY <2>1, <2>2, <2>3 DEF RowsInv, RowInOrder
<1>2. ASSUME NEW q \in Requests, Moves(q), NEW t \in DOMAIN tickets'
      PROVE  RowInOrder(tickets[t])'
  <2>0. now' = now
    BY <1>2 DEF Moves, Step, Begin, Assign, Insert, UpdateRead, RemoveRead,
                RestoreRead, AddDependencyRead, AddDependencyReadBlocker,
                RemoveDependencyRead, Reload, Write, WriteDuplicate, Log,
                LogAssign, DatabaseError
  <2> SUFFICES RowInOrder(tickets'[t])
    BY <2>0 DEF RowInOrder, IsPast
  <2>1. CASE t \in DOMAIN tickets /\ ~(Write(q) /\ t = target[q])
    BY <1>2, <2>1, RowFrame DEF RowsInv
  <2>2. CASE Write(q) /\ t = target[q]
    <3>1. Fresh(q)
      BY DEF IsoInv
    <3>2. t \in DOMAIN tickets /\ Own(q) = tickets[t] /\ Own(q)' = tickets'[t]
      BY <2>2, <3>1, WriteEffect DEF Own
    <3> QED
      BY <2>2, <3>2, CommitInOrder DEF RowsInv
  <2>3. CASE t \notin DOMAIN tickets
    <3>1. Insert(q)
      <4>1. ~Write(q)
        BY <2>3, WriteEffect DEF IsoInv
      <4> QED
        BY <1>2, <2>3, <4>1
           DEF Moves, Step, Begin, Assign, UpdateRead, RemoveRead, RestoreRead,
               AddDependencyRead, AddDependencyReadBlocker,
               RemoveDependencyRead, Reload, WriteDuplicate, Log, LogAssign,
               DatabaseError, db
    <3>2. pc[q] = "insert" /\ tickets'[t] = mem[q]
      BY <1>2, <2>3, <3>1 DEF Insert, At
    <3> QED
      BY <3>2 DEF IsoInv, FreshNew, RowInOrder
  <2> QED
    BY <2>1, <2>2, <2>3
<1> QED
  BY <1>1, <1>2 DEF RowsInv, Next, Moves

THEOREM RowsStayInOrder == ASSUME Isolated, CleanSeeds PROVE Spec => []RowsInv
<1>1. Init => RowsInv
  BY DEF Init, CleanSeeds, RowsInv, RowInOrder
<1>2. IInv /\ IsoInv /\ RowsInv /\ [Next]_vars => RowsInv'
  BY RowsKept
<1> QED
  BY <1>1, <1>2, EntitiesStayFresh, PTL DEF Spec

\* remove() and restore() keep isDeleted and deletedAt in step.
THEOREM DeletionIsMarked ==
  ASSUME Isolated, CleanSeeds PROVE Spec => []SoftDeleteMarker
<1>1. RowsInv => SoftDeleteMarker
  BY DEF RowsInv, RowInOrder, SoftDeleteMarker
<1> QED
  BY <1>1, RowsStayInOrder, PTL

\* A ticket is flagged overdue only when its due date is past, through all
\* changes of the date, of the priority, and of the clock.
THEOREM OverdueIsPast ==
  ASSUME Isolated, CleanSeeds PROVE Spec => []OverdueMeansPast
<1>1. RowsInv => OverdueMeansPast
  BY DEF RowsInv, RowInOrder, OverdueMeansPast
<1> QED
  BY <1>1, RowsStayInOrder, PTL

-----------------------------------------------------------------------------
(* The refinement of TicketLifecycle.                                      *)

LEMMA LifecycleInit == Init => Lifecycle!Init
<1> SUFFICES ASSUME Init PROVE Lifecycle!Init
  OBVIOUS
<1>1. TypeOK
  BY InitIInv DEF IInv
<1>2. \A t \in DOMAIN tickets : tickets[t].status \in Statuses
  BY <1>1, ColumnFacts DEF TypeOK, IsRow
<1> QED
  BY <1>1, <1>2
     DEF TypeOK, Statuses, Lifecycle!Init, Lifecycle!Opened, Lifecycle!Flow

\* A step that keeps status and deletion of every ticket, and the edges.
LEMMA LifecycleStutter ==
  ASSUME DOMAIN tickets' = DOMAIN tickets, deps' = deps,
         \A t \in DOMAIN tickets :
           /\ tickets'[t].status = tickets[t].status
           /\ tickets'[t].isDeleted <=> tickets[t].isDeleted
  PROVE  UNCHANGED Lifecycle!lifecycle
BY DEF Lifecycle!lifecycle

\* The rows that a commit does not write.
LEMMA CommitFrame ==
  ASSUME IInv, NEW q \in Requests, Fresh(q), Write(q),
         NEW t, t = target[q]
  PROVE  /\ t \in DOMAIN tickets /\ DOMAIN tickets' = DOMAIN tickets
         /\ \A u \in DOMAIN tickets \ {t} : tickets'[u] = tickets[u]
         /\ tickets'[t].status = mem[q].status
         /\ tickets'[t].isDeleted = mem[q].isDeleted
         /\ tickets[t].status \in Statuses /\ mem[q].status \in Statuses
         /\ tickets[t].isDeleted \in BOOLEAN /\ mem[q].isDeleted \in BOOLEAN
<1>1. IsRow(tickets[t]) /\ IsRow(mem[q])
  BY WriteEffect, SavingFacts DEF Own
<1> QED
  BY <1>1, WriteEffect, ColumnFacts DEF Own, IsRow

LEMMA UpdateRefines ==
  ASSUME IInv, IsoInv, NEW q \in Requests, Write(q), call[q].op = "update"
  PROVE  [Lifecycle!Next]_(Lifecycle!lifecycle)
<1>1. PICK t : t = target[q]
  OBVIOUS
<1>2. Fresh(q)
  BY DEF IsoInv
<1>3. /\ t \in DOMAIN tickets /\ DOMAIN tickets' = DOMAIN tickets
      /\ \A u \in DOMAIN tickets \ {t} : tickets'[u] = tickets[u]
      /\ tickets'[t].status = mem[q].status
      /\ tickets'[t].isDeleted = mem[q].isDeleted
      /\ tickets[t].status \in Statuses /\ mem[q].status \in Statuses
  BY <1>1, <1>2, CommitFrame
<1>4. FreshEntity(q) /\ FreshPlan(q) /\ FreshUpdate(q) /\ IsCall(call[q])
  BY <1>2, WriteEffect, SavingFacts DEF FreshEntity
<1>5. deps' = deps
  <2>1. plan[q].ins = {} /\ plan[q].del = {}
    BY <1>2, <1>4, WriteEffect, PlannedJoins
  <2> QED
    BY <1>2, <2>1, WriteEffect
<1>6. mem[q].isDeleted = tickets[t].isDeleted /\ ~tickets[t].isDeleted
  BY <1>1, <1>4, ColumnFacts
     DEF FreshUpdate, DiffersIn, IsCall, IsPatch, PatchFields, Own
<1>7. CASE mem[q].status = tickets[t].status
  BY <1>3, <1>5, <1>6, <1>7, LifecycleStutter
<1>8. CASE mem[q].status # tickets[t].status
  <2>1. IsStatusTransitionAllowed(tickets[t].status, mem[q].status)
    BY <1>1, <1>4, <1>8, ColumnFacts DEF FreshUpdate, DiffersIn, Own
  <2>2. /\ tickets[t].status \in {"TODO", "IN_PROGRESS", "IN_REVIEW"}
        /\ mem[q].status = Lifecycle!Flow[tickets[t].status]
    BY <1>3, <1>8, <2>1
       DEF IsStatusTransitionAllowed, Rank, Statuses, Lifecycle!Flow
  <2>3. mem[q].status = "DONE" =>
          \A b \in DOMAIN tickets : <<t, b>> \in deps => tickets[b].status = "DONE"
    <3>1. Own(q).status # "DONE"
      BY <1>4 DEF FreshUpdate
    <3>2. Own(q)'.status = mem[q].status
      BY <1>2, WriteEffect, ColumnFacts
    <3> QED
      BY <1>1, <1>2, <3>1, <3>2, ClosingCommit DEF OwnBlockers, Blockers
  <2>4. Lifecycle!Advance(t)
    <3>1. [u \in DOMAIN tickets |-> tickets[u].status]' =
            [[u \in DOMAIN tickets |-> tickets[u].status]
               EXCEPT ![t] = Lifecycle!Flow[@]]
      BY <1>3, <2>2
    <3>2. {u \in DOMAIN tickets : tickets[u].isDeleted}' =
            {u \in DOMAIN tickets : tickets[u].isDeleted}
      BY <1>3, <1>6
    <3> QED
      BY <1>3, <1>5, <1>6, <2>2, <2>3, <3>1, <3>2
         DEF Lifecycle!Advance, Lifecycle!Opened, Lifecycle!Flow
  <2>5. t \in TicketIds
    BY <1>3 DEF IInv, TypeOK
  <2> QED
    BY <2>4, <2>5 DEF Lifecycle!Next
<1> QED
  BY <1>7, <1>8

LEMMA DeletionRefines ==
  ASSUME IInv, IsoInv, NEW q \in Requests, Write(q),
         call[q].op \in {"remove", "restore"}
  PROVE  [Lifecycle!Next]_(Lifecycle!lifecycle)
<1>1. PICK t : t = target[q]
  OBVIOUS
<1>2. Fresh(q)
  BY DEF IsoInv
<1>3. /\ t \in DOMAIN tickets /\ DOMAIN tickets' = DOMAIN tickets
      /\ \A u \in DOMAIN tickets \ {t} : tickets'[u] = tickets[u]
      /\ tickets'[t].status = mem[q].status
      /\ tickets'[t].isDeleted = mem[q].isDeleted
  BY <1>1, <1>2, CommitFrame
<1>4. FreshEntity(q) /\ FreshPlan(q)
  BY <1>2, WriteEffect
<1>5. deps' = deps
  <2>1. plan[q].ins = {} /\ plan[q].del = {}
    BY <1>2, <1>4, WriteEffect, PlannedJoins
  <2> QED
    BY <1>2, <2>1, WriteEffect
<1>6. mem[q].status = tickets[t].status
  BY <1>1, <1>4, ColumnFacts
     DEF FreshEntity, FreshRemove, FreshRestore, DiffersIn, Own
<1>7. [u \in DOMAIN tickets |-> tickets[u].status]' =
        [u \in DOMAIN tickets |-> tickets[u].status]
  BY <1>3, <1>6
<1>8. t \in TicketIds
  BY <1>3 DEF IInv, TypeOK
<1>9. CASE call[q].op = "remove"
  <2>1. ~tickets[t].isDeleted /\ tickets[t].status # "DONE" /\ mem[q].isDeleted
    BY <1>1, <1>4, <1>9 DEF FreshEntity, FreshRemove, Own
  <2>2. {u \in DOMAIN tickets : tickets[u].isDeleted}' =
          {u \in DOMAIN tickets : tickets[u].isDeleted} \cup {t}
    BY <1>3, <2>1
  <2>3. Lifecycle!Delete(t)
    BY <1>3, <1>5, <1>7, <2>1, <2>2 DEF Lifecycle!Delete, Lifecycle!Opened
  <2> QED
    BY <1>8, <2>3 DEF Lifecycle!Next
<1>10. CASE call[q].op = "restore"
  <2>1. tickets[t].isDeleted /\ ~mem[q].isDeleted
    BY <1>1, <1>4, <1>10 DEF FreshEntity, FreshRestore, Own
  <2>2. {u \in DOMAIN tickets : tickets[u].isDeleted}' =
          {u \in DOMAIN tickets : tickets[u].isDeleted} \ {t}
    BY <1>3, <2>1
  <2>3. Lifecycle!Restore(t)
    BY <1>3, <1>5, <1>7, <2>1, <2>2 DEF Lifecycle!Restore
  <2> QED
    BY <1>8, <2>3 DEF Lifecycle!Next
<1> QED
  BY <1>9, <1>10

LEMMA DependencyRefines ==
  ASSUME IInv, IsoInv, NEW q \in Requests, Write(q),
         call[q].op \in {"addDependency", "removeDependency"}
  PROVE  [Lifecycle!Next]_(Lifecycle!lifecycle)
<1>1. PICK t, b : t = target[q] /\ b = call[q].blockedBy
  OBVIOUS
<1>2. Fresh(q)
  BY DEF IsoInv
<1>3. /\ t \in DOMAIN tickets /\ DOMAIN tickets' = DOMAIN tickets
      /\ \A u \in DOMAIN tickets \ {t} : tickets'[u] = tickets[u]
      /\ tickets'[t].status = mem[q].status
      /\ tickets'[t].isDeleted = mem[q].isDeleted
  BY <1>1, <1>2, CommitFrame
<1>4. /\ FreshDependency(q) /\ FreshPlan(q) /\ pc[q] = "write"
      /\ deps' = (deps \cup ({t} \X plan[q].ins)) \ ({t} \X plan[q].del)
      /\ IsCall(call[q])
  BY <1>1, <1>2, WriteEffect, SavingFacts DEF FreshEntity
<1>5. /\ mem[q].status = tickets[t].status
      /\ mem[q].isDeleted = tickets[t].isDeleted
      /\ ~tickets[t].isDeleted
  BY <1>1, <1>4, ColumnFacts DEF FreshDependency, DiffersIn, Own
<1>6. [u \in DOMAIN tickets |-> tickets[u].status]' =
        [u \in DOMAIN tickets |-> tickets[u].status]
  BY <1>3, <1>5
<1>7. {u \in DOMAIN tickets : tickets[u].isDeleted}' =
        {u \in DOMAIN tickets : tickets[u].isDeleted}
  BY <1>3, <1>5
<1>8. t \in TicketIds /\ b \in TicketIds
  BY <1>1, <1>3, <1>4 DEF IInv, TypeOK, IsCall
<1>9. OwnBlockers(q) = {u \in DOMAIN tickets : <<t, u>> \in deps}
  BY <1>1 DEF OwnBlockers, Blockers
<1>10. CASE call[q].op = "addDependency"
  <2>1. /\ b \in DOMAIN tickets /\ plan[q].del = {}
        /\ plan[q].ins = {b} \ OwnBlockers(q)
    BY <1>1, <1>4, <1>10 DEF FreshDependency, FreshPlan, LoadsBlockedBy
  <2>2. deps' = deps \cup {<<t, b>>}
    BY <1>4, <1>9, <2>1
  <2>3. Lifecycle!Block(t, b)
    BY <1>3, <1>5, <1>6, <1>7, <2>1, <2>2
       DEF Lifecycle!Block, Lifecycle!Opened
  <2> QED
    BY <1>8, <2>3 DEF Lifecycle!Next
<1>11. CASE call[q].op = "removeDependency"
  <2>1. plan[q].ins = {} /\ plan[q].del = {b} \cap OwnBlockers(q)
    BY <1>1, <1>4, <1>11 DEF FreshDependency, FreshPlan, LoadsBlockedBy
  <2>2. \A d \in deps : d[2] \in DOMAIN tickets /\ d = <<d[1], d[2]>>
    BY DEF IInv, TypeOK
  <2>3. deps' = deps \ {<<t, b>>}
    BY <1>4, <1>9, <2>1, <2>2
  <2>4. Lifecycle!Unblock(t, b)
    BY <1>3, <1>5, <1>6, <1>7, <2>3 DEF Lifecycle!Unblock, Lifecycle!Opened
  <2> QED
    BY <1>8, <2>4 DEF Lifecycle!Next
<1> QED
  BY <1>10, <1>11

LEMMA InsertRefines ==
  ASSUME IInv, IsoInv, NEW q \in Requests, Insert(q)
  PROVE  Lifecycle!Next
<1>1. PICK id \in TicketIds \ DOMAIN tickets :
        tickets' = [t \in DOMAIN tickets \cup {id} |->
                      IF t = id THEN mem[q] ELSE tickets[t]]
  BY DEF Insert
<1>2. /\ ~mem[q].isDeleted /\ mem[q].status \in Statuses /\ deps' = deps
  BY ColumnFacts
     DEF Insert, At, IsoInv, FreshNew, IInv, TypeOK, HoldsEntity, IsRow
<1>3. /\ DOMAIN tickets' = DOMAIN tickets \cup {id}
      /\ tickets'[id] = mem[q]
      /\ \A t \in DOMAIN tickets : tickets'[t] = tickets[t]
  BY <1>1
<1>4. {t \in DOMAIN tickets : tickets[t].isDeleted}' =
        {t \in DOMAIN tickets : tickets[t].isDeleted}
  BY <1>2, <1>3
<1>5. Lifecycle!Open(id)
  BY <1>1, <1>2, <1>3, <1>4
     DEF Lifecycle!Open, Lifecycle!Opened, Lifecycle!Flow, Statuses
<1> QED
  BY <1>1, <1>5 DEF Lifecycle!Next

LEMMA StepRefines ==
  ASSUME IInv, IsoInv, [Next]_vars
  PROVE  [Lifecycle!Next]_(Lifecycle!lifecycle)
<1>1. CASE UNCHANGED db
  BY <1>1, LifecycleStutter DEF db
<1>2. ASSUME NEW q \in Requests, Moves(q), ~UNCHANGED db
      PROVE  Insert(q) \/ Write(q)
  BY <1>2
     DEF Moves, Step, Begin, Assign, UpdateRead, RemoveRead, RestoreRead,
         AddDependencyRead, AddDependencyReadBlocker, RemoveDependencyRead,
         Reload, WriteDuplicate, Log, LogAssign, DatabaseError
<1>3. ASSUME NEW q \in Requests, Insert(q)
      PROVE  [Lifecycle!Next]_(Lifecycle!lifecycle)
  BY <1>3, InsertRefines
<1>4. ASSUME NEW q \in Requests, Write(q)
      PROVE  [Lifecycle!Next]_(Lifecycle!lifecycle)
  <2>1. call[q].op \in {"update", "remove", "restore", "addDependency",
                        "removeDependency"}
    BY <1>4, WriteEffect DEF IsoInv, FreshEntity
  <2> QED
    BY <1>4, <2>1, UpdateRefines, DeletionRefines, DependencyRefines
<1> QED
  BY <1>1, <1>2, <1>3, <1>4, Stuttering DEF Next, Moves

\* Requests that never meet on a ticket implement TicketLifecycle: what three
\* round trips, an entity in memory and a comparison of columns do is that
\* one ticket moves one status forward, is closed with all its blockers DONE,
\* or is opened, deleted, restored, blocked or unblocked, and nothing else.
THEOREM LifecycleImplemented == ASSUME Isolated PROVE Spec => ImplementsLifecycle
<1>1. IInv /\ IsoInv /\ [Next]_vars => [Lifecycle!Next]_(Lifecycle!lifecycle)
  BY StepRefines
<1> QED
  BY <1>1, LifecycleInit, EntitiesStayFresh, PTL
     DEF Spec, ImplementsLifecycle, Lifecycle!Spec
=============================================================================
