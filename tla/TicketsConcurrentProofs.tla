---------------------- MODULE TicketsConcurrentProofs ----------------------
(***************************************************************************)
(* What Tickets keeps under every interleaving of requests, failures and   *)
(* crashes: the audit log, and the balance of automatic assignments.       *)
(*                                                                         *)
(* AuditMatchesAnswer and AuditSound follow from LogInv, which says for    *)
(* every request what it has logged by where it stands.                    *)
(*                                                                         *)
(* BalancedAssignment follows from BalancedInv: since a creation chose its *)
(* developer, every request that has saved since then has moved the two    *)
(* loads that are compared towards each other, once, by one ticket if it   *)
(* is a creation, and by one on either side if it is not.                  *)
(***************************************************************************)
EXTENDS Assignments, TicketsProofs, FiniteSetTheorems

-----------------------------------------------------------------------------
(* The audit log.                                                          *)

Entry(r) == TicketEntry(r, AuditActionOf(call[r].op), "USER")
AssignEntry(r) == TicketEntry(r, "AUTO_ASSIGN", "SYSTEM")

NotYetLogged ==
  {"idle", "assign", "insert", "read", "blocker", "reload", "write", "log",
   "400", "404", "409"}

LogInv(r) ==
  /\ pc[r] \in {"insert", "assign"} => call[r].op = "create"
  /\ pc[r] \in {"read", "blocker", "reload", "write"} => call[r].op # "create"
  /\ pc[r] \in NotYetLogged => EntriesOf(r) = {}
  /\ pc[r] \in {"log", "logAssign"} =>
       target[r] \in DOMAIN tickets /\ call[r].op \in LoggedOps \cup {"create"}
  /\ pc[r] = "logAssign" => EntriesOf(r) = {Entry(r)} /\ call[r].op = "create"
  /\ pc[r] = "ok" /\ call[r].op \in LoggedOps \cup {"create"} =>
       Entry(r) \in EntriesOf(r)
  /\ EntriesOf(r) \subseteq {Entry(r), AssignEntry(r)}
  /\ AssignEntry(r) \in EntriesOf(r) =>
       Entry(r) \in EntriesOf(r) /\ call[r].op = "create"
  /\ EntriesOf(r) # {} => target[r] \in DOMAIN tickets

AuditInv ==
  /\ \A e \in audit : e.request \in Requests
  /\ \A r \in Requests : LogInv(r)

LEMMA ActionFacts ==
  ASSUME NEW op
  PROVE  /\ AuditActionOf(op) # "AUTO_ASSIGN"
         /\ AuditActionOf("create") = "CREATE"
BY DEF AuditActionOf

LEMMA EntryFacts ==
  ASSUME NEW r
  PROVE  /\ Entry(r).request = r /\ AssignEntry(r).request = r
         /\ Entry(r).action = AuditActionOf(call[r].op)
         /\ AssignEntry(r).action = "AUTO_ASSIGN"
         /\ Entry(r).entityType = "TICKET" /\ AssignEntry(r).entityType = "TICKET"
         /\ Entry(r).entityId = target[r] /\ AssignEntry(r).entityId = target[r]
         /\ Entry(r) # AssignEntry(r)
BY ActionFacts DEF Entry, AssignEntry, TicketEntry, LogEntry

\* What a step may add to the log, and to the table.
LEMMA LogFrame ==
  ASSUME IInv, NEW q \in Requests, Moves(q)
  PROVE  /\ \/ audit' = audit
            \/ pc[q] = "log" /\ audit' = audit \cup {Entry(q)}
            \/ pc[q] = "logAssign" /\ audit' = audit \cup {AssignEntry(q)}
         /\ DOMAIN tickets \subseteq DOMAIN tickets'
<1>1. \/ audit' = audit
      \/ pc[q] = "log" /\ audit' = audit \cup {Entry(q)}
      \/ pc[q] = "logAssign" /\ audit' = audit \cup {AssignEntry(q)}
  BY DEF Moves, Step, Begin, Assign, Insert, UpdateRead, RemoveRead,
         RestoreRead, AddDependencyRead, AddDependencyReadBlocker,
         RemoveDependencyRead, Reload, Write, WriteDuplicate, Log, LogAssign,
         DatabaseError, Entry, AssignEntry
<1>2. DOMAIN tickets \subseteq DOMAIN tickets'
  BY DEF Moves, Step, Begin, Assign, Insert, UpdateRead, RemoveRead,
         RestoreRead, AddDependencyRead, AddDependencyReadBlocker,
         RemoveDependencyRead, Reload, Write, WriteDuplicate, Log, LogAssign,
         DatabaseError, db
<1> QED
  BY <1>1, <1>2

LEMMA OthersLogInv ==
  ASSUME IInv, AuditInv, NEW q \in Requests, NEW r \in Requests, q # r,
         Moves(q)
  PROVE  LogInv(r)'
<1>1. /\ pc'[r] = pc[r] /\ call'[r] = call[r] /\ target'[r] = target[r]
      /\ Entry(r)' = Entry(r) /\ AssignEntry(r)' = AssignEntry(r)
  BY OthersKept DEF Entry, AssignEntry, TicketEntry
<1>2. EntriesOf(r)' = EntriesOf(r)
  BY LogFrame, EntryFacts DEF EntriesOf
<1> QED
  BY <1>1, <1>2, LogFrame DEF AuditInv, LogInv

\* A step that logs nothing and leaves call and target alone.
LEMMA SameLog ==
  ASSUME IInv, AuditInv, NEW r \in Requests,
         UNCHANGED <<audit, call, target>>,
         DOMAIN tickets \subseteq DOMAIN tickets'
  PROVE  /\ EntriesOf(r)' = EntriesOf(r)
         /\ Entry(r)' = Entry(r) /\ AssignEntry(r)' = AssignEntry(r)
BY DEF EntriesOf, Entry, AssignEntry, TicketEntry

LEMMA OwnLogInv ==
  ASSUME IInv, AuditInv, NEW r \in Requests, Moves(r)
  PROVE  LogInv(r)'
<1>1. LogInv(r)
  BY DEF AuditInv
<1>2. CASE Begin(r)
  <2>1. /\ pc[r] = "idle" /\ audit' = audit /\ EntriesOf(r)' = EntriesOf(r)
        /\ \/ pc'[r] \in {"assign", "insert"} /\ call'[r].op = "create"
           \/ pc'[r] = "read" /\ call'[r].op # "create"
    BY <1>2 DEF Begin, Goto, Hold, EntriesOf, IInv, TypeOK
  <2> QED
    BY <1>1, <2>1 DEF LogInv, NotYetLogged
<1>3. CASE Insert(r)
  <2>1. /\ pc[r] = "insert" /\ audit' = audit /\ call' = call
        /\ pc'[r] = "log" /\ target'[r] \in DOMAIN tickets'
        /\ EntriesOf(r)' = EntriesOf(r)
    BY <1>3 DEF Insert, At, Goto, EntriesOf, IInv, TypeOK
  <2> QED
    BY <1>1, <2>1 DEF LogInv, NotYetLogged
<1>4. CASE Log(r)
  <2>1. /\ pc[r] = "log" /\ call' = call /\ target' = target
        /\ tickets' = tickets
        /\ EntriesOf(r)' = EntriesOf(r) \cup {Entry(r)}
        /\ Entry(r)' = Entry(r) /\ AssignEntry(r)' = AssignEntry(r)
        /\ \/ pc'[r] = "logAssign" /\ call[r].op = "create"
           \/ pc'[r] = "ok"
    BY <1>4, EntryFacts, AnswerFacts
       DEF Log, Goto, EntriesOf, Entry, AssignEntry, TicketEntry, AutoAssigned,
           IInv, TypeOK, db
  <2>2. Entry(r) # AssignEntry(r)
    BY EntryFacts
  <2> QED
    BY <1>1, <2>1, <2>2 DEF LogInv, NotYetLogged
<1>5. CASE LogAssign(r)
  <2>1. /\ pc[r] = "logAssign" /\ call' = call /\ target' = target
        /\ tickets' = tickets /\ pc'[r] = "ok"
        /\ EntriesOf(r)' = EntriesOf(r) \cup {AssignEntry(r)}
        /\ Entry(r)' = Entry(r) /\ AssignEntry(r)' = AssignEntry(r)
    BY <1>5, EntryFacts, AnswerFacts
       DEF LogAssign, EntriesOf, Entry, AssignEntry, TicketEntry, db
  <2> QED
    BY <1>1, <2>1 DEF LogInv, NotYetLogged
<1>6. ASSUME UNCHANGED <<audit, call, target>>,
             \/ pc[r] = "assign" /\ pc'[r] = "insert"
             \/ /\ pc[r] \in {"read", "blocker", "reload", "write"}
                /\ pc'[r] \in {"400", "404", "409", "blocker", "reload", "write"}
             \/ /\ pc[r] \in {"reload", "write"}
                /\ pc'[r] = "ok" /\ call[r].op \notin LoggedOps
             \/ /\ pc[r] \in {"reload", "write"}
                /\ pc'[r] = "log" /\ call[r].op \in LoggedOps
             \/ pc[r] \in InFlightPcs /\ pc'[r] = "500"
      PROVE  LogInv(r)'
  <2>1. /\ EntriesOf(r)' = EntriesOf(r)
        /\ Entry(r)' = Entry(r) /\ AssignEntry(r)' = AssignEntry(r)
        /\ DOMAIN tickets \subseteq DOMAIN tickets'
        /\ call'[r] = call[r] /\ target'[r] = target[r]
    BY <1>6, SameLog, LogFrame
  <2>2. pc[r] \in {"reload", "write"} => target[r] \in DOMAIN tickets
    BY DEF IInv, EntityOK
  <2> QED
    BY <1>1, <1>6, <2>1, <2>2 DEF LogInv, NotYetLogged
<1>7. CASE Assign(r)
  BY <1>6, <1>7, HoldFacts DEF Assign, At
<1>8. CASE UpdateRead(r)
  <2>1. UpdateVerdict(target[r], call[r].patch) \in
          {"accepted", "400", "404", "409"}
    BY Zenon DEF UpdateVerdict
  <2> QED
    BY <1>6, <1>8, <2>1, HoldFacts, AnswerFacts DEF UpdateRead, At
<1>9. CASE RemoveRead(r) \/ RestoreRead(r)
  BY <1>6, <1>9, HoldFacts, AnswerFacts DEF RemoveRead, RestoreRead, At
<1>10. CASE \/ AddDependencyRead(r) \/ AddDependencyReadBlocker(r)
            \/ RemoveDependencyRead(r)
  BY <1>6, <1>10, HoldFacts, AnswerFacts
     DEF AddDependencyRead, AddDependencyReadBlocker, RemoveDependencyRead, At
<1>11. CASE Reload(r)
  <2>1. UNCHANGED <<audit, call, target>> /\ pc[r] = "reload"
    BY <1>11 DEF Reload
  <2>2. \/ pc'[r] = "write"
        \/ pc'[r] = "ok" /\ call[r].op \notin LoggedOps
        \/ pc'[r] = "log" /\ call[r].op \in LoggedOps
    BY <1>11, AnswerFacts DEF Reload, AfterSave, Goto, IInv, TypeOK
  <2> QED
    BY <1>6, <2>1, <2>2
<1>12. CASE Write(r)
  <2>1. UNCHANGED <<audit, call, target>> /\ pc[r] = "write"
    BY <1>12 DEF Write
  <2>2. \/ pc'[r] = "ok" /\ call[r].op \notin LoggedOps
        \/ pc'[r] = "log" /\ call[r].op \in LoggedOps
    BY <1>12, AnswerFacts DEF Write, AfterSave, Goto, IInv, TypeOK
  <2> QED
    BY <1>6, <2>1, <2>2
<1>13. CASE WriteDuplicate(r) \/ DatabaseError(r)
  BY <1>6, <1>13, AnswerFacts DEF WriteDuplicate, DatabaseError, InFlightPcs
<1> QED
  BY <1>2, <1>3, <1>4, <1>5, <1>7, <1>8, <1>9, <1>10, <1>11, <1>12, <1>13
     DEF Moves, Step

LEMMA InitAuditInv == Init => AuditInv
BY DEF Init, AuditInv, LogInv, EntriesOf

LEMMA NextAuditInv == IInv /\ AuditInv /\ [Next]_vars => AuditInv'
<1> SUFFICES ASSUME IInv, AuditInv, [Next]_vars PROVE AuditInv'
  OBVIOUS
<1>1. ASSUME NEW q \in Requests, Moves(q)
      PROVE  AuditInv'
  <2>1. \A r \in Requests : LogInv(r)'
    BY <1>1, OthersLogInv, OwnLogInv
  <2>2. \A e \in audit' : e.request \in Requests
    BY <1>1, LogFrame, EntryFacts DEF AuditInv
  <2> QED
    BY <2>1, <2>2 DEF AuditInv
<1>2. CASE Crash
  <2>1. UNCHANGED <<audit, call, target, tickets>>
    BY <1>2 DEF Crash, db
  <2>2. ASSUME NEW r \in Requests
        PROVE  LogInv(r)'
    <3>1. /\ EntriesOf(r)' = EntriesOf(r)
          /\ Entry(r)' = Entry(r) /\ AssignEntry(r)' = AssignEntry(r)
      BY <2>1, SameLog
    <3>2. pc'[r] = pc[r] \/ pc'[r] = "lost"
      BY <1>2 DEF Crash
    <3> QED
      BY <2>1, <3>1, <3>2 DEF AuditInv, LogInv, NotYetLogged
  <2> QED
    BY <2>1, <2>2 DEF AuditInv
<1>3. CASE Tick \/ UNCHANGED vars
  <2>1. UNCHANGED <<audit, call, target, tickets, pc>>
    BY <1>3 DEF Tick, vars, db
  <2>2. ASSUME NEW r \in Requests
        PROVE  LogInv(r)'
    BY <2>1, SameLog DEF AuditInv, LogInv, NotYetLogged
  <2> QED
    BY <2>1, <2>2 DEF AuditInv
<1> QED
  BY <1>1, <1>2, <1>3 DEF Next, Moves

\* For every request, what it has logged by where it stands.
THEOREM AuditInvariance == Spec => []AuditInv
<1>1. IInv /\ AuditInv /\ [Next]_vars => AuditInv'
  BY NextAuditInv
<1> QED
  BY InitAuditInv, <1>1, Invariance, PTL DEF Spec

\* A client can tell from the answer what the log holds: nothing of a refused
\* request, the action and the ticket of a request that was answered ok.
THEOREM AnswersMatchTheLog == Spec => []AuditMatchesAnswer
<1>1. ASSUME AuditInv
      PROVE  AuditMatchesAnswer
  <2> SUFFICES ASSUME NEW r \in Requests
               PROVE  /\ pc[r] \in {"400", "404", "409"} => EntriesOf(r) = {}
                      /\ pc[r] = "ok" /\ call[r].op \in
                            {"create", "update", "remove", "restore"} =>
                           \E e \in EntriesOf(r) :
                             /\ e.action = AuditActionOf(call[r].op)
                             /\ e.entityType = "TICKET"
                             /\ e.entityId = target[r]
    BY DEF AuditMatchesAnswer
  <2>1. LogInv(r)
    BY <1>1 DEF AuditInv
  <2>2. pc[r] \in {"400", "404", "409"} => EntriesOf(r) = {}
    BY <2>1 DEF LogInv, NotYetLogged
  <2>3. ASSUME pc[r] = "ok",
               call[r].op \in {"create", "update", "remove", "restore"}
        PROVE  Entry(r) \in EntriesOf(r)
    BY <2>1, <2>3 DEF LogInv, LoggedOps
  <2> QED
    BY <2>2, <2>3, EntryFacts
<1>2. AuditInv => AuditMatchesAnswer
  BY <1>1
<1> QED
  BY <1>2, AuditInvariance, PTL

\* The log never tells of a ticket that does not exist, nor of an automatic
\* assignment without its creation, however the process dies or entries fail.
THEOREM LogIsSound == Spec => []AuditSound
<1>1. ASSUME AuditInv
      PROVE  AuditSound
  <2> SUFFICES ASSUME NEW e \in audit
               PROVE  /\ e.entityId \in DOMAIN tickets
                      /\ e.action = "AUTO_ASSIGN" =>
                           \E f \in audit :
                             f = [e EXCEPT !.action = "CREATE", !.actor = "USER"]
    BY DEF AuditSound
  <2>1. PICK r \in Requests : LogInv(r) /\ e \in EntriesOf(r)
    BY <1>1 DEF AuditInv, EntriesOf
  <2>2. e \in {Entry(r), AssignEntry(r)} /\ target[r] \in DOMAIN tickets
    BY <2>1 DEF LogInv
  <2>3. e.entityId \in DOMAIN tickets
    BY <2>2, EntryFacts
  <2>4. ASSUME e.action = "AUTO_ASSIGN"
        PROVE  [e EXCEPT !.action = "CREATE", !.actor = "USER"] \in audit
    <3>1. e = AssignEntry(r)
      BY <2>2, <2>4, ActionFacts, EntryFacts
    <3>2. Entry(r) \in audit /\ AuditActionOf(call[r].op) = "CREATE"
      BY <2>1, <3>1, ActionFacts DEF LogInv, EntriesOf
    <3> DEFINE f == [e EXCEPT !.action = "CREATE", !.actor = "USER"]
               Created == [request : {r}, action : {"CREATE"},
                           entityType : {"TICKET"}, entityId : {target[r]},
                           actor : {"USER"}]
    <3>3. Entry(r) \in Created
      BY <3>2 DEF Entry, TicketEntry, LogEntry
    <3>4. f \in Created
      BY <3>1 DEF AssignEntry, TicketEntry, LogEntry
    <3>5. f = Entry(r)
      BY <3>3, <3>4
    <3> QED
      BY <3>2, <3>5
  <2> QED
    BY <2>3, <2>4
<1>2. AuditInv => AuditSound
  BY <1>1
<1> QED
  BY <1>2, AuditInvariance, PTL


-----------------------------------------------------------------------------
(* Soft deletion.                                                          *)

OnlyRemovalsMark == \A r \in Requests : EntityDeletes(r)

\* A ticket is deleted by the save of a remove() and by no stale entity.
THEOREM DeletionsAreRequested == Spec => OnlyRemovalsDelete
<1> DEFINE Removed ==
             \A t \in DOMAIN tickets' :
               tickets'[t].isDeleted /\
               ~(t \in DOMAIN tickets /\ tickets[t].isDeleted) =>
                 \E r \in Requests :
                   Commits(r) /\ call[r].op = "remove" /\ target[r] = t
<1>1. Init => OnlyRemovalsMark
  BY DEF Init, OnlyRemovalsMark, EntityDeletes
<1>2. IInv /\ OnlyRemovalsMark /\ [Next]_vars => OnlyRemovalsMark'
  BY EntitiesStillDelete, QuietDeletes DEF OnlyRemovalsMark, Next, Moves
<1>3. IInv /\ OnlyRemovalsMark /\ [Next]_vars => Removed
  <2> SUFFICES ASSUME IInv, OnlyRemovalsMark, [Next]_vars,
                      NEW t \in DOMAIN tickets', tickets'[t].isDeleted,
                      ~(t \in DOMAIN tickets /\ tickets[t].isDeleted)
               PROVE  \E r \in Requests :
                        Commits(r) /\ call[r].op = "remove" /\ target[r] = t
    OBVIOUS
  <2>1. PICK r \in Requests : Moves(r)
    <3>1. tickets' # tickets
      OBVIOUS
    <3> QED
      BY <3>1 DEF Next, Moves, Crash, Tick, vars, db
  <2> QED
    BY <2>1, DeletedByRemove DEF OnlyRemovalsMark, Commits
<1>4. IInv /\ OnlyRemovalsMark /\ [Next]_vars => [Removed]_vars
  BY <1>3
<1> QED
  BY <1>1, <1>2, <1>4, Invariance, PTL DEF Spec, OnlyRemovalsDelete

-----------------------------------------------------------------------------
(* Automatic assignment: the bound of BalancedAssignment, at any time      *)
(* between the choice of a developer and the INSERT.                       *)

FiniteSeeds == \A seed \in Seeds : IsFiniteSet(DOMAIN seed.tickets)

Load(user, project) == Cardinality(OpenTickets(user, project))

\* By how much the choice of a developer may be off.
Slack(r) == Cardinality(rivals[r]) + Cardinality(Moving(rivals[r]))

BalanceInv(r) ==
  pc[r] = "insert" /\ AutoAssigned(r) =>
    LET project == call[r].draft.projectId
    IN  \A j \in DOMAIN Developers[project] :
          Load(mem[r].assigneeId, project) <=
            Load(Developers[project][j], project) + Slack(r)

\* A request saves once, so that it is counted once.
SavedPcs == {"log", "logAssign", "ok", "500", "lost"}

RivalsInv ==
  /\ rivals \in [Requests -> SUBSET Requests]
  /\ \A r \in Requests : \A q \in rivals[r] : pc[q] \in SavedPcs

BalancedInv ==
  /\ IsFiniteSet(DOMAIN tickets)
  /\ RivalsInv
  /\ \A r \in Requests : BalanceInv(r)

LEMMA LoadType ==
  ASSUME IsFiniteSet(DOMAIN tickets), NEW user, NEW project
  PROVE  IsFiniteSet(OpenTickets(user, project)) /\ Load(user, project) \in Nat
BY FS_Subset, FS_CardinalityType DEF OpenTickets, Load

LEMMA AddOne ==
  ASSUME NEW S, NEW x, IsFiniteSet(S)
  PROVE  /\ IsFiniteSet(S \cup {x})
         /\ Cardinality(S) \in Nat
         /\ Cardinality(S \cup {x}) \in Nat
         /\ Cardinality(S \cup {x}) <= Cardinality(S) + 1
         /\ x \notin S => Cardinality(S \cup {x}) = Cardinality(S) + 1
<1>1. /\ IsFiniteSet(S \cup {x})
      /\ Cardinality(S \cup {x}) =
           IF x \in S THEN Cardinality(S) ELSE Cardinality(S) + 1
  BY FS_AddElement
<1>2. Cardinality(S) \in Nat
  BY FS_CardinalityType
<1> QED
  BY <1>1, <1>2

\* A step that writes or inserts ticket t moves a load by one at most.
LEMMA LoadMoves ==
  ASSUME IsFiniteSet(DOMAIN tickets), NEW t, NEW user, NEW project,
         DOMAIN tickets' \subseteq DOMAIN tickets \cup {t},
         DOMAIN tickets \subseteq DOMAIN tickets',
         \A u \in DOMAIN tickets \ {t} : tickets'[u] = tickets[u]
  PROVE  /\ IsFiniteSet(DOMAIN tickets')
         /\ Load(user, project)' \in Nat
         /\ Load(user, project)' <= Load(user, project) + 1
         /\ Load(user, project) <= Load(user, project)' + 1
<1> DEFINE before == OpenTickets(user, project)
           after == OpenTickets(user, project)'
<1>1. IsFiniteSet(DOMAIN tickets')
  BY FS_AddElement, FS_Subset
<1>2. IsFiniteSet(before) /\ IsFiniteSet(after)
  BY <1>1, FS_Subset DEF OpenTickets
<1>3. before \subseteq after \cup {t} /\ after \subseteq before \cup {t}
  BY DEF OpenTickets
<1> HIDE DEF before, after
<1>4. /\ IsFiniteSet(before \cup {t}) /\ IsFiniteSet(after \cup {t})
      /\ Cardinality(before) \in Nat /\ Cardinality(after) \in Nat
      /\ Cardinality(before \cup {t}) \in Nat
      /\ Cardinality(after \cup {t}) \in Nat
      /\ Cardinality(before \cup {t}) <= Cardinality(before) + 1
      /\ Cardinality(after \cup {t}) <= Cardinality(after) + 1
  BY <1>2, AddOne
<1>5. /\ Cardinality(before) <= Cardinality(after \cup {t})
      /\ Cardinality(after) <= Cardinality(before \cup {t})
  BY <1>3, <1>4, FS_Subset
<1> QED
  BY <1>1, <1>4, <1>5 DEF before, after, Load

\* An INSERT takes no ticket from anybody.
LEMMA LoadGrows ==
  ASSUME IsFiniteSet(DOMAIN tickets), NEW q, Insert(q), NEW user, NEW project
  PROVE  /\ Load(user, project)' \in Nat
         /\ Load(user, project)' <= Load(user, project) + 1
         /\ Load(user, project) <= Load(user, project)'
<1>1. PICK id : /\ id \notin DOMAIN tickets
                /\ tickets' = [t \in DOMAIN tickets \cup {id} |->
                                 IF t = id THEN mem[q] ELSE tickets[t]]
  BY DEF Insert
<1>2. /\ DOMAIN tickets' = DOMAIN tickets \cup {id}
      /\ \A u \in DOMAIN tickets : tickets'[u] = tickets[u]
  BY <1>1
<1>3. /\ IsFiniteSet(DOMAIN tickets')
      /\ Load(user, project)' \in Nat
      /\ Load(user, project)' <= Load(user, project) + 1
  BY <1>2, LoadMoves
<1>4. OpenTickets(user, project) \subseteq OpenTickets(user, project)'
  BY <1>2 DEF OpenTickets
<1>5. IsFiniteSet(OpenTickets(user, project)')
  BY <1>3, FS_Subset DEF OpenTickets
<1>6. Load(user, project) <= Load(user, project)'
  BY <1>4, <1>5, FS_Subset DEF Load
<1> QED
  BY <1>3, <1>6

LEMMA RivalsType ==
  ASSUME IsFiniteSet(Requests), RivalsInv, NEW r \in Requests
  PROVE  /\ IsFiniteSet(rivals[r]) /\ IsFiniteSet(Moving(rivals[r]))
         /\ Cardinality(rivals[r]) \in Nat
         /\ Cardinality(Moving(rivals[r])) \in Nat
         /\ Slack(r) \in Nat
<1>1. /\ rivals[r] \subseteq Requests
      /\ Moving(rivals[r]) \subseteq Requests
  BY DEF RivalsInv, Moving
<1>2. IsFiniteSet(rivals[r]) /\ IsFiniteSet(Moving(rivals[r]))
  BY <1>1, FS_Subset
<1> QED
  BY <1>2, FS_CardinalityType DEF Slack

\* Whoever has saved has saved for good, and keeps its call.
LEMMA SavedStays ==
  ASSUME IInv, NEW q \in Requests, Moves(q), pc[q] \in SavedPcs
  PROVE  pc'[q] \in SavedPcs
BY AnswerFacts
   DEF SavedPcs, Moves, Step, At, Begin, Assign, Insert, UpdateRead,
       RemoveRead, RestoreRead, AddDependencyRead, AddDependencyReadBlocker,
       RemoveDependencyRead, Reload, Write, WriteDuplicate, Log, LogAssign,
       DatabaseError, Goto, InFlightPcs, IInv, TypeOK

LEMMA CallStays ==
  ASSUME NEW q \in Requests, Moves(q), pc[q] # "idle"
  PROVE  call' = call
BY DEF Moves, Step, Begin, Assign, Insert, UpdateRead, RemoveRead, RestoreRead,
       AddDependencyRead, AddDependencyReadBlocker, RemoveDependencyRead,
       Reload, Write, WriteDuplicate, Log, LogAssign, DatabaseError

LEMMA RivalsKept ==
  ASSUME IInv, RivalsInv, [Next]_vars, ObserveRivals
  PROVE  RivalsInv'
<1>1. rivals' \in [Requests -> SUBSET Requests]
  BY DEF ObserveRivals, RivalsInv
<1>2. ASSUME NEW q \in Requests, pc[q] \in SavedPcs
      PROVE  pc'[q] \in SavedPcs
  <2>1. CASE Crash \/ Tick \/ UNCHANGED vars
    BY <1>2, <2>1 DEF Crash, Tick, vars, SavedPcs
  <2>2. ASSUME NEW p \in Requests, Moves(p)
        PROVE  pc'[q] \in SavedPcs
    BY <1>2, <2>2, SavedStays, OthersKept
  <2> QED
    BY <2>1, <2>2 DEF Next, Moves
<1>3. ASSUME NEW q, Saves(q)
      PROVE  pc'[q] \in SavedPcs
  BY <1>3 DEF Saves, SavedPcs
<1>4. ASSUME NEW r \in Requests, NEW q \in rivals'[r]
      PROVE  pc'[q] \in SavedPcs
  <2>1. q \in rivals[r] \/ q \in {p \in Requests : Saves(p)}
    BY <1>4 DEF ObserveRivals
  <2> QED
    BY <1>2, <1>3, <1>4, <2>1 DEF RivalsInv
<1> QED
  BY <1>1, <1>4 DEF RivalsInv

\* The slack grows with every save, by two for those that are no creations.
LEMMA SlackMoves ==
  ASSUME IsFiniteSet(Requests), IInv, RivalsInv, ObserveRivals,
         NEW q \in Requests, NEW r \in Requests, q # r, Moves(q),
         pc[r] = "insert"
  PROVE  /\ Slack(r) \in Nat /\ Slack(r)' \in Nat
         /\ ~Saves(q) => Slack(r)' = Slack(r)
         /\ Saves(q) => Slack(r)' >= Slack(r) + 1
         /\ Saves(q) /\ call[q].op # "create" => Slack(r)' >= Slack(r) + 2
<1> DEFINE R == rivals[r]
           M == Moving(rivals[r])
<1>1. \A p \in Requests \ {q} : pc'[p] = pc[p] /\ call'[p] = call[p] /\ ~Saves(p)
  BY OthersKept DEF Saves
<1>2. rivals'[r] = R \cup {p \in Requests : Saves(p)}
  BY <1>1 DEF ObserveRivals
<1>3. \A p \in R : p \in Requests /\ pc[p] \in SavedPcs /\ call'[p] = call[p]
  <2>1. q \in R => pc[q] # "idle"
    BY DEF RivalsInv, SavedPcs
  <2> QED
    BY <1>1, <2>1, CallStays DEF RivalsInv
<1>4. /\ IsFiniteSet(R) /\ IsFiniteSet(M) /\ Slack(r) \in Nat
      /\ Cardinality(R) \in Nat /\ Cardinality(M) \in Nat
      /\ Slack(r) = Cardinality(R) + Cardinality(M)
  BY RivalsType DEF Slack
<1>5. Moving(rivals[r])' = {p \in rivals'[r] : call'[p].op # "create"}
  BY DEF Moving
<1>6. CASE ~Saves(q)
  <2>1. rivals'[r] = R
    BY <1>1, <1>2, <1>6
  <2>2. Moving(rivals[r])' = M
    BY <1>3, <1>5, <2>1 DEF Moving
  <2>3. Slack(r)' = Slack(r)
    BY <2>1, <2>2 DEF Slack
  <2> QED
    BY <1>4, <1>6, <2>3
<1>7. CASE Saves(q)
  <2>1. rivals'[r] = R \cup {q}
    BY <1>1, <1>2, <1>7
  <2>2. q \notin R /\ call' = call
    BY <1>3, <1>7, CallStays DEF Saves, SavedPcs
  <2>3. Moving(rivals[r])' = IF call[q].op # "create" THEN M \cup {q} ELSE M
    BY <1>5, <2>1, <2>2 DEF Moving
  <2>4. q \notin M
    BY <2>2 DEF Moving
  <2>5. Slack(r)' = Cardinality(rivals'[r]) + Cardinality(Moving(rivals[r])')
    BY DEF Slack
  <2> HIDE DEF R, M
  <2>6. Cardinality(rivals'[r]) = Cardinality(R) + 1
    BY <1>4, <2>1, <2>2, AddOne
  <2>7. Cardinality(Moving(rivals[r])') =
          IF call[q].op # "create" THEN Cardinality(M) + 1 ELSE Cardinality(M)
    <3>1. Cardinality(M \cup {q}) = Cardinality(M) + 1
      BY <1>4, <2>4, AddOne
    <3> QED
      BY <2>3, <3>1
  <2> QED
    BY <1>4, <1>7, <2>5, <2>6, <2>7
<1> QED
  BY <1>6, <1>7

LEMMA OthersBalance ==
  ASSUME IsFiniteSet(Requests), IInv, AuditInv, BalancedInv, ObserveRivals,
         NEW q \in Requests, NEW r \in Requests, q # r, Moves(q)
  PROVE  BalanceInv(r)'
<1> SUFFICES ASSUME NEW project, NEW user, NEW other,
                    project = call[r].draft.projectId,
                    user = mem[r].assigneeId, pc[r] = "insert",
                    Load(user, project) <= Load(other, project) + Slack(r)
             PROVE  Load(user, project)' <= Load(other, project)' + Slack(r)'
  BY OthersKept DEF BalancedInv, BalanceInv, AutoAssigned
<1>1. /\ Slack(r) \in Nat /\ Slack(r)' \in Nat
      /\ ~Saves(q) => Slack(r)' = Slack(r)
      /\ Saves(q) => Slack(r)' >= Slack(r) + 1
      /\ Saves(q) /\ call[q].op # "create" => Slack(r)' >= Slack(r) + 2
  BY SlackMoves DEF BalancedInv
<1>2. Load(user, project) \in Nat /\ Load(other, project) \in Nat
  BY LoadType DEF BalancedInv
<1>3. CASE tickets' = tickets
  <2>1. /\ Load(user, project)' = Load(user, project)
        /\ Load(other, project)' = Load(other, project)
    BY <1>3 DEF Load, OpenTickets
  <2>2. Slack(r)' >= Slack(r)
    BY <1>1
  <2> QED
    BY <1>1, <1>2, <2>1, <2>2
<1>4. CASE Insert(q)
  <2>1. Saves(q)
    BY <1>4 DEF Insert, At, Goto, Saves, IInv, TypeOK
  <2>2. /\ Load(user, project)' \in Nat /\ Load(other, project)' \in Nat
        /\ Load(user, project)' <= Load(user, project) + 1
        /\ Load(other, project) <= Load(other, project)'
    BY <1>4, LoadGrows DEF BalancedInv
  <2> QED
    BY <1>1, <1>2, <2>1, <2>2
<1>5. CASE Write(q)
  <2>1. Saves(q) /\ call[q].op # "create"
    BY <1>5, AnswerFacts
       DEF Write, AfterSave, Goto, Saves, AuditInv, LogInv, IInv, TypeOK
  <2>2. /\ DOMAIN tickets' = DOMAIN tickets
        /\ \A u \in DOMAIN tickets \ {target[q]} : tickets'[u] = tickets[u]
    BY <1>5 DEF Write
  <2>3. /\ Load(user, project)' \in Nat /\ Load(other, project)' \in Nat
        /\ Load(user, project)' <= Load(user, project) + 1
        /\ Load(other, project) <= Load(other, project)' + 1
    BY <2>2, LoadMoves DEF BalancedInv
  <2> QED
    BY <1>1, <1>2, <2>1, <2>3
<1>6. Insert(q) \/ Write(q) \/ tickets' = tickets
  BY DEF Moves, Step, Begin, Assign, UpdateRead, RemoveRead, RestoreRead,
         AddDependencyRead, AddDependencyReadBlocker, RemoveDependencyRead,
         Reload, WriteDuplicate, Log, LogAssign, DatabaseError, db
<1> QED
  BY <1>3, <1>4, <1>5, <1>6

LEMMA EntersInsert ==
  ASSUME IInv, NEW r \in Requests, Moves(r), pc'[r] = "insert"
  PROVE  Begin(r) \/ Assign(r)
<1>1. ~UpdateRead(r)
  <2>1. UpdateVerdict(target[r], call[r].patch) # "insert"
    BY Zenon DEF UpdateVerdict
  <2> QED
    BY <2>1, AnswerFacts, HoldFacts DEF UpdateRead
<1>2. ~(RemoveRead(r) \/ RestoreRead(r))
  BY AnswerFacts, HoldFacts DEF RemoveRead, RestoreRead
<1>3. ~(\/ AddDependencyRead(r) \/ AddDependencyReadBlocker(r)
        \/ RemoveDependencyRead(r))
  BY AnswerFacts, HoldFacts
     DEF AddDependencyRead, AddDependencyReadBlocker, RemoveDependencyRead
<1>4. ~(Insert(r) \/ Reload(r) \/ Write(r))
  BY AnswerFacts DEF Insert, Reload, Write, AfterSave, Goto, IInv, TypeOK
<1>5. ~(WriteDuplicate(r) \/ Log(r) \/ LogAssign(r) \/ DatabaseError(r))
  BY AnswerFacts
     DEF WriteDuplicate, Log, LogAssign, DatabaseError, Goto, IInv, TypeOK
<1> QED
  BY <1>1, <1>2, <1>3, <1>4, <1>5 DEF Moves, Step

LEMMA OwnBalance ==
  ASSUME IsFiniteSet(Requests), IInv, BalancedInv, RivalsInv',
         NEW r \in Requests, Moves(r)
  PROVE  BalanceInv(r)'
<1> SUFFICES ASSUME pc'[r] = "insert", AutoAssigned(r)'
             PROVE  BalanceInv(r)'
  BY DEF BalanceInv
<1>1. ~Begin(r)
  BY DEF Begin, Goto, Hold, AutoAssigned, NewTicket, IInv, TypeOK
<1>2. Assign(r)
  BY <1>1, EntersInsert
<1> DEFINE project == call[r].draft.projectId
           developers == Developers[project]
<1>3. call' = call /\ tickets' = tickets
  BY <1>2 DEF Assign, db
<1>4. PICK i \in DOMAIN developers :
        IsLeastLoaded(i, project) /\ mem'[r].assigneeId = developers[i]
  <2>1. mem'[r].assigneeId # NoUser
    BY DEF AutoAssigned
  <2>2. ASSUME NEW user, Hold(r, "insert", NewTicket(call[r].draft, user), {})
        PROVE  mem'[r].assigneeId = user
    BY <2>2, HoldFacts DEF NewTicket
  <2> QED
    BY <1>2, <2>1, <2>2 DEF Assign
<1>5. ASSUME NEW p, NEW k, NEW j \in DOMAIN Developers[p],
             k \in DOMAIN Developers[p], p = project, k = i
      PROVE  Load(Developers[p][k], p)' <=
               Load(Developers[p][j], p)' + Slack(r)'
  <2>1. Load(Developers[p][k], p) <= Load(Developers[p][j], p)
    BY <1>4, <1>5, LoadType DEF IsLeastLoaded, Load, BalancedInv
  <2>2. /\ Load(Developers[p][k], p)' = Load(Developers[p][k], p)
        /\ Load(Developers[p][j], p)' = Load(Developers[p][j], p)
    BY <1>3 DEF Load, OpenTickets
  <2>3. Slack(r)' \in Nat
    <3>1. rivals'[r] \subseteq Requests /\ Moving(rivals[r])' \subseteq Requests
      BY DEF RivalsInv, Moving
    <3> QED
      BY <3>1, FS_Subset, FS_CardinalityType DEF Slack
  <2>4. /\ Load(Developers[p][k], p) \in Nat
        /\ Load(Developers[p][j], p) \in Nat
    BY LoadType DEF BalancedInv
  <2> QED
    BY <2>1, <2>2, <2>3, <2>4
<1> QED
  BY <1>3, <1>4, <1>5 DEF BalanceInv

LEMMA NextBalanced ==
  ASSUME IsFiniteSet(Requests), IInv, AuditInv, BalancedInv,
         [AssignmentsNext]_assignmentVars
  PROVE  BalancedInv'
<1>1. ASSUME NEW q \in Requests, Moves(q), ObserveRivals
      PROVE  BalancedInv'
  <2>1. IsFiniteSet(DOMAIN tickets')
    BY <1>1, SaveFrame, LoadMoves DEF BalancedInv
  <2>2. RivalsInv'
    BY <1>1, RivalsKept DEF BalancedInv, Next, Moves
  <2> QED
    BY <1>1, <2>1, <2>2, OthersBalance, OwnBalance DEF BalancedInv
<1>2. CASE Crash /\ ObserveRivals
  <2>1. RivalsInv'
    BY <1>2, RivalsKept DEF BalancedInv, Next
  <2>2. tickets' = tickets /\ \A r \in Requests : pc'[r] # "insert"
    BY <1>2 DEF Crash, db, InFlight, InFlightPcs
  <2> QED
    BY <2>1, <2>2 DEF BalancedInv, BalanceInv
<1>3. ASSUME (Tick /\ ObserveRivals) \/ UNCHANGED assignmentVars
      PROVE  BalancedInv'
  <2>1. UNCHANGED <<tickets, pc, call, mem>>
    BY <1>3 DEF Tick, assignmentVars, vars, db, entityVars
  <2>2. RivalsInv'
    BY <1>3, <2>1, RivalsKept DEF BalancedInv, RivalsInv, Next, assignmentVars
  <2>3. \A r \in Requests : pc[r] = "insert" => rivals'[r] = rivals[r]
    BY <1>3, <2>1 DEF ObserveRivals, Saves, BalancedInv, RivalsInv,
                      assignmentVars
  <2>4. ASSUME NEW user, NEW project
        PROVE  Load(user, project)' = Load(user, project)
    BY <2>1 DEF Load, OpenTickets
  <2>5. ASSUME NEW r \in Requests
        PROVE  BalanceInv(r)'
    <3> SUFFICES ASSUME NEW project, NEW user, NEW other, pc[r] = "insert",
                        project = call[r].draft.projectId,
                        user = mem[r].assigneeId,
                        Load(user, project) <= Load(other, project) + Slack(r)
                 PROVE  Load(user, project)' <= Load(other, project)' + Slack(r)'
      BY <2>1 DEF BalancedInv, BalanceInv, AutoAssigned
    <3>1. Slack(r)' = Slack(r)
      BY <2>1, <2>3 DEF Slack, Moving
    <3> QED
      BY <2>4, <3>1
  <2> QED
    BY <2>1, <2>2, <2>5 DEF BalancedInv
<1> QED
  BY <1>1, <1>2, <1>3 DEF AssignmentsNext, Next, Moves

\* The developer that create() has found to be the least loaded is off, when
\* the ticket is saved, by no more than the saves in between account for, for
\* any number of tickets, developers and requests, if they are finite.
THEOREM AssignmentsAreBalanced ==
  ASSUME IsFiniteSet(Requests), FiniteSeeds
  PROVE  AssignmentsSpec => BalancedAssignment
<1> DEFINE Balanced ==
             \A r \in Requests :
               At(r, "insert", "create") /\ pc'[r] = "log" /\ AutoAssigned(r) =>
                 LET project == call[r].draft.projectId
                     developers == Developers[project]
                     load(user) == Cardinality(OpenTickets(user, project))
                 IN  \A j \in DOMAIN developers :
                       load(mem[r].assigneeId) <=
                         load(developers[j]) + Cardinality(rivals[r])
                           + Cardinality(Moving(rivals[r]))
<1>1. AssignmentsInit => BalancedInv
  BY DEF AssignmentsInit, Init, FiniteSeeds, BalancedInv, BalanceInv, RivalsInv
<1>2. IInv /\ AuditInv /\ BalancedInv /\ [AssignmentsNext]_assignmentVars
        => BalancedInv'
  BY NextBalanced
<1>3. ASSUME BalancedInv
      PROVE  Balanced
  <2> SUFFICES ASSUME NEW r \in Requests, pc[r] = "insert", AutoAssigned(r),
                      NEW j \in DOMAIN Developers[call[r].draft.projectId]
               PROVE  LET project == call[r].draft.projectId
                      IN  Load(mem[r].assigneeId, project) <=
                            Load(Developers[project][j], project)
                              + Cardinality(rivals[r])
                              + Cardinality(Moving(rivals[r]))
    BY DEF At, Load
  <2> DEFINE project == call[r].draft.projectId
  <2>1. Load(mem[r].assigneeId, project) <=
          Load(Developers[project][j], project) + Slack(r)
    BY <1>3 DEF BalancedInv, BalanceInv
  <2>2. /\ Load(mem[r].assigneeId, project) \in Nat
        /\ Load(Developers[project][j], project) \in Nat
        /\ Cardinality(rivals[r]) \in Nat
        /\ Cardinality(Moving(rivals[r])) \in Nat
        /\ Slack(r) = Cardinality(rivals[r]) + Cardinality(Moving(rivals[r]))
    BY <1>3, LoadType, RivalsType DEF BalancedInv, Slack
  <2> QED
    BY <2>1, <2>2
<1>4. BalancedInv => [Balanced]_assignmentVars
  BY <1>3
<1>5. AssignmentsInit => Init
  BY DEF AssignmentsInit
<1>6. [AssignmentsNext]_assignmentVars => [Next]_vars
  BY DEF AssignmentsNext, assignmentVars
<1> QED
  BY <1>1, <1>2, <1>4, <1>5, <1>6, Invariance, AuditInvariance, PTL
     DEF AssignmentsSpec, Spec, BalancedAssignment
=============================================================================
