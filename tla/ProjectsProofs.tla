--------------------------- MODULE ProjectsProofs ---------------------------
(***************************************************************************)
(* Theorems about Projects: project requests, with the cascade of          *)
(* remove(), next to the requests on tickets of TicketsProofs.             *)
(*                                                                         *)
(* ProjectsInv holds under every interleaving.  When requests take turns   *)
(* (Isolated), TurnsInv says that a project request still holds the row as *)
(* it is, and that what its cascade has not deleted is still to come.      *)
(* When they do not, DeletionsInv gives every deletion that is not in the  *)
(* log a removal of its own to blame.                                      *)
(***************************************************************************)
EXTENDS Projects, TicketsProofs, FiniteSetTheorems

LEMMA ProjectColumnFacts ==
  /\ ProjectColumns = {"content", "ownerId", "isDeleted", "deletedAt"}
  /\ ProjectColumnType["content"] = Contents
  /\ ProjectColumnType["ownerId"] = Users
  /\ ProjectColumnType["isDeleted"] = BOOLEAN
  /\ ProjectColumnType["deletedAt"] = Dates
BY DEF ProjectColumns, ProjectColumnType

LEMMA UpdatedIsProject ==
  ASSUME NEW row, NEW entity, NEW columns, IsProject(row), IsProject(entity),
         columns \subseteq ProjectColumns
  PROVE  IsProject(Updated(row, entity, columns))
BY ProjectColumnFacts DEF IsProject, Updated

CascadePcs == {"select", "ticketReload", "ticketWrite", "ticketLog"}

\* What a project request knows where it is.
PlaceOK(m) ==
  /\ mpc[m] # "idle" => mcall[m] \in ProjectCalls
  /\ mpc[m] = "insert" => mcall[m].op = "create"
  /\ mpc[m] \in WorkingPcs \ {"insert", "read"} =>
       mcall[m].id \in DOMAIN projects
  /\ mpc[m] \in WorkingPcs \ {"insert"} =>
       mcall[m].op \in {"update", "remove", "restore"}
  /\ mpc[m] \in CascadePcs => mcall[m].op = "remove"
  /\ mpc[m] = "log" => mcall[m].op \in {"remove", "restore"}

\* Its in-memory rows are typed; a ticket it holds is one of its project, and
\* is still in that project.
EntitiesOK(m) ==
  /\ mpc[m] \in {"reload", "write", "select"} => IsProject(mentity[m])
  /\ mpc[m] = "write" => mcolumns[m] \subseteq ProjectColumns
  /\ mpc[m] = "ticketWrite" => mcolumns[m] \subseteq Columns \ {"projectId"}
  /\ mpc[m] \in {"ticketWrite", "ticketLog"} => mticket[m] \in DOMAIN cascade[m]
  /\ mcolumns[m] \subseteq ProjectColumns \cup Columns
  /\ mpc[m] \notin CascadePcs => DOMAIN cascade[m] = {}
  /\ DOMAIN cascade[m] \subseteq DOMAIN tickets
  /\ \A t \in DOMAIN cascade[m] :
       /\ IsRow(cascade[m][t])
       /\ cascade[m][t].projectId = tickets[t].projectId
       /\ tickets[t].projectId = mcall[m].id

ManagersTyped ==
  /\ mpc \in [Managers -> {"idle", "ok", "403", "404", "500", "lost"}
                          \cup WorkingPcs]
  /\ mticket \in [Managers -> TicketIds \cup {NoTicket}]
  /\ DOMAIN mcall = Managers /\ DOMAIN mentity = Managers
  /\ DOMAIN mcolumns = Managers /\ DOMAIN cascade = Managers

ManagersOK ==
  /\ ManagersTyped
  /\ \A m \in Managers : PlaceOK(m) /\ EntitiesOK(m)

ProjectRowsOK ==
  /\ DOMAIN projects \subseteq Projects
  /\ \A p \in DOMAIN projects : IsProject(projects[p])

ProjectsInv == IInv /\ ProjectRowsOK /\ ManagersOK

-----------------------------------------------------------------------------
(* A step of one project request is no step of another.                    *)

MMoves(m) == MBegin(m) \/ MStep(m) \/ MError(m)

LEMMA MAnswerFacts ==
  ASSUME ManagersOK, NEW m \in Managers, NEW code, MAnswer(m, code)
  PROVE  /\ mpc'[m] = code
         /\ mcolumns'[m] = {} /\ cascade'[m] = << >> /\ mticket'[m] = NoTicket
         /\ \A n \in Managers \ {m} :
              /\ mpc'[n] = mpc[n] /\ mentity'[n] = mentity[n]
              /\ mcolumns'[n] = mcolumns[n] /\ cascade'[n] = cascade[n]
              /\ mticket'[n] = mticket[n]
         /\ DOMAIN mpc' = Managers /\ DOMAIN mentity' = Managers
         /\ DOMAIN mcolumns' = Managers /\ DOMAIN cascade' = Managers
         /\ DOMAIN mticket' = Managers
BY DEF MAnswer, MGoto, ManagersOK, ManagersTyped

LEMMA AfterProjectSaveCases ==
  ASSUME ManagersOK, NEW m \in Managers, AfterProjectSave(m),
         mpc[m] \in WorkingPcs \ {"insert"}
  PROVE  \/ mcall[m].op = "update" /\ MAnswer(m, "ok")
         \/ /\ mcall[m].op = "restore" /\ MGoto(m, "log")
            /\ UNCHANGED <<mentity, mcolumns, cascade, mticket>>
         \/ /\ mcall[m].op = "remove" /\ MGoto(m, "select")
            /\ UNCHANGED <<mentity, mcolumns, cascade, mticket>>
<1>1. \/ mcall[m].op = "update" \/ mcall[m].op = "remove"
      \/ mcall[m].op = "restore"
  BY DEF ManagersOK, ManagersTyped, PlaceOK
<1>2. "update" # "remove" /\ "update" # "restore" /\ "remove" # "restore"
  OBVIOUS
<1> QED
  BY <1>1, <1>2 DEF AfterProjectSave

LEMMA OtherManagersKept ==
  ASSUME ManagersOK, NEW m \in Managers, MMoves(m),
         NEW n \in Managers, n # m
  PROVE  /\ mpc'[n] = mpc[n] /\ mcall'[n] = mcall[n]
         /\ mentity'[n] = mentity[n] /\ mcolumns'[n] = mcolumns[n]
         /\ cascade'[n] = cascade[n] /\ mticket'[n] = mticket[n]
<1>1. CASE MBegin(m)
  BY <1>1 DEF MBegin, MGoto, ManagersOK, ManagersTyped
<1>2. CASE MInsert(m) \/ MError(m) \/ MLog(m)
  BY <1>2, MAnswerFacts DEF MInsert, MError, MLog
<1>3. CASE MRead(m) \/ MReadDeleted(m)
  BY <1>3, MAnswerFacts DEF MRead, MReadDeleted, MHold, MGoto, ManagersOK, ManagersTyped
<1>4. CASE MReload(m) \/ MWrite(m)
  <2>1. CASE AfterProjectSave(m)
    <3>1. mpc[m] \in WorkingPcs \ {"insert"} /\ mcall' = mcall
      BY <1>4 DEF MReload, MWrite, WorkingPcs
    <3> QED
      BY <2>1, <3>1, AfterProjectSaveCases, MAnswerFacts DEF MGoto, ManagersOK, ManagersTyped
  <2>2. CASE ~AfterProjectSave(m)
    BY <1>4, <2>2 DEF MReload, MWrite, MGoto, ManagersOK, ManagersTyped
  <2> QED
    BY <2>1, <2>2
<1>5. CASE MSelect(m) \/ MTicketReload(m)
  BY <1>5 DEF MSelect, MTicketReload, MGoto, ManagersOK, ManagersTyped
<1>6. CASE MTicketWrite(m)
  BY <1>6 DEF MTicketWrite, MGoto, ManagersOK, ManagersTyped
<1>7. CASE MTicketLog(m)
  BY <1>7 DEF MTicketLog, NextTicket, MGoto, ManagersOK, ManagersTyped
<1> QED
  BY <1>1, <1>2, <1>3, <1>4, <1>5, <1>6, <1>7 DEF MMoves, MStep

\* What a request holds stays right while others move.
LEMMA ManagerKept ==
  ASSUME ManagersOK, NEW n \in Managers,
         mpc'[n] = mpc[n], mcall'[n] = mcall[n], mentity'[n] = mentity[n],
         mcolumns'[n] = mcolumns[n], cascade'[n] = cascade[n],
         mticket'[n] = mticket[n],
         DOMAIN projects \subseteq DOMAIN projects', ProjectsKept
  PROVE  (PlaceOK(n) /\ EntitiesOK(n))'
<1>1. PlaceOK(n)'
  BY DEF ManagersOK, ManagersTyped, PlaceOK
<1>2. EntitiesOK(n)'
  BY DEF ManagersOK, ManagersTyped, EntitiesOK, ProjectsKept
<1> QED
  BY <1>1, <1>2

\* A request that answers lets go of all it holds.
LEMMA AnsweredOK ==
  ASSUME ManagersOK, NEW m \in Managers, NEW code, MAnswer(m, code),
         code \in {"ok", "403", "404", "500"}, mcall'[m] = mcall[m],
         mpc[m] # "idle"
  PROVE  (PlaceOK(m) /\ EntitiesOK(m))'
<1>1. PlaceOK(m)'
  BY MAnswerFacts DEF ManagersOK, ManagersTyped, PlaceOK, WorkingPcs, CascadePcs
<1>2. EntitiesOK(m)'
  BY MAnswerFacts DEF ManagersOK, ManagersTyped, EntitiesOK
<1> QED
  BY <1>1, <1>2

OwnOK(m) == ManagersTyped' /\ PlaceOK(m)' /\ EntitiesOK(m)'

LEMMA AnswerTyped ==
  ASSUME ManagersOK, NEW m \in Managers, NEW code, MAnswer(m, code),
         code \in {"ok", "403", "404", "500"}, DOMAIN mcall' = Managers
  PROVE  ManagersTyped'
BY DEF ManagersOK, ManagersTyped, MAnswer, MGoto

LEMMA MBeginOK ==
  ASSUME ManagersOK, NEW m \in Managers, MBegin(m)
  PROVE  OwnOK(m)
<1> PICK c \in ProjectCalls :
      /\ mcall' = [mcall EXCEPT ![m] = c]
      /\ MGoto(m, IF c.op = "create" THEN "insert" ELSE "read")
  BY DEF MBegin
<1>1. /\ mpc[m] = "idle"
      /\ UNCHANGED <<tickets, projects, mentity, mcolumns, cascade, mticket>>
  BY DEF MBegin, ticketVars, vars
<1>2. c.op \in {"create", "update", "remove", "restore"}
  BY ProjectsAssumption DEF IsProjectCall
<1>3. ManagersTyped'
  BY <1>1 DEF ManagersOK, ManagersTyped, MGoto, WorkingPcs
<1>4. PlaceOK(m)'
  BY <1>1, <1>2 DEF ManagersOK, ManagersTyped, PlaceOK, MGoto, CascadePcs
<1>5. DOMAIN cascade[m] = {}
  BY <1>1 DEF ManagersOK, EntitiesOK, CascadePcs
<1>6. EntitiesOK(m)'
  BY <1>1, <1>2, <1>5 DEF ManagersOK, ManagersTyped, EntitiesOK, MGoto
<1> QED
  BY <1>3, <1>4, <1>6 DEF OwnOK

LEMMA MInsertOK ==
  ASSUME ManagersOK, ProjectRowsOK, NEW m \in Managers, MInsert(m)
  PROVE  /\ OwnOK(m) /\ ProjectRowsOK'
         /\ DOMAIN projects \subseteq DOMAIN projects'
<1> PICK id \in Projects \ DOMAIN projects :
      projects' = [p \in DOMAIN projects \cup {id} |->
                     IF p = id THEN NewProject(mcall[m]) ELSE projects[p]]
  BY DEF MInsert
<1>1. mpc[m] = "insert" /\ MAnswer(m, "ok") /\ UNCHANGED <<tickets, mcall>>
  BY DEF MInsert, ticketVars, vars
<1>2. OwnOK(m)
  BY <1>1, AnswerTyped, AnsweredOK DEF OwnOK, ManagersOK, ManagersTyped
<1>3. IsProject(NewProject(mcall[m]))
  <2>1. IsProjectCall(mcall[m]) /\ mcall[m].op = "create"
    <3>1. mcall[m] \in ProjectCalls /\ mcall[m].op = "create"
      BY <1>1 DEF ManagersOK, PlaceOK
    <3> QED
      BY <3>1, ProjectsAssumption
  <2>2. mcall[m].content \in Contents /\ mcall[m].ownerId \in Users
    BY <2>1 DEF IsProjectCall
  <2> DEFINE row == NewProject(mcall[m])
  <2>3. /\ DOMAIN row = {"content", "ownerId", "isDeleted", "deletedAt"}
        /\ row.content = mcall[m].content /\ row.ownerId = mcall[m].ownerId
        /\ row.isDeleted = FALSE /\ row.deletedAt = NoDate
    BY DEF NewProject
  <2>4. NoDate \in Dates
    BY DEF Dates
  <2> HIDE DEF row
  <2>5. IsProject(row)
    BY <2>2, <2>3, <2>4, ProjectColumnFacts DEF IsProject
  <2> QED
    BY <2>5 DEF row
<1>4. ProjectRowsOK'
  BY <1>3 DEF ProjectRowsOK
<1> QED
  BY <1>2, <1>4

LEMMA MReadsOK ==
  ASSUME IInv, ManagersOK, ProjectRowsOK, NEW m \in Managers,
         MRead(m) \/ MReadDeleted(m)
  PROVE  OwnOK(m)
<1> DEFINE c == mcall[m]
           row == projects[c.id]
<1>1. mpc[m] = "read" /\ UNCHANGED <<tickets, projects, mcall>>
  BY DEF MRead, MReadDeleted, ticketVars, vars
<1>2. IsProjectCall(c) /\ c.op # "create"
  BY <1>1, ProjectsAssumption DEF ManagersOK, PlaceOK, WorkingPcs
<1>3. ASSUME NEW code \in {"403", "404"}, MAnswer(m, code)
      PROVE  OwnOK(m)
  BY <1>1, <1>3, AnswerTyped, AnsweredOK DEF OwnOK, ManagersOK, ManagersTyped
<1>4. ASSUME NEW entity, IsProject(entity), MHold(m, entity),
             c.id \in DOMAIN projects
      PROVE  OwnOK(m)
  <2>1. /\ mpc' = [mpc EXCEPT ![m] = "reload"]
        /\ mentity' = [mentity EXCEPT ![m] = entity]
        /\ UNCHANGED <<mcolumns, cascade, mticket>>
    BY <1>4 DEF MHold, MGoto
  <2>2. ManagersTyped'
    BY <1>1, <2>1 DEF ManagersOK, ManagersTyped, WorkingPcs
  <2>3. PlaceOK(m)'
    BY <1>1, <1>2, <1>4, <2>1
       DEF ManagersOK, ManagersTyped, PlaceOK, CascadePcs, WorkingPcs
  <2>4. EntitiesOK(m)'
    BY <1>1, <1>4, <2>1
       DEF ManagersOK, ManagersTyped, EntitiesOK, CascadePcs
  <2> QED
    BY <2>2, <2>3, <2>4 DEF OwnOK
<1>5. c.id \in DOMAIN projects =>
        IsProject(row) /\ DOMAIN row = ProjectColumns /\ now \in Dates
  BY DEF ProjectRowsOK, IsProject, IInv, TypeOK, Dates
<1>6. CASE MRead(m)
  <2> DEFINE edited == [row EXCEPT !.content = c.content]
             marked == [row EXCEPT !.isDeleted = TRUE, !.deletedAt = now]
  <2>1. CASE c.op = "update" /\ c.id \in DOMAIN projects /\ MHold(m, edited)
    <3>1. c.content \in Contents
      BY <1>2, <2>1 DEF IsProjectCall
    <3> HIDE DEF c, row
    <3>2. IsProject(edited)
      BY <1>5, <2>1, <3>1, ProjectColumnFacts DEF IsProject
    <3> HIDE DEF edited
    <3> QED
      BY <1>4, <2>1, <3>2 DEF c
  <2>2. CASE c.id \in DOMAIN projects /\ MHold(m, marked)
    <3> HIDE DEF c, row
    <3>2. IsProject(marked)
      BY <1>5, <2>2, ProjectColumnFacts DEF IsProject
    <3> HIDE DEF marked
    <3> QED
      BY <1>4, <2>2, <3>2 DEF c
  <2> QED
    BY <1>3, <1>6, <2>1, <2>2 DEF MRead
<1>7. CASE MReadDeleted(m)
  <2> DEFINE cleared == [row EXCEPT !.isDeleted = FALSE, !.deletedAt = NoDate]
  <2>1. CASE c.id \in DOMAIN projects /\ MHold(m, cleared)
    <3> HIDE DEF c, row
    <3>2. IsProject(cleared)
      BY <1>5, <2>1, ProjectColumnFacts DEF IsProject, Dates
    <3> HIDE DEF cleared
    <3> QED
      BY <1>4, <2>1, <3>2 DEF c
  <2> QED
    BY <1>3, <1>7, <2>1 DEF MReadDeleted
<1> QED
  BY <1>6, <1>7

\* What follows save(project).
LEMMA AfterProjectSaveOK ==
  ASSUME ManagersOK, NEW m \in Managers, AfterProjectSave(m),
         mpc[m] \in {"reload", "write"}, UNCHANGED <<tickets, mcall>>,
         DOMAIN projects \subseteq DOMAIN projects'
  PROVE  OwnOK(m)
<1>1. CASE MAnswer(m, "ok")
  BY <1>1, AnswerTyped, AnsweredOK DEF OwnOK, ManagersOK, ManagersTyped
<1>2. CASE /\ \/ mcall[m].op = "restore" /\ MGoto(m, "log")
              \/ mcall[m].op = "remove" /\ MGoto(m, "select")
           /\ UNCHANGED <<mentity, mcolumns, cascade, mticket>>
  <2>1. ManagersTyped'
    BY <1>2 DEF ManagersOK, ManagersTyped, MGoto, WorkingPcs
  <2>2. PlaceOK(m)'
    BY <1>2 DEF ManagersOK, ManagersTyped, PlaceOK, MGoto, CascadePcs, WorkingPcs
  <2>3. EntitiesOK(m)'
    BY <1>2 DEF ManagersOK, ManagersTyped, EntitiesOK, MGoto, CascadePcs
  <2> QED
    BY <2>1, <2>2, <2>3 DEF OwnOK
<1> QED
  BY <1>1, <1>2, AfterProjectSaveCases DEF WorkingPcs

LEMMA MReloadOK ==
  ASSUME ManagersOK, ProjectRowsOK, NEW m \in Managers, MReload(m)
  PROVE  OwnOK(m)
<1> DEFINE columns == Changed(mentity[m], projects[mcall[m].id])
<1>1. mpc[m] = "reload" /\ UNCHANGED <<tickets, projects, mcall>>
  BY DEF MReload, ticketVars, vars
<1>2. CASE AfterProjectSave(m)
  BY <1>1, <1>2, AfterProjectSaveOK
<1>3. CASE /\ mcolumns' = [mcolumns EXCEPT ![m] = columns]
           /\ MGoto(m, "write")
           /\ UNCHANGED <<mentity, cascade, mticket>>
  <2>1. mcall[m].id \in DOMAIN projects
    BY <1>1 DEF ManagersOK, PlaceOK, WorkingPcs
  <2>2. columns \subseteq ProjectColumns
    BY <2>1 DEF ProjectRowsOK, IsProject, Changed
  <2> HIDE DEF columns
  <2>3. ManagersTyped'
    BY <1>1, <1>3 DEF ManagersOK, ManagersTyped, MGoto, WorkingPcs
  <2>4. PlaceOK(m)'
    BY <1>1, <1>3
       DEF ManagersOK, ManagersTyped, PlaceOK, MGoto, CascadePcs, WorkingPcs
  <2>5. EntitiesOK(m)'
    BY <1>1, <1>3, <2>2
       DEF ManagersOK, ManagersTyped, EntitiesOK, MGoto, CascadePcs
  <2> QED
    BY <2>3, <2>4, <2>5 DEF OwnOK
<1> QED
  BY <1>2, <1>3 DEF MReload

LEMMA MWriteOK ==
  ASSUME ManagersOK, ProjectRowsOK, NEW m \in Managers, MWrite(m)
  PROVE  OwnOK(m) /\ ProjectRowsOK' /\ DOMAIN projects \subseteq DOMAIN projects'
<1> DEFINE p == mcall[m].id
           row == Updated(projects[p], mentity[m], mcolumns[m])
<1>1. /\ mpc[m] = "write" /\ UNCHANGED <<tickets, mcall>>
      /\ projects' = [projects EXCEPT ![p] = row]
      /\ AfterProjectSave(m)
  BY DEF MWrite, ticketVars, vars
<1>2. OwnOK(m)
  BY <1>1, AfterProjectSaveOK
<1>3. /\ p \in DOMAIN projects /\ IsProject(mentity[m])
      /\ mcolumns[m] \subseteq ProjectColumns /\ IsProject(projects[p])
  BY <1>1 DEF ManagersOK, PlaceOK, EntitiesOK, WorkingPcs, ProjectRowsOK
<1>4. IsProject(row)
  BY <1>3, UpdatedIsProject
<1> HIDE DEF row
<1> QED
  BY <1>1, <1>2, <1>4 DEF ProjectRowsOK

LEMMA MSelectOK ==
  ASSUME IInv, ManagersOK, NEW m \in Managers, MSelect(m)
  PROVE  OwnOK(m)
<1> DEFINE found == ActiveTickets(mcall[m].id)
<1>1. /\ mpc[m] = "select" /\ UNCHANGED <<tickets, projects, mcall>>
      /\ cascade' = [cascade EXCEPT ![m] = [t \in found |-> tickets[t]]]
      /\ mpc' = [mpc EXCEPT ![m] = IF found = {} THEN "log" ELSE "ticketReload"]
      /\ mcolumns' = [mcolumns EXCEPT ![m] = {}]
      /\ UNCHANGED <<mentity, mticket>>
  BY DEF MSelect, MGoto, ticketVars, vars
<1>2. \A t \in found : /\ t \in DOMAIN tickets /\ IsRow(tickets[t])
                       /\ tickets[t].projectId = mcall[m].id
  BY DEF ActiveTickets, IInv, TypeOK
<1> HIDE DEF found
<1>3. ManagersTyped'
  BY <1>1 DEF ManagersOK, ManagersTyped, WorkingPcs
<1>4. PlaceOK(m)'
  BY <1>1 DEF ManagersOK, ManagersTyped, PlaceOK, CascadePcs, WorkingPcs
<1>5. EntitiesOK(m)'
  <2>1. cascade'[m] = [t \in found |-> tickets[t]]
    BY <1>1 DEF ManagersOK, ManagersTyped
  <2>2. mpc'[m] = (IF found = {} THEN "log" ELSE "ticketReload")
        /\ mcolumns'[m] = {} /\ mcall'[m] = mcall[m] /\ tickets' = tickets
    BY <1>1 DEF ManagersOK, ManagersTyped
  <2> QED
    BY <1>2, <2>1, <2>2 DEF EntitiesOK, CascadePcs
<1> QED
  BY <1>3, <1>4, <1>5 DEF OwnOK

LEMMA MTicketReloadOK ==
  ASSUME IInv, ManagersOK, NEW m \in Managers, MTicketReload(m)
  PROVE  OwnOK(m)
<1> PICK t \in DOMAIN cascade[m] :
      LET row == [cascade[m][t] EXCEPT !.isDeleted = TRUE, !.deletedAt = now]
          columns == Changed(row, tickets[t])
      IN  /\ cascade' = [cascade EXCEPT ![m][t] = row]
          /\ mcolumns' = [mcolumns EXCEPT ![m] = columns]
          /\ mticket' = [mticket EXCEPT ![m] = t]
          /\ MGoto(m, IF columns = {} THEN "ticketLog" ELSE "ticketWrite")
  BY DEF MTicketReload
<1> DEFINE held == cascade[m][t]
           row == [held EXCEPT !.isDeleted = TRUE, !.deletedAt = now]
           columns == Changed(row, tickets[t])
<1>1. mpc[m] = "ticketReload" /\ UNCHANGED <<tickets, projects, mcall, mentity>>
  BY DEF MTicketReload, ticketVars, vars
<1>2. /\ t \in DOMAIN tickets /\ t \in TicketIds /\ IsRow(tickets[t])
      /\ IsRow(held) /\ held.projectId = tickets[t].projectId
      /\ now \in Dates
  BY DEF ManagersOK, EntitiesOK, IInv, TypeOK, Dates
<1>3. IsRow(row) /\ row.projectId = tickets[t].projectId
  <2>1. held = [c \in Columns |-> held[c]]
    BY <1>2 DEF IsRow
  <2> HIDE DEF held
  <2> QED
    BY <1>2, <2>1, ColumnFacts DEF IsRow
<1> HIDE DEF row, held
<1>4. columns \subseteq Columns \ {"projectId"}
  BY <1>2, <1>3 DEF Changed, IsRow
<1>5. /\ cascade' = [cascade EXCEPT ![m][t] = row]
      /\ mcolumns' = [mcolumns EXCEPT ![m] = columns]
      /\ mticket' = [mticket EXCEPT ![m] = t]
      /\ mpc' = [mpc EXCEPT ![m] =
                   IF columns = {} THEN "ticketLog" ELSE "ticketWrite"]
  BY DEF MGoto, row, held
<1> HIDE DEF columns
<1>6. ManagersTyped'
  BY <1>1, <1>2, <1>5 DEF ManagersOK, ManagersTyped, WorkingPcs
<1>7. PlaceOK(m)'
  BY <1>1, <1>5 DEF ManagersOK, ManagersTyped, PlaceOK, CascadePcs, WorkingPcs
<1>8. EntitiesOK(m)'
  <2>1. cascade'[m] = [cascade[m] EXCEPT ![t] = row]
    BY <1>5 DEF ManagersOK, ManagersTyped
  <2>2. /\ mpc'[m] \in {"ticketLog", "ticketWrite"} /\ mticket'[m] = t
        /\ mcolumns'[m] = columns /\ mcall'[m] = mcall[m] /\ tickets' = tickets
    BY <1>1, <1>5 DEF ManagersOK, ManagersTyped
  <2>3. /\ DOMAIN cascade'[m] = DOMAIN cascade[m]
        /\ cascade'[m][t] = row
        /\ \A u \in DOMAIN cascade[m] \ {t} : cascade'[m][u] = cascade[m][u]
    BY <2>1
  <2>4. EntitiesOK(m) /\ mpc'[m] \in CascadePcs
    BY <2>2 DEF ManagersOK, CascadePcs
  <2>5. ASSUME NEW u \in DOMAIN cascade[m]
        PROVE  /\ IsRow(cascade'[m][u])
               /\ cascade'[m][u].projectId = tickets[u].projectId
               /\ tickets[u].projectId = mcall[m].id
    BY <1>2, <1>3, <2>3, <2>4 DEF EntitiesOK
  <2> QED
    BY <1>4, <2>2, <2>3, <2>4, <2>5 DEF EntitiesOK
<1> QED
  BY <1>6, <1>7, <1>8 DEF OwnOK

\* A ticket of the same project in place of another disturbs no request.
LEMMA RewrittenRowKeeps ==
  ASSUME IInv, NEW t \in DOMAIN tickets, NEW row, IsRow(row),
         row.projectId = tickets[t].projectId,
         tickets' = [tickets EXCEPT ![t] = row],
         UNCHANGED <<deps, now, pc, call, target, entityVars, plan>>
  PROVE  IInv' /\ ProjectsKept
<1>1. /\ DOMAIN tickets' = DOMAIN tickets
      /\ \A u \in DOMAIN tickets :
           IsRow(tickets'[u]) /\ tickets'[u].projectId = tickets[u].projectId
  BY DEF IInv, TypeOK
<1>2. TypeOK'
  BY <1>1 DEF IInv, TypeOK, HoldsEntity, entityVars
<1>3. SameProject'
  BY <1>1 DEF IInv, TypeOK, SameProject
<1>4. EntityOK'
  BY <1>1 DEF IInv, TypeOK, EntityOK, entityVars
<1> QED
  BY <1>1, <1>2, <1>3, <1>4 DEF IInv, ProjectsKept

LEMMA MTicketWriteOK ==
  ASSUME IInv, ManagersOK, NEW m \in Managers, MTicketWrite(m)
  PROVE  OwnOK(m) /\ IInv' /\ ProjectsKept
<1> DEFINE t == mticket[m]
           row == Updated(tickets[t], cascade[m][t], mcolumns[m])
<1>1. /\ mpc[m] = "ticketWrite" /\ mpc' = [mpc EXCEPT ![m] = "ticketLog"]
      /\ tickets' = [tickets EXCEPT ![t] = row]
      /\ UNCHANGED <<deps, now, pc, call, target, entityVars, plan,
                     projects, mcall, mentity, mcolumns, cascade, mticket>>
  BY DEF MTicketWrite, MGoto
<1>2. EntitiesOK(m)
  BY DEF ManagersOK
<1>3. /\ t \in DOMAIN tickets /\ IsRow(tickets[t]) /\ IsRow(cascade[m][t])
      /\ mcolumns[m] \subseteq Columns /\ "projectId" \notin mcolumns[m]
      /\ t \in DOMAIN cascade[m]
  BY <1>1, <1>2 DEF EntitiesOK, IInv, TypeOK
<1>4. IsRow(row) /\ row.projectId = tickets[t].projectId
  BY <1>3, UpdatedIsRow
<1> HIDE DEF row, t
<1>5. IInv' /\ ProjectsKept
  BY <1>1, <1>3, <1>4, RewrittenRowKeeps
<1>6. ManagersTyped'
  BY <1>1 DEF ManagersOK, ManagersTyped, WorkingPcs
<1>7. PlaceOK(m)'
  BY <1>1 DEF ManagersOK, ManagersTyped, PlaceOK, CascadePcs, WorkingPcs
<1>8. mpc'[m] = "ticketLog"
  BY <1>1 DEF ManagersOK, ManagersTyped
<1>9. EntitiesOK(m)'
  BY <1>1, <1>2, <1>3, <1>5, <1>8 DEF EntitiesOK, CascadePcs, ProjectsKept, t
<1> QED
  BY <1>5, <1>6, <1>7, <1>9 DEF OwnOK

LEMMA MTicketLogOK ==
  ASSUME ManagersOK, NEW m \in Managers, MTicketLog(m)
  PROVE  OwnOK(m)
<1> DEFINE rest == DOMAIN cascade[m] \ {mticket[m]}
<1>1. /\ mpc[m] = "ticketLog" /\ UNCHANGED <<tickets, projects, mcall>>
      /\ mpc' = [mpc EXCEPT ![m] = IF rest = {} THEN "log" ELSE "ticketReload"]
      /\ cascade' = [cascade EXCEPT ![m] = [t \in rest |-> cascade[m][t]]]
      /\ mticket' = [mticket EXCEPT ![m] = NoTicket]
      /\ mcolumns' = [mcolumns EXCEPT ![m] = {}]
      /\ UNCHANGED mentity
  BY DEF MTicketLog, NextTicket, MGoto, db
<1>2. rest \subseteq DOMAIN cascade[m]
  OBVIOUS
<1> HIDE DEF rest
<1>3. ManagersTyped'
  BY <1>1 DEF ManagersOK, ManagersTyped, WorkingPcs
<1>4. PlaceOK(m)'
  BY <1>1 DEF ManagersOK, ManagersTyped, PlaceOK, CascadePcs, WorkingPcs
<1>5. EntitiesOK(m)'
  <2>1. cascade'[m] = [t \in rest |-> cascade[m][t]]
    BY <1>1 DEF ManagersOK, ManagersTyped
  <2>2. /\ mpc'[m] = (IF rest = {} THEN "log" ELSE "ticketReload")
        /\ mcolumns'[m] = {} /\ mcall'[m] = mcall[m] /\ tickets' = tickets
    BY <1>1 DEF ManagersOK, ManagersTyped
  <2>3. EntitiesOK(m)
    BY DEF ManagersOK
  <2> QED
    BY <1>2, <2>1, <2>2, <2>3 DEF EntitiesOK, CascadePcs
<1> QED
  BY <1>3, <1>4, <1>5 DEF OwnOK

LEMMA MAnswersOK ==
  ASSUME ManagersOK, NEW m \in Managers, MLog(m) \/ MError(m)
  PROVE  OwnOK(m)
<1>1. /\ MAnswer(m, "ok") \/ MAnswer(m, "500")
      /\ UNCHANGED mcall /\ mpc[m] # "idle"
  BY DEF MLog, MError, Working, WorkingPcs
<1> QED
  BY <1>1, AnswerTyped, AnsweredOK DEF OwnOK, ManagersOK, ManagersTyped

-----------------------------------------------------------------------------
(* All requests together.                                                  *)

\* The audit log is no part of the invariant of the tickets.
LEMMA AuditFree ==
  ASSUME IInv, UNCHANGED <<db, now, pc, call, target, entityVars, plan>>
  PROVE  IInv' /\ ProjectsKept
<1>1. TypeOK'
  BY DEF IInv, TypeOK, HoldsEntity, entityVars, db
<1>2. SameProject' /\ EntityOK'
  BY DEF IInv, SameProject, EntityOK, entityVars, db
<1> QED
  BY <1>1, <1>2 DEF IInv, ProjectsKept, db

LEMMA ManagerStepKeeps ==
  ASSUME ProjectsInv, NEW m \in Managers, MMoves(m)
  PROVE  /\ ProjectsInv' /\ ProjectsKept
         /\ DOMAIN projects \subseteq DOMAIN projects'
<1>1. IInv /\ ProjectRowsOK /\ ManagersOK
  BY DEF ProjectsInv
<1>2. IInv' /\ ProjectsKept
  <2>1. CASE MTicketWrite(m)
    BY <1>1, <2>1, MTicketWriteOK
  <2>2. CASE ~MTicketWrite(m)
    <3>1. UNCHANGED <<db, now, pc, call, target, entityVars, plan>>
      BY <2>2 DEF MMoves, MStep, MBegin, MError, MInsert, MRead, MReadDeleted,
         MReload, MWrite, MSelect, MTicketReload, MTicketLog, MLog, ticketVars,
         vars, db, entityVars
    <3> QED
      BY <1>1, <3>1, AuditFree
  <2> QED
    BY <2>1, <2>2
<1>3. ProjectRowsOK' /\ DOMAIN projects \subseteq DOMAIN projects'
  <2>1. CASE MInsert(m) \/ MWrite(m)
    BY <1>1, <2>1, MInsertOK, MWriteOK
  <2>2. CASE ~(MInsert(m) \/ MWrite(m))
    <3>1. projects' = projects
      BY <2>2 DEF MMoves, MStep, MBegin, MError, MRead, MReadDeleted, MReload,
         MSelect, MTicketReload, MTicketWrite, MTicketLog, MLog
    <3> QED
      BY <1>1, <3>1 DEF ProjectRowsOK
  <2> QED
    BY <2>1, <2>2
<1>4. OwnOK(m)
  BY <1>1, MBeginOK, MInsertOK, MReadsOK, MReloadOK, MWriteOK, MSelectOK,
     MTicketReloadOK, MTicketWriteOK, MTicketLogOK, MAnswersOK DEF MMoves, MStep
<1>5. ASSUME NEW n \in Managers, n # m PROVE (PlaceOK(n) /\ EntitiesOK(n))'
  BY <1>1, <1>2, <1>3, <1>5, OtherManagersKept, ManagerKept
<1>6. ManagersOK'
  BY <1>4, <1>5 DEF OwnOK, ManagersOK
<1> QED
  BY <1>2, <1>3, <1>6 DEF ProjectsInv

LEMMA TicketStepKeeps ==
  ASSUME ProjectsInv, [Next]_vars, UNCHANGED projectVars
  PROVE  ProjectsInv' /\ ProjectsKept
<1>1. IInv' /\ ProjectsKept
  BY NextKeeps, NextKeepsProjects DEF ProjectsInv
<1>2. UNCHANGED <<projects, mpc, mcall, mentity, mcolumns, cascade, mticket>>
  BY DEF projectVars, managerVars
<1>3. ProjectRowsOK' /\ ManagersTyped'
  BY <1>2 DEF ProjectsInv, ProjectRowsOK, ManagersOK, ManagersTyped
<1>4. ASSUME NEW n \in Managers PROVE (PlaceOK(n) /\ EntitiesOK(n))'
  BY <1>1, <1>2, ManagerKept DEF ProjectsInv
<1> QED
  BY <1>1, <1>3, <1>4 DEF ProjectsInv, ManagersOK

LEMMA CrashKeepsManagers ==
  ASSUME ProjectsInv, ProjectsCrash
  PROVE  ProjectsInv' /\ ProjectsKept
<1>1. IInv' /\ ProjectsKept
  BY NextKeeps, NextKeepsProjects
     DEF ProjectsInv, ProjectsCrash, Next, ticketVars, vars
<1>2. /\ mpc' = [m \in Managers |-> IF m \in Working THEN "lost" ELSE mpc[m]]
      /\ mentity' = [m \in Managers |-> NoRow]
      /\ mcolumns' = [m \in Managers |-> {}]
      /\ cascade' = [m \in Managers |-> << >>]
      /\ mticket' = [m \in Managers |-> NoTicket]
      /\ UNCHANGED <<projects, mcall>>
  BY DEF ProjectsCrash
<1>3. ASSUME NEW m \in Managers
      PROVE  /\ mpc'[m] \in {"idle", "ok", "403", "404", "500", "lost"}
             /\ mpc'[m] = mpc[m] \/ mpc[m] # "idle"
  BY <1>2 DEF Working, WorkingPcs, ProjectsInv, ManagersOK, ManagersTyped
<1>4. ProjectRowsOK' /\ ManagersTyped'
  BY <1>2, <1>3 DEF ProjectsInv, ProjectRowsOK, ManagersOK, ManagersTyped
<1>5. ASSUME NEW m \in Managers PROVE PlaceOK(m)' /\ EntitiesOK(m)'
  <2>1. PlaceOK(m)'
    BY <1>2, <1>3 DEF ProjectsInv, ManagersOK, PlaceOK, WorkingPcs, CascadePcs
  <2>2. EntitiesOK(m)'
    BY <1>2, <1>3 DEF EntitiesOK
  <2> QED
    BY <2>1, <2>2
<1> QED
  BY <1>1, <1>4, <1>5 DEF ProjectsInv, ManagersOK

\* Every step of the composition is one of these.
LEMMA ProjectsNextCases ==
  ASSUME [ProjectsNext]_everything
  PROVE  \/ [Next]_vars /\ UNCHANGED projectVars
         \/ \E m \in Managers : MMoves(m)
         \/ ProjectsCrash
BY DEF ProjectsNext, TicketRequestStep, Next, MMoves, everything, projectVars

LEMMA InitProjectsInv == ProjectsInit => ProjectsInv
<1> SUFFICES ASSUME ProjectsInit PROVE ProjectsInv
  OBVIOUS
<1>1. IInv
  BY InitIInv DEF ProjectsInit
<1>2. ProjectRowsOK
  BY ProjectsAssumption DEF ProjectsInit, ProjectRowsOK
<1>3. ManagersOK
  BY DEF ProjectsInit, ManagersOK, ManagersTyped, PlaceOK, EntitiesOK,
         WorkingPcs, CascadePcs
<1> QED
  BY <1>1, <1>2, <1>3 DEF ProjectsInv

LEMMA ProjectsNextKeeps == ProjectsInv /\ [ProjectsNext]_everything => ProjectsInv'
BY ProjectsNextCases, TicketStepKeeps, ManagerStepKeeps, CrashKeepsManagers

\* Project requests and requests on tickets keep this together: in particular
\* the cascade of remove() never gives a request on a ticket a row of another
\* project, nor the other way round.
THEOREM ProjectsInvariance == ProjectsSpec => []ProjectsInv
BY InitProjectsInv, ProjectsNextKeeps, PTL DEF ProjectsSpec

\* The rows of both tables stay typed, and the tickets a cascade holds in
\* memory exist and are still in the project they were found in.
THEOREM ProjectsTyping == ProjectsSpec => []ProjectsTypeOK
<1>1. ProjectsInv => ProjectsTypeOK
  BY DEF ProjectsInv, ProjectRowsOK, ManagersOK, ManagersTyped, EntitiesOK,
         ProjectsTypeOK
<1> QED
  BY <1>1, ProjectsInvariance, PTL

-----------------------------------------------------------------------------
(* Isolated: project requests and requests on tickets take turns.          *)

Alone ==
  /\ \A m, n \in Working : m = n
  /\ Working # {} => InFlight = {}

\* The row of the request is still the one it has read.
EditOK(m) ==
  LET c == mcall[m]
      row == projects[c.id]
      entity == mentity[m]
  IN  mpc[m] \in {"reload", "write"} =>
        /\ \/ c.user.role = "ADMIN"
           \/ c.op # "restore" /\ row.ownerId = c.user.id
        /\ entity.ownerId = row.ownerId
        /\ c.op = "update" =>
             /\ ~row.isDeleted /\ ~entity.isDeleted
             /\ entity.deletedAt = row.deletedAt
        /\ c.op = "remove" =>
             /\ ~row.isDeleted /\ entity.isDeleted
             /\ entity.deletedAt # NoDate /\ entity.content = row.content
        /\ c.op = "restore" =>
             /\ row.isDeleted /\ ~entity.isDeleted
             /\ entity.deletedAt = NoDate /\ entity.content = row.content
        /\ mpc[m] = "write" =>
             mcolumns[m] = Changed(entity, row) /\ mcolumns[m] # {}

\* What is not deleted yet is still to come.
CascadeOK(m) ==
  LET t == mticket[m]
  IN  /\ mpc[m] \in {"ticketReload", "ticketWrite", "ticketLog", "log"}
           /\ mcall[m].op = "remove" =>
             \A u \in DOMAIN tickets : tickets[u].projectId = mcall[m].id =>
               tickets[u].isDeleted \/ u \in DOMAIN cascade[m]
      /\ mpc[m] = "ticketWrite" =>
           /\ cascade[m][t].isDeleted
           /\ mcolumns[m] = Changed(cascade[m][t], tickets[t])
      /\ mpc[m] = "ticketLog" => tickets[t].isDeleted

Marked ==
  \A p \in DOMAIN projects :
    projects[p].isDeleted <=> projects[p].deletedAt # NoDate

\* Databases in which the two marks of a deleted project agree.
MarkedSeeds ==
  \A table \in ProjectSeeds : \A p \in DOMAIN table :
    table[p].isDeleted <=> table[p].deletedAt # NoDate

TurnsInv ==
  /\ Alone
  /\ \A m \in Managers : EditOK(m) /\ CascadeOK(m)

LEMMA TicketsRestWhileWorking ==
  ASSUME Isolated, ProjectsInv, Alone, NEW m \in Working,
         [ProjectsNext]_everything
  PROVE  \/ MStep(m) \/ MError(m)
         \/ ProjectsCrash
         \/ UNCHANGED <<tickets, projects, pc, managerVars>>
<1>1. InFlight = {}
  BY DEF Alone
<1>2. ASSUME NEW r \in Requests, TicketRequestStep(r) PROVE FALSE
  <2>1. pc[r] \notin InFlightPcs
    BY <1>1 DEF InFlight
  <2>2. ~Step(r) /\ ~DatabaseError(r)
    BY <2>1
       DEF Step, DatabaseError, Assign, Insert, UpdateRead, RemoveRead,
           RestoreRead, AddDependencyRead, AddDependencyReadBlocker,
           RemoveDependencyRead, Reload, Write, WriteDuplicate, Log, LogAssign,
           At, InFlightPcs
  <2> QED
    BY <1>2, <2>2 DEF TicketRequestStep
<1>3. ASSUME NEW n \in Managers, MBegin(n) \/ MStep(n) \/ MError(n), n # m
      PROVE  FALSE
  <2>1. n \notin Working
    BY <1>3 DEF Alone
  <2>2. ~MBegin(n)
    BY DEF MBegin
  <2>3. mpc[n] \notin WorkingPcs
    BY <2>1 DEF Working
  <2> QED
    BY <1>3, <2>1, <2>2, <2>3
       DEF MStep, MError, MInsert, MRead, MReadDeleted, MReload, MWrite, MSelect,
           MTicketReload, MTicketWrite, MTicketLog, MLog, WorkingPcs
<1>4. ~MBegin(m)
  BY DEF MBegin
<1>5. Tick /\ UNCHANGED projectVars => UNCHANGED <<tickets, projects, pc, managerVars>>
  BY DEF Tick, projectVars, db
<1>6. UNCHANGED everything => UNCHANGED <<tickets, projects, pc, managerVars>>
  BY DEF everything, projectVars, vars
<1> QED
  BY <1>2, <1>3, <1>4, <1>5, <1>6 DEF ProjectsNext

LEMMA NotWorkingWaits ==
  ASSUME ProjectsInv, NEW m \in Managers, m \notin Working,
         [ProjectsNext]_everything
  PROVE  mpc'[m] = mpc[m] \/ (MBegin(m) /\ mpc'[m] \in {"insert", "read"})
<1>1. ManagersOK
  BY DEF ProjectsInv
<1>2. CASE UNCHANGED projectVars
  BY <1>2 DEF projectVars, managerVars
<1>3. ASSUME NEW n \in Managers, n # m, MMoves(n) PROVE mpc'[m] = mpc[m]
  BY <1>1, <1>3, OtherManagersKept
<1>4. ~MStep(m) /\ ~MError(m)
  BY DEF Working, MStep, MError, MInsert, MRead, MReadDeleted, MReload, MWrite,
     MSelect, MTicketReload, MTicketWrite, MTicketLog, MLog, WorkingPcs
<1>5. MBegin(m) => mpc'[m] \in {"insert", "read"}
  BY <1>1 DEF MBegin, MGoto, ManagersOK, ManagersTyped
<1>6. ProjectsCrash => mpc'[m] = mpc[m]
  BY DEF ProjectsCrash
<1> QED
  BY <1>2, <1>3, <1>4, <1>5, <1>6, ProjectsNextCases DEF MMoves

\* Neither lemma below needs more of a step than where it leads.
LEMMA ElsewhereOK ==
  ASSUME NEW m \in Managers,
         mpc'[m] \notin {"reload", "write", "ticketReload", "ticketWrite",
                         "ticketLog", "log"}
  PROVE  EditOK(m)' /\ CascadeOK(m)'
BY DEF EditOK, CascadeOK

LEMMA ReadTurn ==
  ASSUME ProjectsInv, NEW m \in Managers, MRead(m) \/ MReadDeleted(m)
  PROVE  EditOK(m)' /\ CascadeOK(m)'
<1> DEFINE c == mcall[m]
           row == projects[c.id]
<1>1. mpc[m] = "read" /\ UNCHANGED <<tickets, projects, mcall>>
  BY DEF MRead, MReadDeleted, ticketVars, vars
<1>2. ManagersOK /\ ManagersTyped /\ now # NoDate
  BY DEF ProjectsInv, ManagersOK, IInv, TypeOK, NoDate
<1>3. ASSUME NEW code \in {"403", "404"}, MAnswer(m, code)
      PROVE  EditOK(m)' /\ CascadeOK(m)'
  BY <1>2, <1>3, MAnswerFacts, ElsewhereOK
<1>4. ASSUME NEW entity, MHold(m, entity)
      PROVE  mpc'[m] = "reload" /\ mentity'[m] = entity
  BY <1>2, <1>4 DEF MHold, MGoto, ManagersTyped
<1>5. c.id \in DOMAIN projects => DOMAIN row = ProjectColumns
  BY DEF ProjectsInv, ProjectRowsOK, IsProject
<1>6. CASE MRead(m)
  <2> DEFINE edited == [row EXCEPT !.content = c.content]
             marked == [row EXCEPT !.isDeleted = TRUE, !.deletedAt = now]
  <2>0. c.op \in {"update", "remove"}
    BY <1>6 DEF MRead
  <2>1. CASE /\ c.op = "update" /\ c.id \in DOMAIN projects /\ ~row.isDeleted
             /\ MayManage(c) /\ MHold(m, edited)
    <3>1. /\ edited.ownerId = row.ownerId /\ ~edited.isDeleted
          /\ edited.deletedAt = row.deletedAt
      BY <1>5, <2>1, ProjectColumnFacts
    <3>2. mpc'[m] = "reload" /\ mentity'[m] = edited
      BY <1>4, <2>1
    <3> HIDE DEF edited
    <3> QED
      BY <1>1, <2>1, <3>1, <3>2 DEF EditOK, CascadeOK, MayManage
  <2>2. CASE /\ c.op = "remove" /\ c.id \in DOMAIN projects /\ ~row.isDeleted
             /\ MayManage(c) /\ MHold(m, marked)
    <3>1. /\ marked.ownerId = row.ownerId /\ marked.content = row.content
          /\ marked.isDeleted /\ marked.deletedAt = now
      BY <1>5, <2>2, ProjectColumnFacts
    <3>2. mpc'[m] = "reload" /\ mentity'[m] = marked
      BY <1>4, <2>2
    <3> HIDE DEF marked
    <3> QED
      BY <1>1, <1>2, <2>2, <3>1, <3>2 DEF EditOK, CascadeOK, MayManage
  <2> QED
    BY <1>3, <1>6, <2>0, <2>1, <2>2 DEF MRead
<1>7. CASE MReadDeleted(m)
  <2> DEFINE cleared == [row EXCEPT !.isDeleted = FALSE, !.deletedAt = NoDate]
  <2>0. c.op = "restore"
    BY <1>7 DEF MReadDeleted
  <2>1. CASE /\ c.user.role = "ADMIN" /\ c.id \in DOMAIN projects
             /\ row.isDeleted /\ MHold(m, cleared)
    <3>1. /\ cleared.ownerId = row.ownerId /\ cleared.content = row.content
          /\ ~cleared.isDeleted /\ cleared.deletedAt = NoDate
      BY <1>5, <2>1, ProjectColumnFacts
    <3>2. mpc'[m] = "reload" /\ mentity'[m] = cleared
      BY <1>4, <2>1
    <3> HIDE DEF cleared
    <3> QED
      BY <1>1, <2>0, <2>1, <3>1, <3>2 DEF EditOK, CascadeOK
  <2> QED
    BY <1>3, <1>7, <2>1 DEF MReadDeleted
<1> QED
  BY <1>6, <1>7

LEMMA SaveTurn ==
  ASSUME ProjectsInv, NEW m \in Managers, EditOK(m), MReload(m) \/ MWrite(m)
  PROVE  EditOK(m)' /\ CascadeOK(m)'
<1>1. ManagersOK /\ ManagersTyped
  BY DEF ProjectsInv, ManagersOK
<1>2. CASE AfterProjectSave(m)
  <2>1. mpc[m] \in WorkingPcs \ {"insert"}
    BY DEF MReload, MWrite, WorkingPcs
  <2>2. \/ mpc'[m] \in {"ok", "select"}
        \/ mpc'[m] = "log" /\ mcall[m].op = "restore"
    BY <1>1, <1>2, <2>1, AfterProjectSaveCases, MAnswerFacts
       DEF MGoto, ManagersTyped
  <2>3. mcall' = mcall
    BY DEF MReload, MWrite
  <2> QED
    BY <2>2, <2>3 DEF EditOK, CascadeOK
<1>3. CASE ~AfterProjectSave(m)
  <2> DEFINE columns == Changed(mentity[m], projects[mcall[m].id])
  <2>1. /\ mpc[m] = "reload" /\ columns # {}
        /\ mcolumns'[m] = columns /\ mpc'[m] = "write"
        /\ UNCHANGED <<mentity, projects, mcall>>
    BY <1>1, <1>3 DEF MReload, MWrite, MGoto, ManagersTyped
  <2> QED
    BY <2>1 DEF EditOK, CascadeOK
<1> QED
  BY <1>2, <1>3

LEMMA CascadeTurn ==
  ASSUME ProjectsInv, NEW m \in Managers, CascadeOK(m),
         MSelect(m) \/ MTicketReload(m) \/ MTicketWrite(m) \/ MTicketLog(m)
  PROVE  EditOK(m)' /\ CascadeOK(m)'
<1>1. ManagersOK /\ ManagersTyped /\ EntitiesOK(m) /\ PlaceOK(m)
  BY DEF ProjectsInv, ManagersOK
<1>2. mcall' = mcall
  BY DEF MSelect, MTicketReload, MTicketWrite, MTicketLog
<1>3. CASE MSelect(m)
  <2> DEFINE found == ActiveTickets(mcall[m].id)
  <2>1. /\ mpc'[m] \in {"log", "ticketReload"} /\ tickets' = tickets
        /\ cascade'[m] = [t \in found |-> tickets[t]]
    BY <1>1, <1>3 DEF MSelect, MGoto, ManagersTyped, ticketVars, vars
  <2>2. DOMAIN cascade'[m] = found
    BY <2>1
  <2> QED
    BY <1>2, <2>1, <2>2 DEF EditOK, CascadeOK, ActiveTickets
<1>4. CASE MTicketReload(m)
  <2> PICK t \in DOMAIN cascade[m] :
        LET row == [cascade[m][t] EXCEPT !.isDeleted = TRUE, !.deletedAt = now]
            columns == Changed(row, tickets[t])
        IN  /\ cascade' = [cascade EXCEPT ![m][t] = row]
            /\ mcolumns' = [mcolumns EXCEPT ![m] = columns]
            /\ mticket' = [mticket EXCEPT ![m] = t]
            /\ MGoto(m, IF columns = {} THEN "ticketLog" ELSE "ticketWrite")
    BY <1>4 DEF MTicketReload
  <2> DEFINE held == cascade[m][t]
             row == [held EXCEPT !.isDeleted = TRUE, !.deletedAt = now]
             columns == Changed(row, tickets[t])
  <2>1. mpc[m] = "ticketReload" /\ tickets' = tickets
    BY <1>4 DEF MTicketReload, ticketVars, vars
  <2>2. IsRow(held) /\ IsRow(tickets[t])
    BY <1>1 DEF EntitiesOK, ProjectsInv, IInv, TypeOK
  <2> HIDE DEF held
  <2>3. row.isDeleted = TRUE
    BY <2>2, ColumnFacts DEF IsRow
  <2> HIDE DEF row
  <2>4. columns = {} => tickets[t].isDeleted
    BY <2>2, <2>3, ColumnFacts DEF Changed, IsRow
  <2>5. /\ cascade' = [cascade EXCEPT ![m][t] = row]
        /\ mcolumns'[m] = columns /\ mticket'[m] = t
        /\ mpc'[m] = IF columns = {} THEN "ticketLog" ELSE "ticketWrite"
    BY <1>1 DEF MGoto, ManagersTyped, row, held
  <2> HIDE DEF columns
  <2>6. cascade'[m][t] = row /\ DOMAIN cascade'[m] = DOMAIN cascade[m]
    BY <1>1, <2>5 DEF ManagersTyped
  <2>7. mcall[m].op = "remove"
    BY <1>1, <2>1 DEF PlaceOK, CascadePcs
  <2> QED
    BY <1>2, <2>1, <2>3, <2>4, <2>5, <2>6, <2>7
       DEF EditOK, CascadeOK, columns
<1>5. CASE MTicketWrite(m)
  <2> DEFINE t == mticket[m]
             row == Updated(tickets[t], cascade[m][t], mcolumns[m])
  <2>1. /\ mpc[m] = "ticketWrite" /\ mpc'[m] = "ticketLog"
        /\ tickets' = [tickets EXCEPT ![t] = row]
        /\ UNCHANGED <<cascade, mticket>>
    BY <1>1, <1>5 DEF MTicketWrite, MGoto, ManagersTyped
  <2>2. /\ t \in DOMAIN tickets /\ IsRow(tickets[t])
        /\ mcolumns[m] = Changed(cascade[m][t], tickets[t])
        /\ cascade[m][t].isDeleted /\ IsRow(cascade[m][t])
    BY <1>1, <2>1 DEF EntitiesOK, CascadeOK, ProjectsInv, IInv, TypeOK
  <2>3. row.isDeleted
    BY <2>2, ColumnFacts DEF Updated, Changed, IsRow
  <2> HIDE DEF row
  <2>4. /\ DOMAIN tickets' = DOMAIN tickets /\ tickets'[t].isDeleted
        /\ \A u \in DOMAIN tickets \ {t} : tickets'[u] = tickets[u]
    BY <2>1, <2>2, <2>3
  <2>5. mcall[m].op = "remove"
    BY <1>1, <2>1 DEF PlaceOK, CascadePcs
  <2>6. ProjectsKept
    BY <1>5, MTicketWriteOK DEF ProjectsInv
  <2> QED
    BY <1>2, <2>1, <2>4, <2>5, <2>6 DEF EditOK, CascadeOK, ProjectsKept
<1>6. CASE MTicketLog(m)
  <2> DEFINE rest == DOMAIN cascade[m] \ {mticket[m]}
  <2>1. /\ mpc[m] = "ticketLog" /\ mpc'[m] \in {"log", "ticketReload"}
        /\ cascade'[m] = [t \in rest |-> cascade[m][t]]
        /\ tickets' = tickets
    BY <1>1, <1>6 DEF MTicketLog, NextTicket, MGoto, ManagersTyped, db
  <2>2. DOMAIN cascade'[m] = rest
    BY <2>1
  <2>3. mcall[m].op = "remove"
    BY <1>1, <2>1 DEF PlaceOK, CascadePcs
  <2> QED
    BY <1>2, <2>1, <2>2, <2>3 DEF EditOK, CascadeOK
<1> QED
  BY <1>3, <1>4, <1>5, <1>6

LEMMA MarkedKept ==
  ASSUME ProjectsInv, Marked, NEW m \in Managers, EditOK(m), MMoves(m)
  PROVE  Marked'
<1>1. CASE MInsert(m)
  BY <1>1 DEF MInsert, NewProject, Marked
<1>2. CASE MWrite(m)
  <2> DEFINE p == mcall[m].id
             row == Updated(projects[p], mentity[m], mcolumns[m])
  <2>1. /\ mpc[m] = "write" /\ projects' = [projects EXCEPT ![p] = row]
    BY <1>2 DEF MWrite
  <2>2. /\ p \in DOMAIN projects /\ IsProject(projects[p])
        /\ mcall[m].op \in {"update", "remove", "restore"}
    BY <2>1
       DEF ProjectsInv, ManagersOK, PlaceOK, ProjectRowsOK, WorkingPcs
  <2>3. mcolumns[m] = Changed(mentity[m], projects[p])
    BY <2>1 DEF EditOK
  <2>4. row.isDeleted = mentity[m].isDeleted /\ row.deletedAt = mentity[m].deletedAt
    BY <2>2, <2>3, ProjectColumnFacts DEF Updated, Changed, IsProject
  <2>5. mentity[m].isDeleted <=> mentity[m].deletedAt # NoDate
    BY <2>1, <2>2 DEF EditOK, Marked
  <2> HIDE DEF row
  <2> QED
    BY <2>1, <2>4, <2>5 DEF Marked
<1>3. CASE ~MInsert(m) /\ ~MWrite(m)
  <2>1. projects' = projects
    BY <1>3 DEF MMoves, MStep, MBegin, MError, MRead, MReadDeleted, MReload,
       MSelect, MTicketReload, MTicketWrite, MTicketLog, MLog
  <2> QED
    BY <2>1 DEF Marked
<1> QED
  BY <1>1, <1>2, <1>3

LEMMA AloneKept ==
  ASSUME Isolated, ProjectsInv, Alone, [ProjectsNext]_everything
  PROVE  Alone'
<1>1. ManagersOK /\ pc \in [Requests -> {"idle"} \cup InFlightPcs \cup Answers]
  BY DEF ProjectsInv, IInv, TypeOK
<1>2. CASE Working # {}
  <2> PICK m \in Managers : m \in Working
    BY <1>2 DEF Working
  <2>1. \A n \in Managers : n # m => n \notin Working
    BY DEF Alone
  <2>2. CASE ProjectsCrash
    <3>1. Working' = {}
      BY <2>2 DEF ProjectsCrash, Working, WorkingPcs
    <3> QED
      BY <3>1 DEF Alone
  <2>3. CASE UNCHANGED <<tickets, projects, pc, managerVars>>
    BY <2>3 DEF Alone, Working, InFlight, managerVars
  <2>4. CASE MStep(m) \/ MError(m)
    <3>1. \A n \in Managers : n # m => mpc'[n] = mpc[n]
      BY <1>1, <2>4, OtherManagersKept DEF MMoves
    <3>2. Working' \subseteq {m}
      BY <2>1, <3>1 DEF Working
    <3>3. pc' = pc
      BY <2>4 DEF MStep, MError, MInsert, MRead, MReadDeleted, MReload, MWrite,
         MSelect, MTicketReload, MTicketWrite, MTicketLog, MLog, ticketVars, vars
    <3>4. InFlight' = {}
      BY <1>2, <3>3 DEF Alone, InFlight
    <3> QED
      BY <3>2, <3>4 DEF Alone
  <2> QED
    BY <2>2, <2>3, <2>4, TicketsRestWhileWorking
<1>3. CASE Working = {}
  <2>1. \A n \in Managers : mpc[n] \notin WorkingPcs
    BY <1>3 DEF Working
  <2>2. ASSUME NEW m \in Managers, MMoves(m) PROVE Alone'
    <3>1. MBegin(m)
      BY <2>1, <2>2
         DEF MMoves, MStep, MError, MInsert, MRead, MReadDeleted, MReload,
             MWrite, MSelect, MTicketReload, MTicketWrite, MTicketLog, MLog,
             WorkingPcs, Working
    <3>2. \A n \in Managers : n # m => mpc'[n] = mpc[n]
      BY <1>1, <2>2, OtherManagersKept
    <3>3. Working' \subseteq {m}
      BY <2>1, <3>2 DEF Working
    <3>4. InFlight' = {}
      BY <3>1 DEF MBegin, InFlight, ticketVars, vars
    <3> QED
      BY <3>3, <3>4 DEF Alone
  <2>3. CASE UNCHANGED projectVars
    BY <1>3, <2>3 DEF Alone, Working, projectVars, managerVars
  <2>4. CASE ProjectsCrash
    <3>1. Working' = {}
      BY <2>4 DEF ProjectsCrash, Working, WorkingPcs
    <3> QED
      BY <3>1 DEF Alone
  <2> QED
    BY <2>2, <2>3, <2>4, ProjectsNextCases
<1> QED
  BY <1>2, <1>3

LEMMA TurnsNextKeeps ==
  ASSUME Isolated
  PROVE  ProjectsInv /\ TurnsInv /\ [ProjectsNext]_everything => TurnsInv'
<1> SUFFICES ASSUME ProjectsInv, TurnsInv, [ProjectsNext]_everything
             PROVE  TurnsInv'
  OBVIOUS
<1>2. Alone'
  BY AloneKept DEF TurnsInv
<1>3. ASSUME NEW m \in Managers PROVE EditOK(m)' /\ CascadeOK(m)'
  <2>1. ManagersOK /\ ManagersTyped /\ EditOK(m) /\ CascadeOK(m)
    BY DEF ProjectsInv, ManagersOK, TurnsInv
  <2>2. CASE m \notin Working
    <3>1. mpc'[m] \notin WorkingPcs \/ mpc'[m] \in {"insert", "read"}
      BY <2>2, NotWorkingWaits DEF Working
    <3> QED
      BY <3>1, ElsewhereOK DEF WorkingPcs
  <2>3. CASE m \in Working
    <3>1. CASE ProjectsCrash
      <4>1. mpc'[m] = "lost"
        BY <2>3, <3>1 DEF ProjectsCrash
      <4> QED
        BY <4>1, ElsewhereOK
    <3>2. CASE UNCHANGED <<tickets, projects, managerVars>>
      BY <2>1, <3>2 DEF EditOK, CascadeOK, managerVars
    <3>3. CASE MInsert(m) \/ MLog(m) \/ MError(m)
      <4>1. mpc'[m] \in {"ok", "500"}
        BY <2>1, <3>3, MAnswerFacts DEF MInsert, MLog, MError
      <4> QED
        BY <4>1, ElsewhereOK
    <3> QED
      BY <2>1, <2>3, <3>1, <3>2, <3>3, TicketsRestWhileWorking, ReadTurn,
         SaveTurn, CascadeTurn DEF MStep, TurnsInv
  <2> QED
    BY <2>2, <2>3
<1> QED
  BY <1>2, <1>3 DEF TurnsInv

LEMMA InitTurns == ProjectsInit => TurnsInv
BY DEF ProjectsInit, TurnsInv, Alone, Working, WorkingPcs, EditOK, CascadeOK

\* When requests take turns, the row a project request saves is the one it
\* has read, and the tickets a cascade has not deleted are those it holds.
THEOREM RequestsTakeTurns ==
  ASSUME Isolated
  PROVE  ProjectsSpec => [](ProjectsInv /\ TurnsInv)
<1>1. ProjectsInv /\ TurnsInv /\ [ProjectsNext]_everything
        => (ProjectsInv /\ TurnsInv)'
  BY TurnsNextKeeps, ProjectsNextKeeps
<1>2. ProjectsInit => ProjectsInv /\ TurnsInv
  BY InitProjectsInv, InitTurns
<1> QED
  BY <1>1, <1>2, PTL DEF ProjectsSpec

\* The date of its deletion and the flag agree on whether a project is
\* deleted, if they do when the server starts.
THEOREM ProjectsStayMarked ==
  ASSUME Isolated, MarkedSeeds
  PROVE  ProjectsSpec => []Marked
<1>1. ProjectsInit => Marked
  BY DEF ProjectsInit, Marked, MarkedSeeds
<1>2. ProjectsInv /\ TurnsInv /\ Marked /\ [ProjectsNext]_everything => Marked'
  <2>1. projects' = projects /\ Marked => Marked'
    BY DEF Marked
  <2>2. UNCHANGED projectVars \/ ProjectsCrash => projects' = projects
    BY DEF projectVars, ProjectsCrash
  <2> QED
    BY <2>1, <2>2, MarkedKept, ProjectsNextCases DEF TurnsInv
<1> QED
  BY <1>1, <1>2, RequestsTakeTurns, PTL DEF ProjectsSpec

\* remove() of a project leaves no active ticket in it, also when it goes over
\* the work of an earlier removal that failed half way.
THEOREM CascadesReachAll ==
  ASSUME Isolated
  PROVE  ProjectsSpec => CascadeReachesAll
<1>1. ProjectsInv /\ TurnsInv /\ [ProjectsNext]_everything =>
        \A m \in Managers : Succeeds(m) /\ mcall[m].op = "remove" =>
          \A t \in DOMAIN tickets :
            tickets[t].projectId = mcall[m].id => tickets[t].isDeleted
  <2> SUFFICES ASSUME ProjectsInv, TurnsInv, [ProjectsNext]_everything,
                      NEW m \in Managers, Succeeds(m), mcall[m].op = "remove",
                      NEW t \in DOMAIN tickets,
                      tickets[t].projectId = mcall[m].id
               PROVE  tickets[t].isDeleted
    OBVIOUS
  <2>1. /\ ManagersOK /\ ManagersTyped /\ m \in Working /\ mpc'[m] = "ok"
        /\ PlaceOK(m) /\ EntitiesOK(m) /\ CascadeOK(m)
    BY DEF Succeeds, ProjectsInv, ManagersOK, TurnsInv
  <2>2. MStep(m) \/ MError(m)
    <3>1. ProjectsCrash => mpc'[m] = "lost"
      BY <2>1 DEF ProjectsCrash
    <3>2. UNCHANGED managerVars => mpc'[m] = mpc[m]
      BY DEF managerVars
    <3>3. mpc[m] # "ok"
      BY <2>1 DEF Working, WorkingPcs
    <3> QED
      BY <2>1, <3>1, <3>2, <3>3, TicketsRestWhileWorking DEF TurnsInv
  <2>3. MLog(m)
    <3>1. ~MError(m) /\ ~MRead(m) /\ ~MReadDeleted(m)
      BY <2>1, MAnswerFacts
         DEF MError, MRead, MReadDeleted, MHold, MGoto, ManagersTyped
    <3>2. ~MInsert(m)
      BY <2>1 DEF MInsert, PlaceOK
    <3>3. ~MReload(m) /\ ~MWrite(m)
      <4>1. AfterProjectSave(m) /\ mpc[m] \in {"reload", "write"} =>
              mpc'[m] = "select"
        BY <2>1, AfterProjectSaveCases DEF MGoto, ManagersTyped, WorkingPcs
      <4> QED
        BY <2>1, <4>1 DEF MReload, MWrite, MGoto, ManagersTyped
    <3>4. ~MSelect(m) /\ ~MTicketReload(m) /\ ~MTicketWrite(m) /\ ~MTicketLog(m)
      BY <2>1 DEF MSelect, MTicketReload, MTicketWrite, MTicketLog, NextTicket,
                  MGoto, ManagersTyped
    <3> QED
      BY <2>2, <3>1, <3>2, <3>3, <3>4 DEF MStep
  <2>4. mpc[m] = "log" /\ DOMAIN cascade[m] = {}
    BY <2>1, <2>3 DEF MLog, EntitiesOK, CascadePcs
  <2> QED
    BY <2>1, <2>4 DEF CascadeOK
<1> QED
  BY <1>1, RequestsTakeTurns, PTL DEF ProjectsSpec, CascadeReachesAll

\* A project request changes the project it names, in the columns it is about,
\* and the tickets in it only, and it does so for the owner or an
\* administrator; an edit never brings a removed project back.
THEOREM ProjectChangesAreAllowed ==
  ASSUME Isolated, MarkedSeeds
  PROVE  ProjectsSpec => ChangesAllowed
<1>1. ASSUME ProjectsInv, TurnsInv, Marked, [ProjectsNext]_everything,
             NEW m \in Managers, mpc[m] \in {"write", "ticketWrite"},
             mpc'[m] # mpc[m]
      PROVE  LET c == mcall[m]
             IN  /\ \A p \in DOMAIN projects : projects'[p] # projects[p] =>
                      /\ p = c.id
                      /\ \/ c.user.role = "ADMIN"
                         \/ c.op # "restore" /\ projects[p].ownerId = c.user.id
                      /\ Changed(projects'[p], projects[p]) =
                           IF c.op = "update" THEN {"content"}
                           ELSE {"isDeleted", "deletedAt"}
                      /\ projects'[p].isDeleted <=> c.op = "remove"
                 /\ \A t \in DOMAIN tickets : tickets'[t] # tickets[t] =>
                      tickets[t].projectId = c.id
  <2>1. /\ ManagersOK /\ ManagersTyped /\ m \in Working
        /\ PlaceOK(m) /\ EntitiesOK(m) /\ EditOK(m)
    BY <1>1 DEF ProjectsInv, ManagersOK, TurnsInv, Working, WorkingPcs
  <2>2. CASE UNCHANGED <<projects, tickets>>
    BY <2>2
  <2>3. CASE MTicketWrite(m)
    <3>1. /\ mpc[m] = "ticketWrite" /\ projects' = projects
          /\ \A t \in DOMAIN tickets : t # mticket[m] => tickets'[t] = tickets[t]
      BY <2>3 DEF MTicketWrite
    <3>2. tickets[mticket[m]].projectId = mcall[m].id
      BY <2>1, <3>1 DEF EntitiesOK
    <3> QED
      BY <3>1, <3>2
  <2>4. CASE MWrite(m)
    <3> DEFINE c == mcall[m]
               p == c.id
               row == Updated(projects[p], mentity[m], mcolumns[m])
    <3>1. /\ mpc[m] = "write" /\ projects' = [projects EXCEPT ![p] = row]
          /\ tickets' = tickets
      BY <2>4 DEF MWrite, ticketVars, vars
    <3>2. /\ p \in DOMAIN projects /\ DOMAIN projects[p] = ProjectColumns
          /\ c.op \in {"update", "remove", "restore"}
      BY <1>1, <2>1, <3>1
         DEF PlaceOK, ProjectsInv, ProjectRowsOK, IsProject, WorkingPcs
    <3>3. mcolumns[m] = Changed(mentity[m], projects[p]) /\ mcolumns[m] # {}
      BY <2>1, <3>1 DEF EditOK
    <3>4. \A k \in ProjectColumns : row[k] = mentity[m][k]
      BY <3>2, <3>3, ProjectColumnFacts DEF Updated, Changed
    <3>5. Changed(row, projects[p]) = mcolumns[m]
      BY <3>2, <3>3, <3>4 DEF Changed
    <3>6. mcolumns[m] = IF c.op = "update" THEN {"content"}
                        ELSE {"isDeleted", "deletedAt"}
      <4>1. CASE c.op = "update"
        <5>1. /\ ~projects[p].isDeleted /\ ~mentity[m].isDeleted
              /\ mentity[m].deletedAt = projects[p].deletedAt
              /\ mentity[m].ownerId = projects[p].ownerId
          BY <2>1, <3>1, <4>1 DEF EditOK
        <5>2. projects[p].isDeleted = mentity[m].isDeleted
          BY <1>1, <2>1, <3>1, <3>2, <5>1, ProjectColumnFacts
             DEF ProjectsInv, ProjectRowsOK, IsProject, EntitiesOK
        <5>3. mcolumns[m] = {"content"}
          BY <3>2, <3>3, <5>1, <5>2, ProjectColumnFacts DEF Changed
        <5> QED
          BY <4>1, <5>3
      <4>2. CASE c.op \in {"remove", "restore"}
        <5>1. /\ mentity[m].content = projects[p].content
              /\ mentity[m].ownerId = projects[p].ownerId
              /\ mentity[m].isDeleted <=> ~projects[p].isDeleted
              /\ mentity[m].deletedAt = NoDate <=> projects[p].deletedAt # NoDate
          BY <1>1, <2>1, <3>1, <3>2, <4>2 DEF EditOK, Marked
        <5>2. /\ mentity[m].isDeleted # projects[p].isDeleted
              /\ mentity[m].deletedAt # projects[p].deletedAt
          BY <5>1
        <5>3. mcolumns[m] = {"isDeleted", "deletedAt"}
          BY <3>2, <3>3, <5>1, <5>2, ProjectColumnFacts DEF Changed
        <5> QED
          BY <4>2, <5>3
      <4> QED
        BY <3>2, <4>1, <4>2
    <3>7. row.isDeleted <=> c.op = "remove"
      <4>1. row.isDeleted = mentity[m].isDeleted
        BY <3>4, ProjectColumnFacts
      <4> HIDE DEF row
      <4> QED
        BY <2>1, <3>1, <3>2, <4>1 DEF EditOK
    <3>8. \/ c.user.role = "ADMIN"
          \/ c.op # "restore" /\ projects[p].ownerId = c.user.id
      BY <2>1, <3>1 DEF EditOK
    <3>9. /\ projects'[p] = row
          /\ \A q \in DOMAIN projects \ {p} : projects'[q] = projects[q]
      BY <3>1, <3>2
    <3> HIDE DEF row
    <3> QED
      BY <3>1, <3>5, <3>6, <3>7, <3>8, <3>9
  <2>5. CASE MStep(m) /\ ~MTicketWrite(m) /\ ~MWrite(m)
    BY <1>1, <2>5
       DEF MStep, MInsert, MRead, MReadDeleted, MReload, MSelect, MTicketReload,
           MTicketLog, MLog
  <2>6. MError(m) \/ ProjectsCrash => UNCHANGED <<projects, tickets>>
    BY DEF MError, ProjectsCrash, Crash, ticketVars, vars, db
  <2> QED
    BY <1>1, <2>1, <2>2, <2>3, <2>4, <2>5, <2>6, TicketsRestWhileWorking
       DEF TurnsInv
<1>2. ProjectsInv /\ TurnsInv /\ Marked /\ [ProjectsNext]_everything =>
        \A m \in Managers :
          mpc[m] \in {"write", "ticketWrite"} /\ mpc'[m] # mpc[m] =>
            LET c == mcall[m]
            IN  /\ \A p \in DOMAIN projects : projects'[p] # projects[p] =>
                     /\ p = c.id
                     /\ \/ c.user.role = "ADMIN"
                        \/ c.op # "restore" /\ projects[p].ownerId = c.user.id
                     /\ Changed(projects'[p], projects[p]) =
                          IF c.op = "update" THEN {"content"}
                          ELSE {"isDeleted", "deletedAt"}
                     /\ projects'[p].isDeleted <=> c.op = "remove"
                /\ \A t \in DOMAIN tickets : tickets'[t] # tickets[t] =>
                     tickets[t].projectId = c.id
  BY <1>1
<1> QED
  BY <1>2, RequestsTakeTurns, ProjectsStayMarked, PTL
     DEF ProjectsSpec, ChangesAllowed

-----------------------------------------------------------------------------
(* The log of deletions, with requests that interleave.                    *)

\* The request x may be the one that deleted t without logging it.
GuiltyRequest(r, t) ==
  /\ r \in Requests
  /\ call[r].op = "remove"
  /\ (pc[r] = "log" /\ target[r] = t) \/ pc[r] \in {"500", "lost"}

GuiltyManager(m, t) ==
  /\ m \in Managers
  /\ mcall[m].op = "remove"
  /\ (mpc[m] = "ticketLog" /\ mticket[m] = t) \/ mpc[m] \in {"500", "lost"}

Guilty(x, t) == GuiltyRequest(x, t) \/ GuiltyManager(x, t)

\* Each unlogged deletion has a request of its own to blame.
Blames(f) ==
  /\ \A t \in UnloggedDeletions : Guilty(f[t], t)
  /\ \A t, u \in UnloggedDeletions : f[t] = f[u] => t = u

DeletionsInv ==
  /\ \A r \in Requests : EntityDeletes(r)
  /\ \E f : Blames(f)

\* The step of a request deletes the ticket t0 at most.
LEMMA BlameMoves ==
  ASSUME NEW f, Blames(f), NEW x, NEW t0,
         UnloggedDeletions' \subseteq TicketIds,
         \A t \in UnloggedDeletions' \ {t0} :
           t \in UnloggedDeletions /\ Guilty(f[t], t)',
         t0 \in UnloggedDeletions' =>
           \/ t0 \in UnloggedDeletions /\ Guilty(f[t0], t0)'
           \/ Guilty(x, t0)' /\ \A t \in UnloggedDeletions : f[t] # x
  PROVE  \E g : Blames(g)'
<1>1. CASE t0 \in UnloggedDeletions' => t0 \in UnloggedDeletions /\ Guilty(f[t0], t0)'
  BY <1>1 DEF Blames
<1>2. CASE /\ t0 \in UnloggedDeletions' /\ Guilty(x, t0)'
           /\ \A t \in UnloggedDeletions : f[t] # x
  <2> DEFINE g == [t \in TicketIds |-> IF t = t0 THEN x ELSE f[t]]
  <2>1. g[t0] = x /\ \A t \in UnloggedDeletions' \ {t0} : g[t] = f[t]
    BY <1>2
  <2> HIDE DEF g
  <2>2. \A t \in UnloggedDeletions' : Guilty(g[t], t)'
    BY <1>2, <2>1
  <2>3. \A t, u \in UnloggedDeletions' : g[t] = g[u] => t = u
    BY <1>2, <2>1 DEF Blames
  <2>4. Blames(g)'
    BY <2>2, <2>3 DEF Blames
  <2> QED
    BY <2>4
<1> QED
  BY <1>1, <1>2

\* A request has nobody to share the blame with: it is no project request.
LEMMA GuiltyRequestAlone ==
  ASSUME NEW r \in Requests, NEW t, Guilty(r, t)
  PROVE  GuiltyRequest(r, t)
BY ProjectsAssumption DEF Guilty, GuiltyManager

LEMMA GuiltyManagerAlone ==
  ASSUME NEW m \in Managers, NEW t, Guilty(m, t)
  PROVE  GuiltyManager(m, t)
BY ProjectsAssumption DEF Guilty, GuiltyRequest

\* Who has to log the deletion of t does so, or fails.
LEMMA RequestStaysGuilty ==
  ASSUME IInv, NEW r \in Requests, Moves(r), NEW t, GuiltyRequest(r, t),
         t \in UnloggedDeletions'
  PROVE  GuiltyRequest(r, t)'
<1>1. At(r, "log", "remove") /\ target[r] = t
  BY DEF GuiltyRequest, Moves, Begin, Step, DatabaseError, Assign, Insert,
     UpdateRead, RemoveRead, RestoreRead, AddDependencyRead,
     AddDependencyReadBlocker, RemoveDependencyRead, Reload, Write,
     WriteDuplicate, Log, LogAssign, At, InFlightPcs
<1>2. Log(r) \/ DatabaseError(r)
  BY <1>1 DEF Moves, Begin, Step, Assign, Insert,
     UpdateRead, RemoveRead, RestoreRead, AddDependencyRead,
     AddDependencyReadBlocker, RemoveDependencyRead, Reload, Write,
     WriteDuplicate, LogAssign, At
<1>3. ~Log(r)
  <2> SUFFICES ASSUME Log(r) PROVE FALSE
    OBVIOUS
  <2> DEFINE e == TicketEntry(r, AuditActionOf(call[r].op), "USER")
  <2>1. e \in audit'
    BY DEF Log
  <2>2. AuditActionOf(call[r].op) = "DELETE"
    BY <1>1, Zenon DEF At, AuditActionOf
  <2>3. e.action = "DELETE" /\ e.entityType = "TICKET" /\ e.entityId = t
    BY <1>1, <2>2 DEF TicketEntry, LogEntry
  <2> QED
    BY <2>1, <2>3 DEF UnloggedDeletions
<1> QED
  BY <1>1, <1>2, <1>3, AnswerFacts DEF DatabaseError, GuiltyRequest, At

LEMMA AuditGrows ==
  ASSUME NEW r \in Requests, Moves(r)
  PROVE  audit \subseteq audit'
BY DEF Moves, Begin, Step, DatabaseError, Assign, Insert, UpdateRead,
   RemoveRead, RestoreRead, AddDependencyRead, AddDependencyReadBlocker,
   RemoveDependencyRead, Reload, Write, WriteDuplicate, Log, LogAssign

LEMMA RequestBlamed ==
  ASSUME IInv, DeletionsInv, NEW r \in Requests, Moves(r), UNCHANGED projectVars
  PROVE  DeletionsInv'
<1>1. PICK f : Blames(f)
  BY DEF DeletionsInv
<1>2. PICK t0 : t0 = target[r]
  OBVIOUS
<1>3. IInv'
  BY NextKeeps DEF Next, Moves
<1>4. UnloggedDeletions' \subseteq TicketIds
  BY <1>3 DEF UnloggedDeletions, IInv, TypeOK
<1>5. ASSUME NEW t \in UnloggedDeletions', t \notin UnloggedDeletions
      PROVE  /\ t = t0 /\ Guilty(r, t)'
             /\ \A u \in UnloggedDeletions : f[u] # r
  <2>1. /\ t \in DOMAIN tickets' /\ tickets'[t].isDeleted
        /\ ~(t \in DOMAIN tickets /\ tickets[t].isDeleted)
    BY <1>5, AuditGrows DEF UnloggedDeletions
  <2>2. /\ t = target[r] /\ target' = target
        /\ call[r].op = "remove" /\ call' = call
        /\ pc[r] = "write" /\ pc'[r] = "log"
    BY <2>1, DeletedByRemove DEF DeletionsInv
  <2>3. \A u : ~GuiltyRequest(r, u)
    BY <2>2 DEF GuiltyRequest
  <2>4. GuiltyRequest(r, t)'
    BY <2>2 DEF GuiltyRequest
  <2>5. \A u \in UnloggedDeletions : Guilty(f[u], u)
    BY <1>1 DEF Blames
  <2> QED
    BY <1>2, <2>2, <2>3, <2>4, <2>5, GuiltyRequestAlone DEF Guilty
<1>6. ASSUME NEW t \in UnloggedDeletions', t \in UnloggedDeletions
      PROVE  Guilty(f[t], t)'
  <2>1. Guilty(f[t], t)
    BY <1>1, <1>6 DEF Blames
  <2>2. CASE GuiltyManager(f[t], t)
    BY <2>2 DEF Guilty, GuiltyManager, projectVars, managerVars
  <2>3. CASE GuiltyRequest(f[t], t) /\ f[t] # r
    <3>1. f[t] \in Requests
      BY <2>3 DEF GuiltyRequest
    <3> QED
      BY <2>3, <3>1, OthersKept DEF Guilty, GuiltyRequest
  <2>4. CASE GuiltyRequest(f[t], t) /\ f[t] = r
    BY <1>6, <2>4, RequestStaysGuilty DEF Guilty
  <2> QED
    BY <2>1, <2>2, <2>3, <2>4 DEF Guilty
<1>7. \E g : Blames(g)'
  <2>1. /\ \A t \in UnloggedDeletions' \ {t0} :
             t \in UnloggedDeletions /\ Guilty(f[t], t)'
        /\ t0 \in UnloggedDeletions' =>
             \/ t0 \in UnloggedDeletions /\ Guilty(f[t0], t0)'
             \/ Guilty(r, t0)' /\ \A t \in UnloggedDeletions : f[t] # r
    BY <1>5, <1>6
  <2> QED
    BY <1>1, <1>4, <2>1, BlameMoves
<1> QED
  BY <1>7, EntitiesStillDelete DEF DeletionsInv

LEMMA ManagerStaysGuilty ==
  ASSUME ProjectsInv, NEW m \in Managers, MMoves(m), NEW t, GuiltyManager(m, t),
         t \in UnloggedDeletions'
  PROVE  GuiltyManager(m, t)'
<1>1. mpc[m] = "ticketLog" /\ mticket[m] = t
  BY DEF GuiltyManager, MMoves, MBegin, MStep, MError, MInsert, MRead,
     MReadDeleted, MReload, MWrite, MSelect, MTicketReload, MTicketWrite,
     MTicketLog, MLog, Working, WorkingPcs
<1>2. MTicketLog(m) \/ MError(m)
  BY <1>1 DEF MMoves, MBegin, MStep, MInsert, MRead, MReadDeleted, MReload,
     MWrite, MSelect, MTicketReload, MTicketWrite, MLog
<1>3. ~MTicketLog(m)
  <2> SUFFICES ASSUME MTicketLog(m) PROVE FALSE
    OBVIOUS
  <2> DEFINE e == LogEntry(m, "DELETE", "TICKET", t, "USER")
  <2>1. e \in audit'
    BY <1>1 DEF MTicketLog
  <2>2. e.action = "DELETE" /\ e.entityType = "TICKET" /\ e.entityId = t
    BY DEF LogEntry
  <2> QED
    BY <2>1, <2>2 DEF UnloggedDeletions
<1>4. ManagersOK
  BY DEF ProjectsInv
<1> QED
  BY <1>2, <1>3, <1>4, MAnswerFacts DEF MError, GuiltyManager

LEMMA ManagerBlamed ==
  ASSUME ProjectsInv, DeletionsInv, NEW m \in Managers, MMoves(m)
  PROVE  DeletionsInv'
<1>1. PICK f : Blames(f)
  BY DEF DeletionsInv
<1>2. PICK t0 : t0 = mticket[m]
  OBVIOUS
<1>3. UnloggedDeletions' \subseteq TicketIds
  BY ManagerStepKeeps DEF UnloggedDeletions, ProjectsInv, IInv, TypeOK
<1>4. audit \subseteq audit' /\ UNCHANGED <<pc, call, target, mem>>
  BY DEF MMoves, MStep, MBegin, MError, MInsert, MRead, MReadDeleted, MReload,
     MWrite, MSelect, MTicketReload, MTicketWrite, MTicketLog, MLog,
     ticketVars, vars, entityVars
<1>5. ASSUME NEW t \in UnloggedDeletions', t \notin UnloggedDeletions
      PROVE  /\ t = t0 /\ Guilty(m, t)'
             /\ \A u \in UnloggedDeletions : f[u] # m
  <2>1. tickets' # tickets
    BY <1>4, <1>5 DEF UnloggedDeletions
  <2>2. MTicketWrite(m)
    BY <2>1 DEF MMoves, MStep, MBegin, MError, MInsert, MRead, MReadDeleted,
       MReload, MWrite, MSelect, MTicketReload, MTicketLog, MLog, ticketVars,
       vars, db
  <2>3. t = mticket[m]
    BY <1>4, <1>5, <2>2 DEF MTicketWrite, UnloggedDeletions
  <2>4. /\ mpc[m] = "ticketWrite" /\ mcall[m].op = "remove"
        /\ mcall' = mcall /\ mticket' = mticket /\ mpc'[m] = "ticketLog"
    BY <2>2 DEF MTicketWrite, MGoto, ProjectsInv, ManagersOK, ManagersTyped,
       PlaceOK, CascadePcs
  <2>5. \A u : ~GuiltyManager(m, u)
    BY <2>4 DEF GuiltyManager
  <2>6. GuiltyManager(m, t)'
    BY <2>3, <2>4 DEF GuiltyManager
  <2>7. \A u \in UnloggedDeletions : Guilty(f[u], u)
    BY <1>1 DEF Blames
  <2> QED
    BY <1>2, <2>3, <2>5, <2>6, <2>7, GuiltyManagerAlone DEF Guilty
<1>6. ASSUME NEW t \in UnloggedDeletions', t \in UnloggedDeletions
      PROVE  Guilty(f[t], t)'
  <2>1. Guilty(f[t], t)
    BY <1>1, <1>6 DEF Blames
  <2>2. CASE GuiltyRequest(f[t], t)
    BY <1>4, <2>2 DEF Guilty, GuiltyRequest
  <2>3. CASE GuiltyManager(f[t], t) /\ f[t] # m
    <3>1. f[t] \in Managers /\ ManagersOK
      BY <2>3 DEF GuiltyManager, ProjectsInv
    <3> QED
      BY <2>3, <3>1, OtherManagersKept DEF Guilty, GuiltyManager
  <2>4. CASE GuiltyManager(f[t], t) /\ f[t] = m
    BY <1>6, <2>4, ManagerStaysGuilty DEF Guilty
  <2> QED
    BY <2>1, <2>2, <2>3, <2>4 DEF Guilty
<1>7. \E g : Blames(g)'
  <2>1. /\ \A t \in UnloggedDeletions' \ {t0} :
             t \in UnloggedDeletions /\ Guilty(f[t], t)'
        /\ t0 \in UnloggedDeletions' =>
             \/ t0 \in UnloggedDeletions /\ Guilty(f[t0], t0)'
             \/ Guilty(m, t0)' /\ \A t \in UnloggedDeletions : f[t] # m
    BY <1>5, <1>6
  <2> QED
    BY <1>1, <1>3, <2>1, BlameMoves
<1>8. \A r \in Requests : EntityDeletes(r)'
  BY <1>4 DEF DeletionsInv, EntityDeletes
<1> QED
  BY <1>7, <1>8 DEF DeletionsInv

\* Neither a crash nor the clock deletes or logs anything.
LEMMA QuietBlame ==
  ASSUME ProjectsInv, DeletionsInv,
         \/ ProjectsCrash
         \/ (Tick \/ UNCHANGED vars) /\ UNCHANGED projectVars
  PROVE  DeletionsInv'
<1>1. PICK f : Blames(f)
  BY DEF DeletionsInv
<1>2. UNCHANGED <<tickets, audit, call, target, mcall>>
  BY DEF ProjectsCrash, Crash, Tick, projectVars, managerVars, ticketVars, vars, db
<1>3. ASSUME NEW x, NEW t, Guilty(x, t) PROVE Guilty(x, t)'
  <2>1. CASE ProjectsCrash
    <3>1. ASSUME NEW r \in Requests
          PROVE  pc'[r] = pc[r] \/ pc'[r] = "lost"
      BY <2>1 DEF ProjectsCrash, Crash, ticketVars, vars
    <3>2. ASSUME NEW r \in Requests, pc[r] = "log" PROVE pc'[r] = "lost" \/ pc' = pc
      BY <2>1, <3>2 DEF ProjectsCrash, Crash, ticketVars, vars, InFlight, InFlightPcs
    <3>3. ASSUME NEW m \in Managers
          PROVE  /\ mpc'[m] = "lost" \/ mpc'[m] = mpc[m]
                 /\ mpc[m] = "ticketLog" => mpc'[m] = "lost"
      BY <2>1 DEF ProjectsCrash, Working, WorkingPcs
    <3> QED
      BY <1>2, <1>3, <3>1, <3>2, <3>3 DEF Guilty, GuiltyRequest, GuiltyManager
  <2>2. CASE (Tick \/ UNCHANGED vars) /\ UNCHANGED projectVars
    BY <1>2, <1>3, <2>2 DEF Tick, vars, projectVars, managerVars, Guilty,
       GuiltyRequest, GuiltyManager
  <2> QED
    BY <2>1, <2>2
<1>4. Blames(f)'
  BY <1>1, <1>2, <1>3 DEF Blames, UnloggedDeletions
<1>5. ASSUME NEW r \in Requests PROVE EntityDeletes(r)'
  BY DEF DeletionsInv, EntityDeletes, ProjectsCrash, Crash, Tick, ticketVars, vars,
     entityVars, InFlight, InFlightPcs
<1> QED
  BY <1>4, <1>5 DEF DeletionsInv

LEMMA DeletionsNextKeeps ==
  ProjectsInv /\ DeletionsInv /\ [ProjectsNext]_everything => DeletionsInv'
<1> SUFFICES ASSUME ProjectsInv, DeletionsInv, [ProjectsNext]_everything
             PROVE  DeletionsInv'
  OBVIOUS
<1>1. CASE \E m \in Managers : MMoves(m)
  BY <1>1, ManagerBlamed
<1>2. CASE (\E r \in Requests : Moves(r)) /\ UNCHANGED projectVars
  BY <1>2, RequestBlamed DEF ProjectsInv
<1>3. CASE \/ ProjectsCrash
           \/ (Tick \/ UNCHANGED vars) /\ UNCHANGED projectVars
  BY <1>3, QuietBlame
<1> QED
  BY <1>1, <1>2, <1>3
     DEF ProjectsNext, TicketRequestStep, Moves, MMoves, everything, projectVars

\* Databases that hold no deleted tickets: the log is empty at first, so what
\* was deleted before is not in it.
UndeletedSeeds ==
  \A seed \in Seeds : \A t \in DOMAIN seed.tickets :
    ~seed.tickets[t].isDeleted

LEMMA BlamedRemovals ==
  ASSUME NEW x, NEW t, Guilty(x, t)
  PROVE  x \in UnfinishedRemovals
BY DEF Guilty, GuiltyRequest, GuiltyManager, UnfinishedRemovals, InFlightPcs,
       WorkingPcs

\* Requests that interleave in any way, failures and crashes leave at most one
\* deletion out of the log for each removal that has not answered ok.
THEOREM DeletionsAreLogged ==
  ASSUME IsFiniteSet(Requests), IsFiniteSet(Managers), UndeletedSeeds
  PROVE  ProjectsSpec => []DeletionsLogged
<1>1. ProjectsInit => DeletionsInv
  <2> SUFFICES ASSUME ProjectsInit PROVE DeletionsInv
    OBVIOUS
  <2>1. UnloggedDeletions = {}
    BY DEF ProjectsInit, Init, UndeletedSeeds, UnloggedDeletions
  <2>2. Blames(<< >>)
    BY <2>1 DEF Blames
  <2>3. \A r \in Requests : EntityDeletes(r)
    BY DEF ProjectsInit, Init, EntityDeletes
  <2> QED
    BY <2>2, <2>3 DEF DeletionsInv
<1>2. DeletionsInv => DeletionsLogged
  <2> SUFFICES ASSUME DeletionsInv PROVE DeletionsLogged
    OBVIOUS
  <2>1. PICK f : Blames(f)
    BY DEF DeletionsInv
  <2> DEFINE g == [t \in UnloggedDeletions |-> f[t]]
  <2>2. IsFiniteSet(UnfinishedRemovals)
    <3>1. IsFiniteSet(Requests \cup Managers)
      BY FS_Union
    <3>2. UnfinishedRemovals \subseteq Requests \cup Managers
      BY DEF UnfinishedRemovals
    <3> QED
      BY <3>1, <3>2, FS_Subset
  <2>3. g \in [UnloggedDeletions -> UnfinishedRemovals]
    BY <2>1, BlamedRemovals DEF Blames
  <2>4. \A t, u \in UnloggedDeletions : g[t] = g[u] => t = u
    BY <2>1 DEF Blames
  <2>5. g \in Injection(UnloggedDeletions, UnfinishedRemovals)
    BY <2>3, <2>4 DEF Injection, IsInjective
  <2> QED
    BY <2>2, <2>5, FS_Injection DEF DeletionsLogged
<1>3. DeletionsInv /\ ProjectsInv /\ [ProjectsNext]_everything => DeletionsInv'
  BY DeletionsNextKeeps
<1> QED
  BY <1>1, <1>2, <1>3, ProjectsInvariance, PTL DEF ProjectsSpec
=============================================================================
