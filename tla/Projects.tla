------------------------------ MODULE Projects ------------------------------
(***************************************************************************)
(* ProjectsService next to the requests of Tickets.  A project is one row  *)
(* that its owner or an administrator may change; removing it marks the    *)
(* row and then walks over the project's active tickets, each saved and    *)
(* logged on its own.  The walk is neither a transaction nor can it be     *)
(* resumed: it works on the tickets found by one query, and a second       *)
(* removal of the project is refused.                                      *)
(*                                                                         *)
(* A project request walks                                                 *)
(*   idle -> insert -> answer                                   (create)   *)
(*   idle -> read -> reload -> write -> answer                  (update)   *)
(*   idle -> read -> reload -> write -> log -> answer           (restore)  *)
(*   idle -> read -> reload -> write -> select                  (remove)   *)
(*        [-> ticketReload -> ticketWrite -> ticketLog]* -> log -> answer  *)
(***************************************************************************)
EXTENDS Tickets

CONSTANTS
  Managers,      \* project requests, each made at most once
  ProjectSeeds,  \* tables `projects` the server may start on
  ProjectCalls   \* calls on projects

\* The columns of a project that the service reads or writes.
ProjectColumnType ==
  [content   |-> Contents,
   ownerId   |-> Users,
   isDeleted |-> BOOLEAN,
   deletedAt |-> Dates]

ProjectColumns == DOMAIN ProjectColumnType

IsProject(row) ==
  /\ DOMAIN row = ProjectColumns
  /\ \A c \in ProjectColumns : row[c] \in ProjectColumnType[c]

\* The caller is the user of the token: an id and a role.
IsProjectCall(c) ==
  \/ /\ c.op = "create"
     /\ c.content \in Contents
     /\ c.ownerId \in Users
  \/ /\ c.op \in {"update", "remove", "restore"}
     /\ c.id \in Projects
     /\ c.user.id \in Users
     /\ c.user.role \in {"ADMIN", "DEVELOPER"}
     /\ c.op = "update" => c.content \in Contents

ASSUME ProjectsAssumption ==
  /\ Managers \cap Requests = {}
  /\ \A table \in ProjectSeeds :
       /\ DOMAIN table \subseteq Projects
       /\ \A p \in DOMAIN table : IsProject(table[p])
  /\ \A c \in ProjectCalls : IsProjectCall(c)

VARIABLES
  projects,   \* the table `projects`: id |-> row
  mpc,        \* where each project request is, or the answer it got
  mcall,      \* what it was asked to do
  mentity,    \* its in-memory project
  mcolumns,   \* the columns save() found to differ, of project or ticket
  cascade,    \* its in-memory tickets still to be deleted
  mticket     \* the one it is deleting

managerVars == <<mpc, mcall, mentity, mcolumns, cascade, mticket>>
projectVars == <<projects, managerVars>>
ticketVars == vars
everything == <<vars, projectVars>>

WorkingPcs ==
  {"insert", "read", "reload", "write", "select", "ticketReload", "ticketWrite",
   "ticketLog", "log"}

Working == {m \in Managers : mpc[m] \in WorkingPcs}

ProjectsInit ==
  /\ Init
  /\ projects \in ProjectSeeds
  /\ mpc = [m \in Managers |-> "idle"]
  /\ mcall = [m \in Managers |-> NoCall]
  /\ mentity = [m \in Managers |-> NoRow]
  /\ mcolumns = [m \in Managers |-> {}]
  /\ cascade = [m \in Managers |-> << >>]
  /\ mticket = [m \in Managers |-> NoTicket]

-----------------------------------------------------------------------------
MGoto(m, label) == mpc' = [mpc EXCEPT ![m] = label]

MAnswer(m, code) ==
  /\ MGoto(m, code)
  /\ mentity' = [mentity EXCEPT ![m] = NoRow]
  /\ mcolumns' = [mcolumns EXCEPT ![m] = {}]
  /\ cascade' = [cascade EXCEPT ![m] = << >>]
  /\ mticket' = [mticket EXCEPT ![m] = NoTicket]

MHold(m, row) ==
  /\ MGoto(m, "reload")
  /\ mentity' = [mentity EXCEPT ![m] = row]
  /\ UNCHANGED <<mcolumns, cascade, mticket>>

\* Isolated: project requests and ticket requests take turns.
MBegin(m) ==
  /\ mpc[m] = "idle"
  /\ Isolated => InFlight = {} /\ Working = {}
  /\ \E c \in ProjectCalls :
       /\ mcall' = [mcall EXCEPT ![m] = c]
       /\ MGoto(m, IF c.op = "create" THEN "insert" ELSE "read")
  /\ UNCHANGED <<ticketVars, projects, mentity, mcolumns, cascade, mticket>>

\* Fault: the owner is not taken over from the request.
NewProject_unowned(c) ==
  [content |-> c.content, isDeleted |-> FALSE, deletedAt |-> NoDate]

NewProject(c) ==
  [content |-> c.content, ownerId |-> c.ownerId,
   isDeleted |-> FALSE, deletedAt |-> NoDate]

\* create(): one INSERT.
MInsert(m) ==
  /\ mpc[m] = "insert"
  /\ \E id \in Projects \ DOMAIN projects :
       projects' = [p \in DOMAIN projects \cup {id} |->
                      IF p = id THEN NewProject(mcall[m]) ELSE projects[p]]
  /\ MAnswer(m, "ok")
  /\ UNCHANGED <<ticketVars, mcall>>

\* Fault: any developer may.
MayManage_any(c) == TRUE

MayManage(c) ==
  projects[c.id].ownerId = c.user.id \/ c.user.role = "ADMIN"

\* update() and remove(): the project must be active and the caller allowed.
MRead(m) ==
  /\ mpc[m] = "read"
  /\ mcall[m].op \in {"update", "remove"}
  /\ LET c == mcall[m]
         row == projects[c.id]
         active == c.id \in DOMAIN projects /\ ~row.isDeleted
     IN  \/ ~active /\ MAnswer(m, "404")
         \/ active /\ ~MayManage(c) /\ MAnswer(m, "403")
         \/ /\ active
            /\ MayManage(c)
            /\ MHold(m, IF c.op = "update"
                        THEN [row EXCEPT !.content = c.content]
                        ELSE [row EXCEPT !.isDeleted = TRUE,
                                         !.deletedAt = now])
  /\ UNCHANGED <<ticketVars, projects, mcall>>

\* restore(): the caller is checked before the project is looked up.
MReadDeleted(m) ==
  /\ mpc[m] = "read"
  /\ mcall[m].op = "restore"
  /\ LET c == mcall[m]
         row == projects[c.id]
         deleted == c.id \in DOMAIN projects /\ row.isDeleted
     IN  \/ c.user.role # "ADMIN" /\ MAnswer(m, "403")
         \/ c.user.role = "ADMIN" /\ ~deleted /\ MAnswer(m, "404")
         \/ /\ c.user.role = "ADMIN"
            /\ deleted
            /\ MHold(m, [row EXCEPT !.isDeleted = FALSE, !.deletedAt = NoDate])
  /\ UNCHANGED <<ticketVars, projects, mcall>>

AfterProjectSave(m) ==
  CASE mcall[m].op = "update" -> MAnswer(m, "ok")
    [] mcall[m].op = "restore" ->
         MGoto(m, "log") /\ UNCHANGED <<mentity, mcolumns, cascade, mticket>>
    [] mcall[m].op = "remove" ->
         MGoto(m, "select") /\ UNCHANGED <<mentity, mcolumns, cascade, mticket>>

MReload(m) ==
  /\ mpc[m] = "reload"
  /\ LET columns == Changed(mentity[m], projects[mcall[m].id])
     IN  \/ columns = {} /\ AfterProjectSave(m)
         \/ /\ columns # {}
            /\ mcolumns' = [mcolumns EXCEPT ![m] = columns]
            /\ MGoto(m, "write")
            /\ UNCHANGED <<mentity, cascade, mticket>>
  /\ UNCHANGED <<ticketVars, projects, mcall>>

MWrite(m) ==
  /\ mpc[m] = "write"
  /\ projects' = [projects EXCEPT
                    ![mcall[m].id] = Updated(@, mentity[m], mcolumns[m])]
  /\ AfterProjectSave(m)
  /\ UNCHANGED <<ticketVars, mcall>>

-----------------------------------------------------------------------------
(* The cascade of remove().                                                *)

\* The loop goes on with the tickets that are left.
NextTicket(m, rest) ==
  /\ MGoto(m, IF rest = {} THEN "log" ELSE "ticketReload")
  /\ cascade' = [cascade EXCEPT ![m] = [t \in rest |-> cascade[m][t]]]
  /\ mticket' = [mticket EXCEPT ![m] = NoTicket]
  /\ mcolumns' = [mcolumns EXCEPT ![m] = {}]
  /\ UNCHANGED mentity

\* Fault: the query leaves out completed tickets.
ActiveTickets_open(p) ==
  {t \in DOMAIN tickets : /\ tickets[t].projectId = p
                          /\ tickets[t].status # "DONE"
                          /\ ~tickets[t].isDeleted}

ActiveTickets(p) ==
  {t \in DOMAIN tickets : tickets[t].projectId = p /\ ~tickets[t].isDeleted}

\* find({ projectId, isDeleted: false }): all that will be deleted.
MSelect(m) ==
  /\ mpc[m] = "select"
  /\ LET found == ActiveTickets(mcall[m].id)
     IN  /\ cascade' = [cascade EXCEPT ![m] = [t \in found |-> tickets[t]]]
         /\ MGoto(m, IF found = {} THEN "log" ELSE "ticketReload")
  /\ mcolumns' = [mcolumns EXCEPT ![m] = {}]
  /\ UNCHANGED <<ticketVars, projects, mcall, mentity, mticket>>

\* Mark the next ticket; save(ticket) finds what differs.
MTicketReload(m) ==
  /\ mpc[m] = "ticketReload"
  /\ \E t \in DOMAIN cascade[m] :
       LET row == [cascade[m][t] EXCEPT !.isDeleted = TRUE, !.deletedAt = now]
           columns == Changed(row, tickets[t])
       IN  /\ cascade' = [cascade EXCEPT ![m][t] = row]
           /\ mcolumns' = [mcolumns EXCEPT ![m] = columns]
           /\ mticket' = [mticket EXCEPT ![m] = t]
           /\ MGoto(m, IF columns = {} THEN "ticketLog" ELSE "ticketWrite")
  /\ UNCHANGED <<ticketVars, projects, mcall, mentity>>

MTicketWrite(m) ==
  /\ mpc[m] = "ticketWrite"
  /\ LET t == mticket[m]
     IN  tickets' = [tickets EXCEPT
                       ![t] = Updated(@, cascade[m][t], mcolumns[m])]
  /\ MGoto(m, "ticketLog")
  /\ UNCHANGED <<deps, audit, now, pc, call, target, entityVars, plan,
                 projects, mcall, mentity, mcolumns, cascade, mticket>>

\* Fault: only the project is logged.
MTicketLog_skipped(m) ==
  /\ mpc[m] = "ticketLog"
  /\ NextTicket(m, DOMAIN cascade[m] \ {mticket[m]})
  /\ UNCHANGED <<ticketVars, projects, mcall>>

MTicketLog(m) ==
  /\ mpc[m] = "ticketLog"
  /\ audit' = audit \cup {LogEntry(m, "DELETE", "TICKET", mticket[m], "USER")}
  /\ NextTicket(m, DOMAIN cascade[m] \ {mticket[m]})
  /\ UNCHANGED <<db, now, pc, call, target, entityVars, plan, projects, mcall>>

\* remove() and restore() log the project last.
MLog(m) ==
  /\ mpc[m] = "log"
  /\ audit' = audit \cup
       {LogEntry(m, IF mcall[m].op = "remove" THEN "DELETE" ELSE "UPDATE",
                 "PROJECT", mcall[m].id, "USER")}
  /\ MAnswer(m, "ok")
  /\ UNCHANGED <<db, now, pc, call, target, entityVars, plan, projects, mcall>>

MError(m) ==
  /\ m \in Working
  /\ MAnswer(m, "500")
  /\ UNCHANGED <<ticketVars, projects, mcall>>

\* The process dies with all its requests.
ProjectsCrash ==
  /\ \/ Crash
     \/ InFlight = {} /\ Working # {} /\ UNCHANGED ticketVars
  /\ mpc' = [m \in Managers |-> IF m \in Working THEN "lost" ELSE mpc[m]]
  /\ mentity' = [m \in Managers |-> NoRow]
  /\ mcolumns' = [m \in Managers |-> {}]
  /\ cascade' = [m \in Managers |-> << >>]
  /\ mticket' = [m \in Managers |-> NoTicket]
  /\ UNCHANGED <<projects, mcall>>

MStep(m) ==
  \/ MInsert(m) \/ MRead(m) \/ MReadDeleted(m) \/ MReload(m) \/ MWrite(m)
  \/ MSelect(m) \/ MTicketReload(m) \/ MTicketWrite(m) \/ MTicketLog(m)
  \/ MLog(m)

TicketRequestStep(r) ==
  \/ Begin(r) /\ (Isolated => Working = {})
  \/ Step(r)
  \/ DatabaseError(r)

ProjectsNext ==
  \/ (\E r \in Requests : TicketRequestStep(r)) /\ UNCHANGED projectVars
  \/ Tick /\ UNCHANGED projectVars
  \/ \E m \in Managers : MBegin(m) \/ MStep(m) \/ MError(m)
  \/ ProjectsCrash

ProjectsSpec == ProjectsInit /\ [][ProjectsNext]_everything

-----------------------------------------------------------------------------
(* Properties.                                                             *)

\* Types of the variables of the project requests.
ProjectsTypeOK ==
  /\ DOMAIN projects \subseteq Projects
  /\ \A p \in DOMAIN projects : IsProject(projects[p])
  /\ mpc \in [Managers -> {"idle", "ok", "403", "404", "500", "lost"}
                          \cup WorkingPcs]
  /\ mticket \in [Managers -> TicketIds \cup {NoTicket}]
  /\ \A m \in Managers :
       /\ mpc[m] \in {"reload", "write", "select"} => IsProject(mentity[m])
       /\ mcolumns[m] \subseteq ProjectColumns \cup Columns
       /\ DOMAIN cascade[m] \subseteq DOMAIN tickets
       /\ \A t \in DOMAIN cascade[m] :
            /\ IsRow(cascade[m][t])
            /\ cascade[m][t].projectId = tickets[t].projectId

\* The request m answers ok in this step.
Succeeds(m) == m \in Working /\ mpc'[m] = "ok"

\* remove() "recursively cascades the soft-deletion down to all child
\* tickets": when it answers ok, no ticket of the project is active, also
\* after earlier removals that failed half way and were followed by restore().
CascadeReachesAll ==
  [][\A m \in Managers : Succeeds(m) /\ mcall[m].op = "remove" =>
       \A t \in DOMAIN tickets :
         tickets[t].projectId = mcall[m].id => tickets[t].isDeleted]_everything

\* save() writes whatever differs from the row it finds: a project request
\* changes the project it names and the tickets in it only; the owner or an
\* administrator may edit or remove, an administrator restore; an edit never
\* brings a removed project back, and a removal never changes the content.
ChangesAllowed ==
  [][\A m \in Managers :
       mpc[m] \in {"write", "ticketWrite"} /\ mpc'[m] # mpc[m] =>
         LET c == mcall[m]
         IN  /\ \A p \in DOMAIN projects : projects'[p] # projects[p] =>
                  /\ p = c.id
                  /\ \/ c.user.role = "ADMIN"
                     \/ c.op # "restore" /\ projects[p].ownerId = c.user.id
                  /\ Changed(projects'[p], projects[p]) =
                       IF c.op = "update" THEN {"content"}
                       ELSE {"isDeleted", "deletedAt"}
                  /\ projects'[p].isDeleted <=> c.op = "remove"
             /\ \A t \in DOMAIN tickets : tickets'[t] # tickets[t] =>
                  tickets[t].projectId = c.id]_everything

\* Requests that delete tickets and have not answered ok: still at work,
\* failed, or lost with the process.
UnfinishedRemovals ==
  {r \in Requests : /\ call[r].op = "remove"
                    /\ pc[r] \in InFlightPcs \cup {"500", "lost"}}
  \cup
  {m \in Managers : /\ mcall[m].op = "remove"
                    /\ mpc[m] \in WorkingPcs \cup {"500", "lost"}}

UnloggedDeletions ==
  {t \in DOMAIN tickets :
     /\ tickets[t].isDeleted
     /\ ~\E e \in audit : /\ e.action = "DELETE"
                          /\ e.entityType = "TICKET"
                          /\ e.entityId = t}

\* "We must explicitly log the cascaded deletions": however requests, stale
\* saves, failures and crashes interleave, a deletion is missing in the log
\* only for a removal that has not answered ok, and at most one for each,
\* no matter how many tickets it has deleted.
DeletionsLogged ==
  Cardinality(UnloggedDeletions) <= Cardinality(UnfinishedRemovals)
=============================================================================
