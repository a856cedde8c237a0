------------------------------ MODULE Comments ------------------------------
(***************************************************************************)
(* CommentsService: comments on tickets, with the users they mention in    *)
(* the join table `comment_mentions`.  Unlike tickets, comments and users  *)
(* are deleted for good, so a request may find that a row it has read is   *)
(* no longer there: save() then inserts the comment again, under its old   *)
(* id (TypeORM, see TypeOrm for the rest of save).                         *)
(*                                                                         *)
(*   create: idle -> ticket [-> resolve] -> insert -> refetch -> answer    *)
(*   update: idle -> ticket -> read [-> resolve] -> reload                 *)
(*                [-> write | reinsert] -> refetch -> answer               *)
(*   remove: idle -> ticket -> read -> delete -> answer                    *)
(*                                                                         *)
(* Tickets and accounts belong to other services: here they only come and  *)
(* go, as far as this service can see.                                     *)
(***************************************************************************)
EXTENDS Integers, FiniteSets, TypeOrm

CONSTANTS
  CommentIds,  \* values of the comment id sequence, 1..n
  Tickets,     \* ticket ids
  Users,       \* user ids
  Username,    \* user id |-> username
  Contents,    \* comment bodies
  Tags,        \* body |-> the names after an @ in it
  Lower,       \* name |-> the name in lower case
  Calls,       \* calls the clients may make
  Requests     \* requests, each made at most once

CommentType ==
  [ticketId |-> Tickets, authorId |-> Users, content |-> Contents,
   version |-> Nat]

IsComment(row) ==
  /\ DOMAIN row = DOMAIN CommentType
  /\ \A c \in DOMAIN CommentType : row[c] \in CommentType[c]

IsCall(c) ==
  /\ c.ticketId \in Tickets
  /\ \/ c.op = "create" /\ c.content \in Contents /\ c.authorId \in Users
     \/ c.op = "update" /\ c.content \in Contents /\ c.id \in CommentIds
     \/ c.op = "remove" /\ c.id \in CommentIds

ASSUME CommentsAssumption ==
  /\ CommentIds \subseteq Nat \ {0}
  /\ \A c \in Calls : IsCall(c)

VARIABLES
  comments,  \* the table `comments`: id |-> row
  mentions,  \* the table `comment_mentions`: <<comment, user>>
  sequence,  \* the last id given out
  visible,   \* tickets that are not soft-deleted
  accounts,  \* user id |-> "none", "registered", "removed"
  pc,        \* where each request is, or the answer it got
  call,      \* what it was asked to do, until it is answered
  target,    \* the comment it works on
  mem,       \* its in-memory comment, the columns
  named,     \* its in-memory comment, the relation mentionedUsers
  plan,      \* the differences save() found: columns, join rows in and out
  met        \* history: open requests that overlapped with another one on
             \* their comment, or with a change of an account

store == <<comments, mentions, sequence>>
world == <<visible, accounts>>
request == <<call, target, mem, named, plan, met>>
vars == <<store, world, pc, request>>

NoCall == [op |-> "none"]
NoRow == << >>
NoPlan == [columns |-> {}, ins |-> {}, del |-> {}]
NoComment == 0

InFlightPcs ==
  {"ticket", "read", "resolve", "insert", "reload", "write", "reinsert",
   "refetch", "delete"}
\* "empty" is a 200 without a comment in it.
Answers == {"ok", "empty", "404", "500", "lost"}
InFlight == {r \in Requests : pc[r] \in InFlightPcs}

Registered == {u \in Users : accounts[u] = "registered"}

Init ==
  /\ comments = << >>
  /\ mentions = {}
  /\ sequence = 0
  /\ visible = Tickets
  /\ accounts \in [Users -> {"none", "registered"}]
  /\ \A u, v \in Registered : Username[u] = Username[v] => u = v
  /\ pc = [r \in Requests |-> "idle"]
  /\ call = [r \in Requests |-> NoCall]
  /\ target = [r \in Requests |-> NoComment]
  /\ mem = [r \in Requests |-> NoRow]
  /\ named = [r \in Requests |-> {}]
  /\ plan = [r \in Requests |-> NoPlan]
  /\ met = {}

-----------------------------------------------------------------------------
Mentioned(id) == {u \in Users : <<id, u>> \in mentions}

\* Usernames match without regard to case, so one tag may name several users.
Resolved(content) ==
  {u \in Registered :
     Lower[Username[u]] \in {Lower[tag] : tag \in Tags[content]}}

Goto(r, label) == pc' = [pc EXCEPT ![r] = label]

Answer(r, code) ==
  /\ Goto(r, code)
  /\ call' = [call EXCEPT ![r] = NoCall]
  /\ target' = [target EXCEPT ![r] = NoComment]
  /\ mem' = [mem EXCEPT ![r] = NoRow]
  /\ named' = [named EXCEPT ![r] = {}]
  /\ plan' = [plan EXCEPT ![r] = NoPlan]
  /\ met' = met \ {r}

\* A body without tags is resolved without a query.
Build(r, row, next) ==
  /\ mem' = [mem EXCEPT ![r] = row]
  /\ named' = [named EXCEPT ![r] = {}]
  /\ Goto(r, IF Tags[row.content] = {} THEN next ELSE "resolve")
  /\ UNCHANGED <<call, target, plan, met>>

Begin(r) ==
  /\ pc[r] = "idle"
  /\ \E c \in Calls :
       LET id == IF c.op = "create" THEN NoComment ELSE c.id
       IN  /\ call' = [call EXCEPT ![r] = c]
           /\ target' = [target EXCEPT ![r] = id]
           /\ LET others == {q \in InFlight : target[q] = id /\ id # NoComment}
              IN  met' = IF others = {} THEN met ELSE met \cup others \cup {r}
  /\ Goto(r, "ticket")
  /\ UNCHANGED <<store, world, mem, named, plan>>

\* Every operation asks TicketsService for the ticket first.
ReadTicket(r) ==
  /\ pc[r] = "ticket"
  /\ LET c == call[r]
     IN  \/ c.ticketId \notin visible /\ Answer(r, "404")
         \/ /\ c.ticketId \in visible
            /\ c.op = "create"
            /\ Build(r, [ticketId |-> c.ticketId, authorId |-> c.authorId,
                         content |-> c.content, version |-> 1], "insert")
         \/ /\ c.ticketId \in visible
            /\ c.op # "create"
            /\ Goto(r, "read")
            /\ UNCHANGED request
  /\ UNCHANGED <<store, world>>

\* Fault: the comment is looked up by its id alone.
Found_scope(c) == c.id \in DOMAIN comments

\* findOne({ id, ticketId }): the comment must be on that ticket.
Found(c) == c.id \in DOMAIN comments /\ comments[c.id].ticketId = c.ticketId

Edited(row, content) == [row EXCEPT !.content = content]

ReadComment(r) ==
  /\ pc[r] = "read"
  /\ LET c == call[r]
     IN  \/ ~Found(c) /\ Answer(r, "404")
         \/ /\ Found(c)
            /\ c.op = "update"
            /\ Build(r, Edited(comments[c.id], c.content), "reload")
         \/ /\ Found(c)
            /\ c.op = "remove"
            /\ Goto(r, "delete")
            /\ UNCHANGED request
  /\ UNCHANGED <<store, world>>

\* resolveMentionedUsers()
Resolve(r) ==
  /\ pc[r] = "resolve"
  /\ named' = [named EXCEPT ![r] = Resolved(mem[r].content)]
  /\ Goto(r, IF call[r].op = "create" THEN "insert" ELSE "reload")
  /\ UNCHANGED <<store, world, call, target, mem, plan, met>>

-----------------------------------------------------------------------------
(* saveComment()                                                           *)

\* Fault: ids count the comments there are.
NextId_count == Cardinality(DOMAIN comments) + 1

\* nextval(), also when the INSERT then fails.
NextId == sequence + 1

\* create(): one INSERT, which fails when a mentioned user is gone.
Insert(r) ==
  /\ pc[r] = "insert"
  /\ NextId \in CommentIds
  /\ sequence' = NextId
  /\ \/ /\ named[r] \subseteq Registered
        /\ comments' = [id \in DOMAIN comments \cup {NextId} |->
                          IF id = NextId THEN mem[r] ELSE comments[id]]
        /\ mentions' = mentions \cup ({NextId} \X named[r])
        /\ target' = [target EXCEPT ![r] = NextId]
        /\ Goto(r, "refetch")
        /\ UNCHANGED <<call, mem, named, plan, met>>
     \/ /\ ~(named[r] \subseteq Registered)
        /\ Answer(r, "500")
        /\ UNCHANGED <<comments, mentions>>
  /\ UNCHANGED world

\* First round trip of save(): a comment that is gone is to be inserted.
Reload(r) ==
  /\ pc[r] = "reload"
  /\ LET id == target[r]
     IN  \/ /\ id \notin DOMAIN comments
            /\ Goto(r, "reinsert")
            /\ UNCHANGED plan
         \/ /\ id \in DOMAIN comments
            /\ LET found == [columns |-> Changed(mem[r], comments[id]),
                             ins |-> JoinInserts(named[r], Mentioned(id)),
                             del |-> JoinDeletes(named[r], Mentioned(id))]
               IN  /\ plan' = [plan EXCEPT ![r] = found]
                   /\ Goto(r, IF found = NoPlan THEN "refetch" ELSE "write")
  /\ UNCHANGED <<store, world, call, target, mem, named, met>>

\* New join rows must name a comment and a user that exist, and be new.
JoinRowsHold(r) ==
  plan[r].ins # {} =>
    /\ target[r] \in DOMAIN comments
    /\ plan[r].ins \subseteq Registered \ Mentioned(target[r])

\* Fault: mentions that are no longer in the body stay.
MentionsAfter_kept(id, ins, del) == mentions \cup ({id} \X ins)

MentionsAfter(id, ins, del) ==
  (mentions \cup ({id} \X ins)) \ ({id} \X del)

\* Second round trip: an UPDATE of a comment that is gone changes nothing.
Write(r) ==
  /\ pc[r] = "write"
  /\ JoinRowsHold(r)
  /\ comments' = [c \in DOMAIN comments |->
                    IF c = target[r]
                    THEN Updated(comments[c], mem[r], plan[r].columns)
                    ELSE comments[c]]
  /\ mentions' = MentionsAfter(target[r], plan[r].ins, plan[r].del)
  /\ Goto(r, "refetch")
  /\ UNCHANGED <<sequence, world, request>>

Reinsert(r) ==
  /\ pc[r] = "reinsert"
  /\ target[r] \notin DOMAIN comments
  /\ named[r] \subseteq Registered
  /\ comments' =
       [c \in DOMAIN comments \cup {target[r]} |->
          IF c = target[r] THEN [mem[r] EXCEPT !.version = 1] ELSE comments[c]]
  /\ mentions' = mentions \cup ({target[r]} \X named[r])
  /\ Goto(r, "refetch")
  /\ UNCHANGED <<sequence, world, request>>

\* A duplicate key or a missing row behind a foreign key.
SaveViolates(r) ==
  /\ \/ pc[r] = "write" /\ ~JoinRowsHold(r)
     \/ /\ pc[r] = "reinsert"
        /\ target[r] \in DOMAIN comments \/ ~(named[r] \subseteq Registered)
  /\ Answer(r, "500")
  /\ UNCHANGED <<store, world>>

\* The comment is read once more for the answer; it may be gone.
Refetch(r) ==
  /\ pc[r] = "refetch"
  /\ Answer(r, IF target[r] \in DOMAIN comments THEN "ok" ELSE "empty")
  /\ UNCHANGED <<store, world>>

\* Fault: the join rows stay.
MentionsWithout_kept(id) == mentions

\* ON DELETE CASCADE
MentionsWithout(id) == {m \in mentions : m[1] # id}

\* remove(): DELETE by id; that the comment is already gone is no error.
Delete(r) ==
  /\ pc[r] = "delete"
  /\ comments' = [c \in DOMAIN comments \ {target[r]} |-> comments[c]]
  /\ mentions' = MentionsWithout(target[r])
  /\ Answer(r, "ok")
  /\ UNCHANGED <<sequence, world>>

DatabaseError(r) ==
  /\ pc[r] \in InFlightPcs
  /\ Answer(r, "500")
  /\ UNCHANGED <<store, world>>

Crash ==
  /\ InFlight # {}
  /\ pc' = [r \in Requests |-> IF r \in InFlight THEN "lost" ELSE pc[r]]
  /\ call' = [r \in Requests |-> NoCall]
  /\ target' = [r \in Requests |-> NoComment]
  /\ mem' = [r \in Requests |-> NoRow]
  /\ named' = [r \in Requests |-> {}]
  /\ plan' = [r \in Requests |-> NoPlan]
  /\ met' = {}
  /\ UNCHANGED <<store, world>>

-----------------------------------------------------------------------------
(* The other services.                                                     *)

\* TicketsService.remove() and restore()
HideOrShow(t) ==
  /\ visible' = IF t \in visible THEN visible \ {t} ELSE visible \cup {t}
  /\ UNCHANGED <<store, accounts, pc, request>>

Register(u) ==
  /\ accounts[u] = "none"
  /\ \A v \in Registered : Username[v] # Username[u]
  /\ accounts' = [accounts EXCEPT ![u] = "registered"]
  /\ met' = met \cup InFlight
  /\ UNCHANGED <<store, visible, pc, call, target, mem, named, plan>>

\* UsersService.remove(): the mentions of the user go with the account.
RemoveUser(u) ==
  /\ accounts[u] = "registered"
  /\ accounts' = [accounts EXCEPT ![u] = "removed"]
  /\ met' = met \cup InFlight
  /\ mentions' = {m \in mentions : m[2] # u}
  /\ UNCHANGED <<comments, sequence, visible, pc, call, target, mem, named,
                 plan>>

Step(r) ==
  \/ ReadTicket(r) \/ ReadComment(r) \/ Resolve(r) \/ Insert(r)
  \/ Reload(r) \/ Write(r) \/ Reinsert(r) \/ SaveViolates(r)
  \/ Refetch(r) \/ Delete(r)

Next ==
  \/ \E r \in Requests : Begin(r) \/ Step(r) \/ DatabaseError(r)
  \/ Crash
  \/ \E t \in Tickets : HideOrShow(t)
  \/ \E u \in Users : Register(u) \/ RemoveUser(u)

Spec == Init /\ [][Next]_vars

-----------------------------------------------------------------------------
(* Properties.                                                             *)

HoldsEntity(r) ==
  pc[r] \in {"resolve", "insert", "reload", "write", "reinsert", "refetch"}

\* Types of all variables.
CommentsTypeOK ==
  /\ sequence \in CommentIds \cup {0}
  /\ DOMAIN comments \subseteq CommentIds
  /\ \A id \in DOMAIN comments : IsComment(comments[id])
  /\ mentions \subseteq (DOMAIN comments) \X Registered
  /\ visible \subseteq Tickets
  /\ accounts \in [Users -> {"none", "registered", "removed"}]
  /\ pc \in [Requests -> {"idle"} \cup InFlightPcs \cup Answers]
  /\ DOMAIN call = Requests
  /\ target \in [Requests -> CommentIds \cup {NoComment}]
  /\ DOMAIN mem = Requests
  /\ named \in [Requests -> SUBSET Users]
  /\ DOMAIN plan = Requests
  /\ met \subseteq InFlight
  /\ \A r \in Requests :
       /\ r \in InFlight => call[r] \in Calls
       /\ HoldsEntity(r) => IsComment(mem[r])

\* The request whose statement a step commits.
Commits(r) ==
  \/ pc[r] \in {"insert", "write", "reinsert"} /\ pc'[r] = "refetch"
  \/ pc[r] = "delete" /\ pc'[r] = "ok"

\* The comment its statement is about.
Saved(r) == IF pc[r] = "insert" THEN sequence' ELSE target[r]

\* Routes name a ticket and a comment: whatever other requests do meanwhile,
\* purge and insert again included, a request changes no comment but the one
\* it names, only on the ticket it names, and a comment never moves to
\* another ticket or another author.
ScopedToTicket ==
  [][\A id \in DOMAIN comments \cup DOMAIN comments' :
       LET before == id \in DOMAIN comments
           after == id \in DOMAIN comments'
       IN  /\ before /\ after =>
                /\ comments'[id].ticketId = comments[id].ticketId
                /\ comments'[id].authorId = comments[id].authorId
           /\ ~(before /\ after /\ comments'[id] = comments[id]) =>
                \E r \in Requests :
                  /\ Commits(r)
                  /\ Saved(r) = id
                  /\ before => comments[id].ticketId = call[r].ticketId
                  /\ after => comments'[id].ticketId = call[r].ticketId]_vars

\* "If two users edit the same comment simultaneously, the second save
\* fails": an update replaces the version of the comment that it has read.
\* The code does not keep it: save() never compares the version.
SecondSaveFails ==
  [][\A r \in Requests :
       /\ Commits(r) /\ call[r].op = "update"
       /\ target[r] \in DOMAIN comments
       => comments[target[r]].version = mem[r].version]_vars

\* "Completely purges a comment": an id that was given out and is free stays
\* free, whoever creates, edits and removes.  Only the save of an edit that
\* has met the removal brings the comment back.
PurgedForGood ==
  [][\A id \in 1..sequence :
       id \notin DOMAIN comments /\ id \in DOMAIN comments' =>
         \E r \in met : Commits(r) /\ target[r] = id]_vars

\* "On comment update the mention list is re-evaluated: newly added mentions
\* are created, removed mentions are deleted": what a commit leaves are the
\* mentions of the body it saves, unless the request has met another one, or
\* an account has come or gone, while it was open.
MentionsReevaluated ==
  [][\A r \in Requests \ met : Commits(r) /\ call[r].op # "remove" =>
       {u \in Users : <<Saved(r), u>> \in mentions'} =
         Resolved(call[r].content)]_vars
=============================================================================
