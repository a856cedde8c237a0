--------------------------- MODULE CommentsProofs ---------------------------
(***************************************************************************)
(* Theorems about Comments, for any number of comments, users and          *)
(* requests: edits, removals and saves that meet, accounts that come and   *)
(* go, crashes and failures included.                                      *)
(*                                                                         *)
(* The argument has two layers.  ScopeInv: all the handlers that work on a *)
(* comment, and the comment itself while it exists, agree on its ticket    *)
(* and its author, so that the save of an edit that has met a removal      *)
(* inserts the comment where it was.  UnmetInv: to a request that has met  *)
(* no other, its comment and the mentions of it are as they were when it   *)
(* read them.                                                              *)
(***************************************************************************)
EXTENDS Comments, TLAPS

Moves(q) == Begin(q) \/ Step(q) \/ DatabaseError(q)

Op(r) == call[r].op

\* Which operations reach which label.
LabelInv(r) ==
  /\ pc[r] = "insert" => Op(r) = "create"
  /\ pc[r] = "resolve" => Op(r) \in {"create", "update"}
  /\ pc[r] = "read" => Op(r) \in {"update", "remove"}
  /\ pc[r] \in {"reload", "write", "reinsert"} => Op(r) = "update"
  /\ pc[r] = "delete" => Op(r) = "remove"
  /\ r \in InFlight /\ Op(r) # "create" => target[r] = call[r].id
  /\ pc[r] \in {"resolve", "insert", "reload", "write", "reinsert"} =>
       mem[r].ticketId = call[r].ticketId /\ mem[r].content = call[r].content

\* The request has found the comment it is going to change.
Holding(r) ==
  /\ pc[r] \in {"resolve", "reload", "write", "reinsert", "delete"}
  /\ Op(r) # "create"

ClaimInv(r) ==
  Holding(r) =>
    /\ target[r] \in 1..sequence
    /\ target[r] \in DOMAIN comments =>
         /\ comments[target[r]].ticketId = call[r].ticketId
         /\ Op(r) = "update" => comments[target[r]].authorId = mem[r].authorId

Agree(q, r) ==
  Holding(q) /\ Holding(r) /\ target[q] = target[r] =>
    /\ call[q].ticketId = call[r].ticketId
    /\ Op(q) = "update" /\ Op(r) = "update" => mem[q].authorId = mem[r].authorId

ScopeInv ==
  /\ DOMAIN comments \subseteq 1..sequence
  /\ \A r \in Requests : LabelInv(r) /\ ClaimInv(r)
  /\ \A q, r \in Requests : Agree(q, r)

CInv == CommentsTypeOK /\ ScopeInv

\* What the row of a request and its mentions are, if it is still alone.
Alone(r) ==
  \A q \in InFlight \ {r} : Op(q) # "create" => target[q] # target[r]

UnmetInv(r) ==
  r \in InFlight \ met =>
    /\ Op(r) # "create" => Alone(r)
    /\ Holding(r) /\ Op(r) = "update" =>
         /\ target[r] \in DOMAIN comments
         /\ comments[target[r]].version = mem[r].version
    /\ pc[r] # "reinsert"
    /\ pc[r] \in {"insert", "reload", "write"} =>
         named[r] = Resolved(call[r].content)
    /\ pc[r] = "write" =>
         /\ plan[r].ins = named[r] \ Mentioned(target[r])
         /\ plan[r].del = Mentioned(target[r]) \ named[r]

AllUnmetInv == \A r \in Requests : UnmetInv(r)

-----------------------------------------------------------------------------
(* Types.                                                                  *)

StoreTyped ==
  /\ sequence \in CommentIds \cup {0}
  /\ DOMAIN comments \subseteq CommentIds
  /\ \A id \in DOMAIN comments : IsComment(comments[id])
  /\ mentions \subseteq (DOMAIN comments) \X Registered
  /\ visible \subseteq Tickets
  /\ accounts \in [Users -> {"none", "registered", "removed"}]

LEMMA ColumnFacts ==
  /\ DOMAIN CommentType = {"ticketId", "authorId", "content", "version"}
  /\ CommentType.ticketId = Tickets /\ CommentType.authorId = Users
  /\ CommentType.content = Contents /\ CommentType.version = Nat
BY DEF CommentType

LEMMA CallFacts ==
  ASSUME CommentsTypeOK, NEW r \in Requests, r \in InFlight
  PROVE  call[r] \in Calls /\ IsCall(call[r])
BY CommentsAssumption DEF CommentsTypeOK

LEMMA InitTyped == Init => CommentsTypeOK
<1> SUFFICES ASSUME Init PROVE CommentsTypeOK
  OBVIOUS
<1>1. InFlight = {}
  BY DEF Init, InFlight, InFlightPcs
<1> QED
  BY <1>1 DEF Init, CommentsTypeOK, HoldsEntity

\* A handler that answers.
LEMMA AnswerTyped ==
  ASSUME CommentsTypeOK, StoreTyped', NEW r \in Requests, NEW code \in Answers,
         Answer(r, code)
  PROVE  CommentsTypeOK'
<1>1. /\ pc' = [pc EXCEPT ![r] = code] /\ pc'[r] = code
      /\ InFlight' = InFlight \ {r}
  BY DEF Answer, Goto, CommentsTypeOK, InFlight, InFlightPcs, Answers
<1>2. met' \subseteq InFlight'
  BY <1>1 DEF Answer, CommentsTypeOK
<1> QED
  BY <1>1, <1>2
     DEF Answer, CommentsTypeOK, StoreTyped, HoldsEntity, NoComment, Answers

\* A handler that goes on, perhaps with another entity.
LEMMA GoesOnTyped ==
  ASSUME CommentsTypeOK, StoreTyped', NEW r \in Requests, r \in InFlight,
         NEW label \in InFlightPcs, Goto(r, label),
         UNCHANGED <<call, met>>,
         target' = target
           \/ \E id \in CommentIds : target' = [target EXCEPT ![r] = id],
         \/ mem' = mem /\ (HoldsEntity(r)' => HoldsEntity(r))
         \/ \E row : mem' = [mem EXCEPT ![r] = row] /\ IsComment(row),
         named' = named
           \/ \E users \in SUBSET Users : named' = [named EXCEPT ![r] = users],
         plan' = plan \/ \E found : plan' = [plan EXCEPT ![r] = found]
  PROVE  CommentsTypeOK'
<1>1. /\ pc' = [pc EXCEPT ![r] = label] /\ InFlight' = InFlight
  BY DEF Goto, CommentsTypeOK, InFlight
<1>2. /\ target' \in [Requests -> CommentIds \cup {NoComment}]
      /\ named' \in [Requests -> SUBSET Users]
      /\ DOMAIN plan' = Requests /\ DOMAIN mem' = Requests
  BY DEF CommentsTypeOK
<1>3. \A q \in Requests : HoldsEntity(q)' => IsComment(mem'[q])
  BY <1>1 DEF CommentsTypeOK, HoldsEntity
<1> QED
  BY <1>1, <1>2, <1>3 DEF CommentsTypeOK, StoreTyped

LEMMA BeginTyped ==
  ASSUME CommentsTypeOK, NEW r \in Requests, Begin(r)
  PROVE  CommentsTypeOK'
<1>1. PICK c \in Calls :
        LET id == IF c.op = "create" THEN NoComment ELSE c.id
            others == {q \in InFlight : target[q] = id /\ id # NoComment}
        IN  /\ call' = [call EXCEPT ![r] = c]
            /\ target' = [target EXCEPT ![r] = id]
            /\ met' = IF others = {} THEN met ELSE met \cup others \cup {r}
  BY DEF Begin
<1>2. IsCall(c)
  BY CommentsAssumption
<1>3. (IF c.op = "create" THEN NoComment ELSE c.id) \in CommentIds \cup {NoComment}
  BY <1>2 DEF IsCall
<1>4. /\ pc[r] = "idle" /\ pc' = [pc EXCEPT ![r] = "ticket"]
      /\ UNCHANGED <<comments, mentions, sequence, visible, accounts, mem, named,
                     plan>>
  BY DEF Begin, Goto, store, world
<1>5. InFlight' = InFlight \cup {r}
  BY <1>4 DEF InFlight, InFlightPcs, CommentsTypeOK
<1>6. met' \subseteq InFlight'
  BY <1>1, <1>5 DEF CommentsTypeOK
<1> QED
  BY <1>1, <1>3, <1>4, <1>5, <1>6
     DEF CommentsTypeOK, HoldsEntity, InFlightPcs, Registered

LEMMA ReadsTyped ==
  ASSUME CommentsTypeOK, NEW r \in Requests,
         ReadTicket(r) \/ ReadComment(r) \/ Resolve(r)
  PROVE  CommentsTypeOK'
<1>1. UNCHANGED <<store, world>> /\ r \in InFlight
  BY DEF ReadTicket, ReadComment, Resolve, InFlight, InFlightPcs
<1>2. StoreTyped'
  BY <1>1 DEF StoreTyped, CommentsTypeOK, store, world, Registered
<1>3. IsCall(call[r])
  BY <1>1, CallFacts
<1>4. CASE Answer(r, "404")
  BY <1>2, <1>4, AnswerTyped DEF Answers
<1>5. ASSUME NEW row, NEW next \in InFlightPcs, IsComment(row), Build(r, row, next)
      PROVE  CommentsTypeOK'
  <2>1. \E label \in InFlightPcs : Goto(r, label)
    BY <1>5 DEF Build, InFlightPcs
  <2> QED
    BY <1>1, <1>2, <1>5, <2>1, GoesOnTyped DEF Build
<1>6. ASSUME NEW label \in {"read", "delete"}, Goto(r, label), UNCHANGED request
      PROVE  CommentsTypeOK'
  <2>1. ~HoldsEntity(r)'
    BY <1>6 DEF Goto, CommentsTypeOK, HoldsEntity
  <2> QED
    BY <1>1, <1>2, <1>6, <2>1, GoesOnTyped DEF InFlightPcs, request
<1>7. CASE ReadTicket(r) /\ ~Answer(r, "404")
  <2> DEFINE row == [ticketId |-> call[r].ticketId, authorId |-> call[r].authorId,
                     content |-> call[r].content, version |-> 1]
  <2>1. CASE call[r].op = "create" /\ Build(r, row, "insert")
    <3>1. IsComment(row)
      BY <1>3, <2>1, ColumnFacts DEF IsCall, IsComment
    <3> QED
      BY <1>5, <2>1, <3>1 DEF InFlightPcs
  <2>2. CASE Goto(r, "read") /\ UNCHANGED request
    BY <1>6, <2>2
  <2> QED
    BY <1>7, <2>1, <2>2 DEF ReadTicket
<1>8. CASE ReadComment(r) /\ ~Answer(r, "404")
  <2>1. CASE /\ Found(call[r]) /\ call[r].op = "update"
             /\ Build(r, Edited(comments[call[r].id], call[r].content), "reload")
    <3>1. IsComment(comments[call[r].id]) /\ call[r].content \in Contents
      BY <1>3, <2>1 DEF Found, CommentsTypeOK, IsCall
    <3>2. IsComment(Edited(comments[call[r].id], call[r].content))
      BY <3>1, ColumnFacts DEF Edited, IsComment
    <3> QED
      BY <1>5, <2>1, <3>2 DEF InFlightPcs
  <2>2. CASE Goto(r, "delete") /\ UNCHANGED request
    BY <1>6, <2>2
  <2> QED
    BY <1>8, <2>1, <2>2 DEF ReadComment
<1>9. CASE Resolve(r)
  <2>1. pc[r] = "resolve" /\ HoldsEntity(r) /\ Resolved(mem[r].content) \subseteq Users
    BY <1>9 DEF Resolve, HoldsEntity, Resolved, Registered
  <2>2. \E label \in InFlightPcs : Goto(r, label)
    BY <1>9 DEF Resolve, InFlightPcs
  <2>3. UNCHANGED <<call, target, mem, plan, met>>
        /\ named' = [named EXCEPT ![r] = Resolved(mem[r].content)]
    BY <1>9 DEF Resolve
  <2> QED
    BY <1>1, <1>2, <2>1, <2>2, <2>3, GoesOnTyped
<1> QED
  BY <1>4, <1>7, <1>8, <1>9

LEMMA InsertTyped ==
  ASSUME CommentsTypeOK, NEW r \in Requests, Insert(r)
  PROVE  CommentsTypeOK'
<1>1. /\ pc[r] = "insert" /\ r \in InFlight /\ IsComment(mem[r])
      /\ NextId \in CommentIds /\ sequence' = NextId
      /\ UNCHANGED <<visible, accounts>>
  BY DEF Insert, InFlight, InFlightPcs, CommentsTypeOK, HoldsEntity, world
<1>2. CASE /\ named[r] \subseteq Registered
           /\ comments' = [id \in DOMAIN comments \cup {NextId} |->
                             IF id = NextId THEN mem[r] ELSE comments[id]]
           /\ mentions' = mentions \cup ({NextId} \X named[r])
           /\ target' = [target EXCEPT ![r] = NextId]
           /\ Goto(r, "refetch")
           /\ UNCHANGED <<call, mem, named, plan, met>>
  <2>1. StoreTyped'
    BY <1>1, <1>2 DEF StoreTyped, CommentsTypeOK, Registered
  <2> QED
    BY <1>1, <1>2, <2>1, GoesOnTyped DEF InFlightPcs, HoldsEntity
<1>3. CASE Answer(r, "500") /\ UNCHANGED <<comments, mentions>>
  <2>1. StoreTyped'
    BY <1>1, <1>3 DEF StoreTyped, CommentsTypeOK, Registered
  <2> QED
    BY <1>3, <2>1, AnswerTyped DEF Answers
<1> QED
  BY <1>2, <1>3 DEF Insert

LEMMA ReloadTyped ==
  ASSUME CommentsTypeOK, NEW r \in Requests, Reload(r)
  PROVE  CommentsTypeOK'
<1>1. /\ UNCHANGED <<store, world, call, target, mem, named, met>>
      /\ r \in InFlight /\ HoldsEntity(r)
  BY DEF Reload, InFlight, InFlightPcs, HoldsEntity
<1>2. StoreTyped'
  BY <1>1 DEF StoreTyped, CommentsTypeOK, store, world, Registered
<1>3. \E label \in InFlightPcs : Goto(r, label)
  BY DEF Reload, InFlightPcs
<1>4. plan' = plan \/ \E found : plan' = [plan EXCEPT ![r] = found]
  BY DEF Reload
<1> QED
  BY <1>1, <1>2, <1>3, <1>4, GoesOnTyped

LEMMA UpdatedIsComment ==
  ASSUME NEW row, NEW entity, NEW columns, IsComment(row), IsComment(entity)
  PROVE  IsComment(Updated(row, entity, columns))
BY ColumnFacts DEF IsComment, Updated

LEMMA WritesTyped ==
  ASSUME CommentsTypeOK, NEW r \in Requests, LabelInv(r), Write(r) \/ Reinsert(r)
  PROVE  CommentsTypeOK'
<1>1. /\ r \in InFlight /\ HoldsEntity(r) /\ IsComment(mem[r])
      /\ Goto(r, "refetch") /\ UNCHANGED <<sequence, world, request>>
  BY DEF Write, Reinsert, InFlight, InFlightPcs, CommentsTypeOK, HoldsEntity
<1>2. target[r] \in DOMAIN comments' => target[r] \in CommentIds
  <2>1. CASE Write(r)
    BY <2>1 DEF Write, CommentsTypeOK
  <2>2. CASE Reinsert(r)
    BY <1>1, <2>2, CallFacts DEF Reinsert, LabelInv, Op, IsCall
  <2> QED
    BY <2>1, <2>2
<1>3. StoreTyped'
  <2>1. CASE Write(r)
    <3>1. /\ DOMAIN comments' = DOMAIN comments
          /\ \A id \in DOMAIN comments : IsComment(comments'[id])
      BY <1>1, <2>1, UpdatedIsComment DEF Write, CommentsTypeOK
    <3>2. mentions' \subseteq (DOMAIN comments) \X Registered
      BY <2>1 DEF Write, JoinRowsHold, MentionsAfter, CommentsTypeOK
    <3> QED
      BY <1>1, <3>1, <3>2 DEF StoreTyped, CommentsTypeOK, world, Registered
  <2>2. CASE Reinsert(r)
    <3>1. target[r] \in CommentIds
      BY <1>2, <2>2 DEF Reinsert
    <3>2. IsComment([mem[r] EXCEPT !.version = 1])
      BY <1>1, ColumnFacts DEF IsComment
    <3>3. /\ DOMAIN comments' = DOMAIN comments \cup {target[r]}
          /\ \A id \in DOMAIN comments' : IsComment(comments'[id])
      BY <2>2, <3>2 DEF Reinsert, CommentsTypeOK
    <3>4. mentions' \subseteq (DOMAIN comments') \X Registered
      BY <2>2, <3>3 DEF Reinsert, CommentsTypeOK
    <3> QED
      BY <1>1, <3>1, <3>3, <3>4 DEF StoreTyped, CommentsTypeOK, world, Registered
  <2> QED
    BY <2>1, <2>2
<1> QED
  BY <1>1, <1>3, GoesOnTyped DEF request, InFlightPcs

LEMMA EndsTyped ==
  ASSUME CommentsTypeOK, NEW r \in Requests,
         SaveViolates(r) \/ Refetch(r) \/ Delete(r) \/ DatabaseError(r)
  PROVE  CommentsTypeOK'
<1>1. CASE Delete(r)
  <2>1. StoreTyped'
    BY <1>1 DEF Delete, StoreTyped, CommentsTypeOK, MentionsWithout, world, Registered
  <2> QED
    BY <1>1, <2>1, AnswerTyped DEF Delete, Answers
<1>2. CASE SaveViolates(r) \/ Refetch(r) \/ DatabaseError(r)
  <2>1. StoreTyped'
    BY <1>2 DEF SaveViolates, Refetch, DatabaseError, StoreTyped, CommentsTypeOK,
                store, world, Registered
  <2>2. \E code \in Answers : Answer(r, code)
    BY <1>2 DEF SaveViolates, Refetch, DatabaseError, Answers
  <2> QED
    BY <2>1, <2>2, AnswerTyped
<1> QED
  BY <1>1, <1>2

LEMMA WorldTyped ==
  ASSUME CommentsTypeOK,
         \/ Crash \/ UNCHANGED vars
         \/ \E t \in Tickets : HideOrShow(t)
         \/ \E u \in Users : Register(u) \/ RemoveUser(u)
  PROVE  CommentsTypeOK'
<1>1. CASE Crash
  <2>1. InFlight' = {}
    BY <1>1 DEF Crash, InFlight, InFlightPcs, CommentsTypeOK
  <2>2. pc' \in [Requests -> {"idle"} \cup InFlightPcs \cup Answers]
        /\ \A r \in Requests : ~HoldsEntity(r)'
    BY <1>1 DEF Crash, InFlight, InFlightPcs, CommentsTypeOK, HoldsEntity, Answers
  <2> QED
    BY <1>1, <2>1, <2>2 DEF Crash, CommentsTypeOK, store, world, Registered
<1>2. CASE UNCHANGED vars
  BY <1>2 DEF vars, store, world, request, CommentsTypeOK, Registered, InFlight,
              HoldsEntity
<1>3. ASSUME NEW t \in Tickets, HideOrShow(t) PROVE CommentsTypeOK'
  BY <1>3 DEF HideOrShow, store, request, CommentsTypeOK, Registered, InFlight,
              HoldsEntity
<1>4. ASSUME NEW u \in Users, Register(u) \/ RemoveUser(u) PROVE CommentsTypeOK'
  <2>1. /\ UNCHANGED <<comments, sequence, visible, pc, call, target, mem, named,
                       plan>>
        /\ met' = met \cup InFlight /\ InFlight' = InFlight
    BY <1>4 DEF Register, RemoveUser, store, InFlight
  <2>2. /\ accounts' \in [Users -> {"none", "registered", "removed"}]
        /\ mentions' \subseteq mentions
        /\ \A v \in Registered : v \in Registered' \/ \A m \in mentions' : m[2] # v
    BY <1>4 DEF Register, RemoveUser, store, CommentsTypeOK, Registered
  <2>3. mentions' \subseteq (DOMAIN comments) \X Registered'
    BY <2>2 DEF CommentsTypeOK
  <2> QED
    BY <2>1, <2>2, <2>3 DEF CommentsTypeOK, HoldsEntity
<1> QED
  BY <1>1, <1>2, <1>3, <1>4

LEMMA NextTyped ==
  ASSUME CommentsTypeOK, \A r \in Requests : LabelInv(r), [Next]_vars
  PROVE  CommentsTypeOK'
<1>1. ASSUME NEW r \in Requests, Moves(r) PROVE CommentsTypeOK'
  BY <1>1, BeginTyped, ReadsTyped, InsertTyped, ReloadTyped, WritesTyped, EndsTyped
     DEF Moves, Step
<1> QED
  BY <1>1, WorldTyped DEF Next, Moves

-----------------------------------------------------------------------------
(* A step of one request is no step of another.                            *)

LEMMA AnswerFacts ==
  ASSUME CommentsTypeOK, NEW r \in Requests, NEW code \in Answers, Answer(r, code)
  PROVE  /\ pc'[r] = code /\ r \notin InFlight' /\ met' = met \ {r}
         /\ \A q \in Requests \ {r} :
              /\ pc'[q] = pc[q] /\ call'[q] = call[q] /\ target'[q] = target[q]
              /\ mem'[q] = mem[q] /\ named'[q] = named[q] /\ plan'[q] = plan[q]
BY DEF Answer, Goto, CommentsTypeOK, InFlight, InFlightPcs, Answers

LEMMA BuildFacts ==
  ASSUME CommentsTypeOK, NEW r \in Requests, NEW row, NEW next, Build(r, row, next)
  PROVE  /\ pc'[r] = IF Tags[row.content] = {} THEN next ELSE "resolve"
         /\ mem'[r] = row /\ named'[r] = {} /\ UNCHANGED <<call, target, plan, met>>
         /\ \A q \in Requests \ {r} :
              pc'[q] = pc[q] /\ mem'[q] = mem[q] /\ named'[q] = named[q]
BY DEF Build, Goto, CommentsTypeOK

LEMMA OthersKept ==
  ASSUME CommentsTypeOK, NEW q \in Requests, NEW r \in Requests, q # r, Moves(q)
  PROVE  /\ pc'[r] = pc[r] /\ call'[r] = call[r] /\ target'[r] = target[r]
         /\ mem'[r] = mem[r] /\ named'[r] = named[r] /\ plan'[r] = plan[r]
         /\ r \in met => r \in met'
<1>1. CASE Begin(q)
  BY <1>1 DEF Begin, Goto, CommentsTypeOK
<1>2. CASE ReadTicket(q) \/ ReadComment(q)
  BY <1>2, AnswerFacts, BuildFacts
     DEF ReadTicket, ReadComment, Goto, request, CommentsTypeOK, Answers
<1>3. CASE Resolve(q)
  BY <1>3 DEF Resolve, Goto, CommentsTypeOK
<1>4. CASE Insert(q)
  <2>1. CASE Answer(q, "500")
    BY <2>1, AnswerFacts DEF Answers
  <2>2. CASE /\ target' = [target EXCEPT ![q] = NextId]
             /\ Goto(q, "refetch")
             /\ UNCHANGED <<call, mem, named, plan, met>>
    BY <2>2 DEF Goto, CommentsTypeOK
  <2> QED
    BY <1>4, <2>1, <2>2 DEF Insert
<1>5. CASE Reload(q)
  <2>1. UNCHANGED <<call, target, mem, named, met>>
        /\ (\E label : Goto(q, label))
        /\ (plan' = plan \/ \E found : plan' = [plan EXCEPT ![q] = found])
    BY <1>5 DEF Reload
  <2> QED
    BY <2>1 DEF Goto, CommentsTypeOK
<1>6. CASE Write(q) \/ Reinsert(q)
  BY <1>6 DEF Write, Reinsert, Goto, request, CommentsTypeOK
<1>7. CASE SaveViolates(q) \/ Refetch(q) \/ Delete(q) \/ DatabaseError(q)
  <2>1. \E code \in Answers : Answer(q, code)
    BY <1>7 DEF SaveViolates, Refetch, Delete, DatabaseError, Answers
  <2> QED
    BY <2>1, AnswerFacts
<1> QED
  BY <1>1, <1>2, <1>3, <1>4, <1>5, <1>6, <1>7 DEF Moves, Step

\* What a request's own step makes of it: it answers, begins, or goes on.
LEMMA OwnLabel ==
  ASSUME CommentsTypeOK, NEW r \in Requests, LabelInv(r), Moves(r)
  PROVE  LabelInv(r)'
<1>1. ASSUME NEW code \in Answers, Answer(r, code) PROVE LabelInv(r)'
  BY <1>1, AnswerFacts DEF LabelInv, InFlight, InFlightPcs, Answers
<1>2. CASE Begin(r)
  <2>1. PICK c \in Calls :
          /\ call' = [call EXCEPT ![r] = c]
          /\ target' = [target EXCEPT ![r] =
                          IF c.op = "create" THEN NoComment ELSE c.id]
    BY <1>2 DEF Begin
  <2>2. pc'[r] = "ticket" /\ call'[r] = c
        /\ (c.op # "create" => target'[r] = c.id)
    BY <1>2, <2>1 DEF Begin, Goto, CommentsTypeOK
  <2> QED
    BY <2>2 DEF LabelInv, Op
<1>3. CASE ReadTicket(r)
  <2>0. pc[r] = "ticket" /\ r \in InFlight /\ IsCall(call[r])
    BY <1>3, CallFacts DEF ReadTicket, InFlight, InFlightPcs
  <2>1. CASE Answer(r, "404")
    BY <1>1, <2>1 DEF Answers
  <2>2. CASE Goto(r, "read") /\ UNCHANGED request /\ Op(r) # "create"
    <3>1. pc'[r] = "read"
      BY <2>2 DEF Goto, CommentsTypeOK
    <3> QED
      BY <2>0, <2>2, <3>1 DEF LabelInv, Op, request, IsCall
  <2> DEFINE row == [ticketId |-> call[r].ticketId, authorId |-> call[r].authorId,
                     content |-> call[r].content, version |-> 1]
  <2>3. CASE Op(r) = "create" /\ Build(r, row, "insert")
    <3>1. /\ pc'[r] \in {"insert", "resolve"} /\ mem'[r] = row
          /\ UNCHANGED <<call, target>>
      BY <2>3, BuildFacts
    <3>2. row.ticketId = call[r].ticketId /\ row.content = call[r].content
      OBVIOUS
    <3> HIDE DEF row
    <3> QED
      BY <2>0, <2>3, <3>1, <3>2 DEF LabelInv, Op
  <2> QED
    BY <1>3, <2>1, <2>2, <2>3 DEF ReadTicket, Op
<1>4. CASE ReadComment(r)
  <2>0. pc[r] = "read" /\ r \in InFlight
    BY <1>4 DEF ReadComment, InFlight, InFlightPcs
  <2>1. CASE Answer(r, "404")
    BY <1>1, <2>1 DEF Answers
  <2>2. CASE Goto(r, "delete") /\ UNCHANGED request /\ Op(r) = "remove"
    <3>1. pc'[r] = "delete"
      BY <2>2 DEF Goto, CommentsTypeOK
    <3> QED
      BY <2>0, <2>2, <3>1 DEF LabelInv, Op, request
  <2> DEFINE row == Edited(comments[call[r].id], call[r].content)
  <2>3. CASE Found(call[r]) /\ Op(r) = "update" /\ Build(r, row, "reload")
    <3>1. /\ pc'[r] \in {"reload", "resolve"} /\ mem'[r] = row
          /\ UNCHANGED <<call, target>>
      BY <2>3, BuildFacts
    <3>2. row.ticketId = call[r].ticketId /\ row.content = call[r].content
      <4>1. DOMAIN comments[call[r].id] = DOMAIN CommentType
        BY <2>3 DEF Found, CommentsTypeOK, IsComment
      <4> QED
        BY <2>3, <4>1, ColumnFacts DEF Edited, Found
    <3> HIDE DEF row
    <3> QED
      BY <2>0, <2>3, <3>1, <3>2 DEF LabelInv, Op
  <2> QED
    BY <1>4, <2>1, <2>2, <2>3 DEF ReadComment, Op
<1>5. CASE Resolve(r)
  <2>1. /\ pc[r] = "resolve" /\ UNCHANGED <<call, target, mem>>
        /\ pc'[r] = IF Op(r) = "create" THEN "insert" ELSE "reload"
    BY <1>5 DEF Resolve, Goto, Op, CommentsTypeOK
  <2> QED
    BY <2>1 DEF LabelInv, Op, InFlight, InFlightPcs
<1>6. CASE Insert(r) /\ ~Answer(r, "500")
  <2>1. pc[r] = "insert" /\ pc'[r] = "refetch" /\ call' = call
    BY <1>6 DEF Insert, Goto, CommentsTypeOK
  <2> QED
    BY <2>1 DEF LabelInv, Op
<1>7. CASE Reload(r) \/ Write(r) \/ Reinsert(r)
  <2>1. /\ pc[r] \in {"reload", "write", "reinsert"}
        /\ pc'[r] \in {"write", "reinsert", "refetch"}
        /\ UNCHANGED <<call, target, mem>>
    BY <1>7 DEF Reload, Write, Reinsert, Goto, request, CommentsTypeOK
  <2> QED
    BY <2>1 DEF LabelInv, Op, InFlight, InFlightPcs
<1>8. CASE \/ SaveViolates(r) \/ Refetch(r) \/ Delete(r) \/ DatabaseError(r)
           \/ Answer(r, "500")
  <2>1. \E code \in Answers : Answer(r, code)
    BY <1>8 DEF SaveViolates, Refetch, Delete, DatabaseError, Answers
  <2> QED
    BY <1>1, <2>1
<1> QED
  BY <1>2, <1>3, <1>4, <1>5, <1>6, <1>7, <1>8 DEF Moves, Step

LEMMA OthersLabel ==
  ASSUME CommentsTypeOK, NEW q \in Requests, NEW r \in Requests, q # r,
         LabelInv(r), Moves(q)
  PROVE  LabelInv(r)'
BY OthersKept DEF LabelInv, Op, InFlight

-----------------------------------------------------------------------------
(* Which ticket and which author a comment has.                            *)

Changes(q, id) ==
  \/ Insert(q) /\ id = NextId
  \/ (Write(q) \/ Reinsert(q) \/ Delete(q)) /\ id = target[q]

LEMMA StoreFrame ==
  ASSUME CommentsTypeOK, NEW q \in Requests, Moves(q), NEW id, ~Changes(q, id)
  PROVE  /\ id \in DOMAIN comments' <=> id \in DOMAIN comments
         /\ id \in DOMAIN comments => comments'[id] = comments[id]
         /\ Mentioned(id)' = Mentioned(id)
<1>1. CASE Insert(q)
  BY <1>1 DEF Insert, Changes, Mentioned
<1>2. CASE Write(q)
  BY <1>2 DEF Write, Changes, Mentioned, MentionsAfter
<1>3. CASE Reinsert(q)
  BY <1>3 DEF Reinsert, Changes, Mentioned
<1>4. CASE Delete(q)
  BY <1>4 DEF Delete, Changes, Mentioned, MentionsWithout
<1>5. CASE ~Insert(q) /\ ~Write(q) /\ ~Reinsert(q) /\ ~Delete(q)
  BY <1>5 DEF Moves, Step, Begin, ReadTicket, ReadComment, Resolve, Reload,
              SaveViolates, Refetch, DatabaseError, store, Mentioned
<1> QED
  BY <1>1, <1>2, <1>3, <1>4, <1>5

LEMMA SequenceFrame ==
  ASSUME CommentsTypeOK, NEW q \in Requests, Moves(q)
  PROVE  /\ sequence \in Nat
         /\ IF Insert(q) THEN sequence' = sequence + 1 ELSE sequence' = sequence
<1>1. sequence \in Nat
  BY CommentsAssumption DEF CommentsTypeOK
<1>2. CASE Insert(q)
  BY <1>1, <1>2 DEF Insert, NextId
<1>3. CASE ~Insert(q)
  BY <1>1, <1>3
     DEF Moves, Step, Begin, ReadTicket, ReadComment, Resolve, Reload, Write,
         Reinsert, SaveViolates, Refetch, Delete, DatabaseError, store
<1> QED
  BY <1>1, <1>2, <1>3

\* A commit of save() keeps the owner of a comment, or gives back the old one.
LEMMA OwnerKept ==
  ASSUME CInv, NEW q \in Requests, Moves(q), NEW id \in DOMAIN comments'
  PROVE  \/ /\ id \in DOMAIN comments
            /\ comments'[id].ticketId = comments[id].ticketId
            /\ comments'[id].authorId = comments[id].authorId
         \/ /\ id \notin DOMAIN comments /\ Insert(q) /\ id = sequence + 1
            /\ comments'[id] = mem[q]
         \/ /\ id \notin DOMAIN comments /\ Reinsert(q) /\ id = target[q]
            /\ comments'[id].ticketId = mem[q].ticketId
            /\ comments'[id].authorId = mem[q].authorId
<1>1. CASE ~Changes(q, id)
  BY <1>1, StoreFrame DEF CInv
<1>2. CASE Insert(q) /\ id = NextId
  <2>1. id \notin DOMAIN comments
    BY <1>2, SequenceFrame DEF CInv, ScopeInv, NextId
  <2> QED
    BY <1>2, <2>1 DEF Insert, NextId
<1>3. CASE Write(q) /\ id = target[q]
  <2>1. /\ id \in DOMAIN comments
        /\ comments'[id] = Updated(comments[id], mem[q], plan[q].columns)
        /\ pc[q] = "write"
    BY <1>3 DEF Write
  <2>2. IsComment(comments[id])
    BY <2>1 DEF CInv, CommentsTypeOK
  <2>3. /\ comments[id].ticketId = mem[q].ticketId
        /\ comments[id].authorId = mem[q].authorId
    BY <1>3, <2>1 DEF CInv, ScopeInv, ClaimInv, LabelInv, Holding, Op
  <2> QED
    BY <2>1, <2>2, <2>3, ColumnFacts DEF Updated, IsComment
<1>4. CASE Reinsert(q) /\ id = target[q]
  <2>1. IsComment(mem[q])
    BY <1>4 DEF CInv, CommentsTypeOK, HoldsEntity, Reinsert
  <2>2. comments'[id] = [mem[q] EXCEPT !.version = 1] /\ id \notin DOMAIN comments
    BY <1>4 DEF Reinsert
  <2> QED
    BY <1>4, <2>1, <2>2, ColumnFacts DEF IsComment
<1>5. CASE Delete(q) /\ id = target[q]
  BY <1>5 DEF Delete
<1> QED
  BY <1>1, <1>2, <1>3, <1>4, <1>5 DEF Changes

\* A handler takes up a comment at its read, and does not change it then.
LEMMA OwnHolding ==
  ASSUME CInv, NEW r \in Requests, Moves(r), Holding(r)'
  PROVE  /\ UNCHANGED <<call, target, store>>
         /\ \/ Holding(r) /\ mem'[r] = mem[r]
            \/ /\ ReadComment(r) /\ Found(call[r])
               /\ target[r] \in DOMAIN comments
               /\ comments[target[r]].ticketId = call[r].ticketId
               /\ Op(r) = "update" =>
                    mem'[r].authorId = comments[target[r]].authorId
<1> USE DEF CInv
<1>0. LabelInv(r)
  BY DEF ScopeInv
<1>1. ASSUME NEW code \in Answers, Answer(r, code) PROVE FALSE
  BY <1>1, AnswerFacts DEF Holding, Answers
<1>2. ~(SaveViolates(r) \/ Refetch(r) \/ Delete(r) \/ DatabaseError(r))
  <2> SUFFICES ASSUME SaveViolates(r) \/ Refetch(r) \/ Delete(r) \/ DatabaseError(r)
               PROVE  \E code \in Answers : Answer(r, code)
    BY <1>1
  <2> QED
    BY DEF SaveViolates, Refetch, Delete, DatabaseError, Answers
<1>3. ~(Begin(r) \/ Insert(r) \/ Write(r) \/ Reinsert(r))
  BY <1>1 DEF Begin, Insert, Write, Reinsert, Goto, Holding, CommentsTypeOK, Answers
<1>4. ~ReadTicket(r)
  <2>1. ASSUME Goto(r, "read") PROVE FALSE
    BY <2>1 DEF Goto, Holding, CommentsTypeOK
  <2>2. ASSUME NEW row, Op(r) = "create", Build(r, row, "insert") PROVE FALSE
    BY <2>2, BuildFacts DEF Holding, Op
  <2> QED
    BY <1>1, <2>1, <2>2 DEF ReadTicket, Op, Answers
<1>5. CASE Resolve(r) \/ Reload(r)
  <2>1. UNCHANGED <<call, target, store, mem>>
    BY <1>5 DEF Resolve, Reload
  <2>2. pc[r] \in {"resolve", "reload"}
    BY <1>5 DEF Resolve, Reload
  <2> QED
    BY <2>1, <2>2 DEF Holding, Op
<1>6. CASE ReadComment(r)
  <2>1. Found(call[r]) /\ UNCHANGED <<call, target, store>>
    BY <1>1, <1>6, BuildFacts DEF ReadComment, request, Answers
  <2>2. target[r] = call[r].id
    BY <1>0, <1>6 DEF LabelInv, ReadComment, InFlight, InFlightPcs, Op
  <2>3. Op(r) = "update" => mem'[r] = Edited(comments[target[r]], call[r].content)
    BY <1>1, <1>6, <2>2, BuildFacts DEF ReadComment, Op, Answers
  <2>4. IsComment(comments[target[r]])
    BY <2>1, <2>2 DEF Found, CommentsTypeOK
  <2>5. Edited(comments[target[r]], call[r].content).authorId =
          comments[target[r]].authorId
    BY <2>4, ColumnFacts DEF Edited, IsComment
  <2> QED
    BY <1>6, <2>1, <2>2, <2>3, <2>5 DEF Found
<1> QED
  BY <1>2, <1>3, <1>4, <1>5, <1>6 DEF Moves, Step

LEMMA ClaimKept ==
  ASSUME CInv, NEW q \in Requests, Moves(q), NEW r \in Requests
  PROVE  ClaimInv(r)'
<1>1. CASE r = q
  <2> SUFFICES ASSUME Holding(r)' PROVE ClaimInv(r)'
    BY DEF ClaimInv
  <2>1. UNCHANGED <<call, target, comments, sequence>>
    BY <1>1, OwnHolding DEF store
  <2>2. CASE Holding(r) /\ mem'[r] = mem[r]
    BY <2>1, <2>2 DEF CInv, ScopeInv, ClaimInv, Op
  <2>3. CASE /\ target[r] \in DOMAIN comments
             /\ comments[target[r]].ticketId = call[r].ticketId
             /\ Op(r) = "update" =>
                  mem'[r].authorId = comments[target[r]].authorId
    BY <2>1, <2>3 DEF CInv, ScopeInv, ClaimInv, Op
  <2> QED
    BY <1>1, <2>2, <2>3, OwnHolding
<1>2. CASE r # q
  <2> SUFFICES ASSUME Holding(r)' PROVE ClaimInv(r)'
    BY DEF ClaimInv
  <2>1. /\ call'[r] = call[r] /\ target'[r] = target[r] /\ mem'[r] = mem[r]
        /\ pc'[r] = pc[r]
    BY <1>2, OthersKept DEF CInv
  <2>2. Holding(r) /\ ClaimInv(r)
    BY <2>1 DEF Holding, Op, CInv, ScopeInv
  <2>3. target[r] \in 1..sequence'
    BY <2>2, SequenceFrame DEF ClaimInv, CInv
  <2>4. ASSUME target[r] \in DOMAIN comments'
        PROVE  /\ comments'[target[r]].ticketId = call[r].ticketId
               /\ Op(r) = "update" => comments'[target[r]].authorId = mem[r].authorId
    <3>1. CASE Reinsert(q) /\ target[r] = target[q]
               /\ comments'[target[r]].ticketId = mem[q].ticketId
               /\ comments'[target[r]].authorId = mem[q].authorId
      BY <2>2, <3>1 DEF CInv, ScopeInv, LabelInv, Agree, Holding, Op, Reinsert
    <3>2. CASE target[r] = sequence + 1
      BY <2>2, <3>2, SequenceFrame DEF ClaimInv, CInv
    <3>3. CASE /\ target[r] \in DOMAIN comments
               /\ comments'[target[r]].ticketId = comments[target[r]].ticketId
               /\ comments'[target[r]].authorId = comments[target[r]].authorId
      BY <2>2, <3>3 DEF ClaimInv
    <3> QED
      BY <2>4, <3>1, <3>2, <3>3, OwnerKept
  <2> QED
    BY <2>1, <2>3, <2>4 DEF ClaimInv, Op
<1> QED
  BY <1>1, <1>2

LEMMA AgreeKept ==
  ASSUME CInv, NEW q \in Requests, Moves(q), NEW r \in Requests, r # q
  PROVE  Agree(q, r)' /\ Agree(r, q)'
<1> SUFFICES ASSUME Holding(q)', Holding(r)', target'[q] = target'[r]
             PROVE  /\ call'[q].ticketId = call'[r].ticketId
                    /\ Op(q)' = "update" /\ Op(r)' = "update" =>
                         mem'[q].authorId = mem'[r].authorId
  BY DEF Agree
<1>1. /\ call'[r] = call[r] /\ target'[r] = target[r] /\ mem'[r] = mem[r]
      /\ pc'[r] = pc[r]
  BY OthersKept DEF CInv
<1>2. Holding(r) /\ ClaimInv(r) /\ Agree(q, r) /\ UNCHANGED <<call, target>>
  BY <1>1, OwnHolding DEF Holding, Op, CInv, ScopeInv
<1>3. CASE Holding(q) /\ mem'[q] = mem[q]
  BY <1>1, <1>2, <1>3 DEF Agree, Op
<1>4. CASE /\ target[q] \in DOMAIN comments
           /\ comments[target[q]].ticketId = call[q].ticketId
           /\ Op(q) = "update" => mem'[q].authorId = comments[target[q]].authorId
  BY <1>1, <1>2, <1>4 DEF ClaimInv, Op
<1> QED
  BY <1>3, <1>4, OwnHolding

LEMMA ScopeKept ==
  ASSUME CInv, NEW q \in Requests, Moves(q)
  PROVE  ScopeInv'
<1>1. DOMAIN comments' \subseteq 1..sequence'
  <2> SUFFICES ASSUME NEW id \in DOMAIN comments' PROVE id \in 1..sequence'
    OBVIOUS
  <2>1. CASE id \in DOMAIN comments
    BY <2>1, SequenceFrame DEF CInv, ScopeInv
  <2>2. CASE Insert(q) /\ id = sequence + 1
    BY <2>2, SequenceFrame DEF CInv
  <2>3. CASE Reinsert(q) /\ id = target[q]
    BY <2>3, SequenceFrame DEF CInv, ScopeInv, ClaimInv, LabelInv, Holding, Op, Reinsert
  <2> QED
    BY <2>1, <2>2, <2>3, OwnerKept
<1>2. \A r \in Requests : LabelInv(r)'
  BY OwnLabel, OthersLabel DEF CInv, ScopeInv
<1>3. ASSUME NEW r \in Requests, NEW s \in Requests PROVE Agree(r, s)'
  <2>1. CASE r # q /\ s # q
    BY <2>1, OthersKept DEF CInv, ScopeInv, Agree, Holding, Op
  <2>2. CASE r = s
    BY <2>2 DEF Agree
  <2> QED
    BY <2>1, <2>2, AgreeKept
<1> QED
  BY <1>1, <1>2, <1>3, ClaimKept DEF ScopeInv

LEMMA WorldScope ==
  ASSUME CInv,
         \/ Crash \/ UNCHANGED vars
         \/ \E t \in Tickets : HideOrShow(t)
         \/ \E u \in Users : Register(u) \/ RemoveUser(u)
  PROVE  ScopeInv'
<1>1. CASE Crash
  <2>1. UNCHANGED <<comments, sequence>>
        /\ \A r \in Requests : pc'[r] \in {"idle"} \cup Answers
    BY <1>1 DEF Crash, store, InFlight, CInv, CommentsTypeOK, Answers
  <2> QED
    BY <2>1 DEF CInv, ScopeInv, LabelInv, ClaimInv, Agree, Holding, InFlight,
                InFlightPcs, Answers
<1>2. CASE ~Crash
  <2>1. UNCHANGED <<comments, sequence, pc, call, target, mem>>
    BY <1>2 DEF vars, store, request, HideOrShow, Register, RemoveUser
  <2> QED
    BY <2>1 DEF CInv, ScopeInv, LabelInv, ClaimInv, Agree, Holding, Op, InFlight
<1> QED
  BY <1>1, <1>2

LEMMA CInvKept == CInv /\ [Next]_vars => CInv'
<1> SUFFICES ASSUME CInv, [Next]_vars PROVE CInv'
  OBVIOUS
<1>1. CommentsTypeOK'
  BY NextTyped DEF CInv, ScopeInv
<1>2. ScopeInv'
  BY ScopeKept, WorldScope DEF Next, Moves
<1> QED
  BY <1>1, <1>2 DEF CInv

\* All that is known of a comment is known alike: every handler that works on
\* it, and the table while it is there, have one ticket and one author for it.
THEOREM CommentsInvariance == Spec => []CInv
<1>1. Init => CInv
  BY InitTyped DEF Init, CInv, ScopeInv, LabelInv, ClaimInv, Agree, Holding, InFlight,
                   InFlightPcs
<1> QED
  BY <1>1, CInvKept, PTL DEF Spec

\* Rows and in-memory comments are well-typed and every mention joins an
\* existing comment with a registered user, although comments and accounts
\* disappear under the handlers that hold them.
THEOREM CommentsTyping == Spec => []CommentsTypeOK
BY CommentsInvariance, PTL DEF CInv

-----------------------------------------------------------------------------
(* What a commit may do.                                                   *)

LEMMA CommitCases ==
  ASSUME CInv, [Next]_vars, NEW r \in Requests, Commits(r)
  PROVE  /\ Moves(r) /\ r \in InFlight
         /\ \/ Insert(r) /\ ~Answer(r, "500")
            \/ Write(r)
            \/ Reinsert(r)
            \/ Delete(r)
<1>1. pc[r] \in {"insert", "write", "reinsert", "delete"} /\ pc'[r] # pc[r]
      /\ pc'[r] \in {"refetch", "ok"} /\ r \in InFlight
  BY DEF Commits, InFlight, InFlightPcs
<1>2. ~(Crash \/ UNCHANGED vars)
  BY <1>1 DEF Crash, vars, CInv, CommentsTypeOK
<1>3. /\ ~\E t \in Tickets : HideOrShow(t)
      /\ ~\E u \in Users : Register(u) \/ RemoveUser(u)
  BY <1>1 DEF HideOrShow, Register, RemoveUser
<1>4. PICK q \in Requests : Moves(q)
  BY <1>2, <1>3 DEF Next, Moves
<1>5. Moves(r)
  BY <1>1, <1>4, OthersKept DEF CInv
<1>6. ~Answer(r, "500")
  BY <1>1, AnswerFacts DEF CInv, Answers
<1> QED
  BY <1>1, <1>5, <1>6
     DEF Moves, Step, Begin, ReadTicket, ReadComment, Resolve, Reload, SaveViolates,
         Refetch, DatabaseError

LEMMA CommentUnchanged ==
  ASSUME CInv, [Next]_vars, ~\E q \in Requests : Moves(q)
  PROVE  UNCHANGED <<comments, sequence>>
BY DEF Next, Moves, Crash, vars, store, HideOrShow, Register, RemoveUser

LEMMA Scoped ==
  ASSUME CInv, [Next]_vars, NEW id \in DOMAIN comments \cup DOMAIN comments'
  PROVE  LET before == id \in DOMAIN comments
             after == id \in DOMAIN comments'
         IN  /\ before /\ after =>
                  /\ comments'[id].ticketId = comments[id].ticketId
                  /\ comments'[id].authorId = comments[id].authorId
             /\ ~(before /\ after /\ comments'[id] = comments[id]) =>
                  \E r \in Requests :
                    /\ Commits(r)
                    /\ Saved(r) = id
                    /\ before => comments[id].ticketId = call[r].ticketId
                    /\ after => comments'[id].ticketId = call[r].ticketId
<1> DEFINE before == id \in DOMAIN comments
           after == id \in DOMAIN comments'
<1>1. CASE \A q \in Requests : ~Moves(q)
  BY <1>1, CommentUnchanged
<1>2. ASSUME NEW q \in Requests, Moves(q)
      PROVE  before /\ after =>
               /\ comments'[id].ticketId = comments[id].ticketId
               /\ comments'[id].authorId = comments[id].authorId
  BY <1>2, OwnerKept
<1>3. ASSUME NEW q \in Requests, Moves(q),
             ~(before /\ after /\ comments'[id] = comments[id])
      PROVE  /\ Commits(q)
             /\ Saved(q) = id
             /\ before => comments[id].ticketId = call[q].ticketId
             /\ after => comments'[id].ticketId = call[q].ticketId
  <2>1. Changes(q, id)
    BY <1>3, StoreFrame DEF CInv
  <2>2. LabelInv(q) /\ ClaimInv(q)
    BY DEF CInv, ScopeInv
  <2>3. CASE Insert(q) /\ id = NextId
    <3>1. ~before
      BY <2>3, SequenceFrame, <1>3 DEF CInv, ScopeInv, NextId
    <3>2. pc[q] = "insert" /\ sequence' = id /\ pc'[q] = "refetch"
          /\ (after => comments'[id] = mem[q])
      BY <1>3, <2>3, <3>1 DEF Insert, Goto, CInv, CommentsTypeOK
    <3> QED
      BY <2>2, <3>1, <3>2 DEF Commits, Saved, LabelInv
  <2>4. CASE (Write(q) \/ Reinsert(q)) /\ id = target[q]
    <3>1. pc[q] \in {"write", "reinsert"} /\ pc'[q] = "refetch"
      BY <2>4 DEF Write, Reinsert, Goto, CInv, CommentsTypeOK
    <3>2. Holding(q) /\ mem[q].ticketId = call[q].ticketId
      BY <2>2, <3>1 DEF LabelInv, Holding
    <3>3. before => comments[id].ticketId = call[q].ticketId
      BY <2>2, <2>4, <3>2 DEF ClaimInv
    <3>4. after => comments'[id].ticketId = call[q].ticketId
      BY <1>3, <2>4, <3>1, <3>2, <3>3, OwnerKept DEF Insert
    <3> QED
      BY <2>4, <3>1, <3>3, <3>4 DEF Commits, Saved
  <2>5. CASE Delete(q) /\ id = target[q]
    <3>1. pc[q] = "delete" /\ pc'[q] = "ok" /\ ~after
      BY <2>5, AnswerFacts DEF Delete, CInv, Answers
    <3>2. before => comments[id].ticketId = call[q].ticketId
      BY <2>2, <2>5, <3>1 DEF ClaimInv, Holding, LabelInv
    <3> QED
      BY <2>5, <3>1, <3>2 DEF Commits, Saved
  <2> QED
    BY <2>1, <2>3, <2>4, <2>5 DEF Changes
<1> QED
  BY <1>1, <1>2, <1>3

\* Whatever other requests do meanwhile, purge and insert again included, a
\* request changes no comment but the one its route names, only on the ticket
\* the route names, and a comment never moves to another ticket or author.
THEOREM CommentsStayInScope == Spec => ScopedToTicket
<1>1. CInv /\ [Next]_vars =>
        [\A id \in DOMAIN comments \cup DOMAIN comments' :
           LET before == id \in DOMAIN comments
               after == id \in DOMAIN comments'
           IN  /\ before /\ after =>
                    /\ comments'[id].ticketId = comments[id].ticketId
                    /\ comments'[id].authorId = comments[id].authorId
               /\ ~(before /\ after /\ comments'[id] = comments[id]) =>
                    \E r \in Requests :
                      /\ Commits(r)
                      /\ Saved(r) = id
                      /\ before => comments[id].ticketId = call[r].ticketId
                      /\ after => comments'[id].ticketId = call[r].ticketId]_vars
  BY Scoped
<1> QED
  BY <1>1, CommentsInvariance, PTL DEF Spec, ScopedToTicket

-----------------------------------------------------------------------------
(* Requests that have met no other.                                        *)

LEMMA MovesFrame ==
  ASSUME CommentsTypeOK, NEW q \in Requests, Moves(q)
  PROVE  /\ UNCHANGED world
         /\ \A r \in Requests \ {q} : r \in InFlight' <=> r \in InFlight
<1>1. UNCHANGED world
  BY DEF Moves, Step, Begin, ReadTicket, ReadComment, Resolve, Insert, Reload, Write,
         Reinsert, SaveViolates, Refetch, Delete, DatabaseError
<1>2. \A r \in Requests \ {q} : r \in InFlight' <=> r \in InFlight
  BY OthersKept DEF InFlight
<1> QED
  BY <1>1, <1>2

LEMMA ResolvedKept ==
  ASSUME UNCHANGED accounts, NEW content
  PROVE  Resolved(content)' = Resolved(content)
BY DEF Resolved, Registered

\* A request that begins on a comment in use has met, and so have its users.
LEMMA BeginMeets ==
  ASSUME CInv, NEW q \in Requests, Begin(q), NEW r \in InFlight,
         Op(q)' # "create", target'[q] = target[r]
  PROVE  q \in met' /\ r \in met'
<1>1. PICK c \in Calls :
        LET id == IF c.op = "create" THEN NoComment ELSE c.id
            others == {s \in InFlight : target[s] = id /\ id # NoComment}
        IN  /\ call' = [call EXCEPT ![q] = c]
            /\ target' = [target EXCEPT ![q] = id]
            /\ met' = IF others = {} THEN met ELSE met \cup others \cup {q}
  BY DEF Begin
<1>2. call'[q] = c /\ c.op # "create" /\ target'[q] = c.id
  BY <1>1 DEF Op, CInv, CommentsTypeOK
<1>3. c.id # NoComment
  BY <1>2, CommentsAssumption DEF IsCall, NoComment
<1>4. r \in {s \in InFlight : target[s] = c.id /\ c.id # NoComment}
  BY <1>2, <1>3
<1> QED
  BY <1>1, <1>2, <1>4

\* What a step of a request in flight does to its call and its target.
LEMMA InFlightFrame ==
  ASSUME CInv, NEW q \in Requests, Moves(q), q \in InFlight'
  PROVE  \/ Begin(q)
         \/ /\ q \in InFlight /\ call' = call /\ met' = met
            /\ Op(q) # "create" => target' = target
<1> USE DEF CInv
<1>1. ASSUME NEW code \in Answers, Answer(q, code) PROVE FALSE
  BY <1>1, AnswerFacts
<1>2. ~(SaveViolates(q) \/ Refetch(q) \/ Delete(q) \/ DatabaseError(q))
  <2> SUFFICES ASSUME SaveViolates(q) \/ Refetch(q) \/ Delete(q) \/ DatabaseError(q)
               PROVE  \E code \in Answers : Answer(q, code)
    BY <1>1
  <2> QED
    BY DEF SaveViolates, Refetch, Delete, DatabaseError, Answers
<1>3. CASE ReadTicket(q) \/ ReadComment(q)
  BY <1>1, <1>3, BuildFacts
     DEF ReadTicket, ReadComment, request, InFlight, InFlightPcs, Answers
<1>4. CASE Resolve(q) \/ Reload(q) \/ Write(q) \/ Reinsert(q)
  BY <1>4 DEF Resolve, Reload, Write, Reinsert, request, InFlight, InFlightPcs
<1>5. CASE Insert(q)
  <2>1. Op(q) = "create" /\ q \in InFlight
    BY <1>5 DEF Insert, ScopeInv, LabelInv, InFlight, InFlightPcs
  <2> QED
    BY <1>1, <1>5, <2>1 DEF Insert, Answers
<1> QED
  BY <1>2, <1>3, <1>4, <1>5 DEF Moves, Step

LEMMA AloneKept ==
  ASSUME CInv, AllUnmetInv, NEW q \in Requests, Moves(q), NEW r \in Requests,
         r \in InFlight' \ met', Op(r)' # "create"
  PROVE  Alone(r)'
<1> SUFFICES ASSUME NEW s \in Requests, s # r, s \in InFlight', Op(s)' # "create",
                    target'[s] = target'[r]
             PROVE  FALSE
  BY DEF Alone, InFlight
<1>1. \A t \in Requests \ {q} :
        /\ t \in InFlight' => t \in InFlight
        /\ Op(t)' = Op(t) /\ target'[t] = target[t] /\ (t \in met => t \in met')
  BY OthersKept, MovesFrame DEF CInv, Op
<1>2. CASE q \notin {r, s}
  BY <1>1, <1>2 DEF AllUnmetInv, UnmetInv, Alone
<1>3. CASE q \in {r, s} /\ Begin(q)
  BY <1>1, <1>3, BeginMeets
<1>4. CASE /\ q \in {r, s} /\ q \in InFlight /\ call' = call /\ met' = met
           /\ Op(q) # "create" => target' = target
  BY <1>1, <1>4 DEF AllUnmetInv, UnmetInv, Alone, Op
<1> QED
  BY <1>2, <1>3, <1>4, InFlightFrame

LEMMA OthersUnmet ==
  ASSUME CInv, AllUnmetInv, NEW q \in Requests, NEW r \in Requests, q # r, Moves(q)
  PROVE  UnmetInv(r)'
<1> SUFFICES ASSUME r \in InFlight' \ met' PROVE UnmetInv(r)'
  BY DEF UnmetInv
<1>1. /\ pc'[r] = pc[r] /\ call'[r] = call[r] /\ target'[r] = target[r]
      /\ mem'[r] = mem[r] /\ named'[r] = named[r] /\ plan'[r] = plan[r]
  BY OthersKept DEF CInv
<1>2. r \in InFlight \ met /\ UNCHANGED accounts
  BY OthersKept, MovesFrame DEF CInv, world
<1>3. UnmetInv(r) /\ ClaimInv(r) /\ LabelInv(r) /\ LabelInv(q)
  BY DEF AllUnmetInv, CInv, ScopeInv
<1>4. ASSUME Holding(r) PROVE ~Changes(q, target[r])
  <2>1. Alone(r) /\ target[r] \in 1..sequence
    BY <1>2, <1>3, <1>4 DEF UnmetInv, Holding, ClaimInv
  <2>2. ~(Insert(q) /\ target[r] = NextId)
    BY <2>1, SequenceFrame DEF CInv, NextId
  <2>3. ~((Write(q) \/ Reinsert(q) \/ Delete(q)) /\ target[r] = target[q])
    <3>1. ASSUME Write(q) \/ Reinsert(q) \/ Delete(q)
          PROVE  q \in InFlight /\ Op(q) # "create"
      BY <1>3, <3>1 DEF Write, Reinsert, Delete, InFlight, InFlightPcs, LabelInv
    <3> QED
      BY <2>1, <3>1 DEF Alone
  <2> QED
    BY <2>2, <2>3 DEF Changes
<1>5. Holding(r) =>
        /\ target[r] \in DOMAIN comments' <=> target[r] \in DOMAIN comments
        /\ target[r] \in DOMAIN comments =>
             comments'[target[r]] = comments[target[r]]
        /\ Mentioned(target[r])' = Mentioned(target[r])
  <2> SUFFICES ASSUME Holding(r), NEW id, id = target[r]
               PROVE  /\ id \in DOMAIN comments' <=> id \in DOMAIN comments
                      /\ id \in DOMAIN comments => comments'[id] = comments[id]
                      /\ Mentioned(target[r])' = Mentioned(target[r])
    OBVIOUS
  <2>1. Mentioned(id)' = Mentioned(id)
    BY <1>4, StoreFrame DEF CInv
  <2> QED
    BY <1>1, <1>4, <2>1, StoreFrame DEF CInv, Mentioned
<1>6. Holding(r)' <=> Holding(r)
  BY <1>1 DEF Holding, Op
<1>7. Op(r)' = Op(r) /\ (Op(r) # "create" => Alone(r)')
  BY <1>1, AloneKept DEF Op
<1>8. Resolved(call[r].content)' = Resolved(call[r].content)
  BY <1>1, <1>2 DEF Resolved, Registered
<1>9. pc[r] = "write" => Holding(r)
  BY <1>3 DEF LabelInv, Holding
<1> QED
  BY <1>1, <1>2, <1>3, <1>5, <1>6, <1>7, <1>8, <1>9 DEF UnmetInv

LEMMA OwnUnmet ==
  ASSUME CInv, AllUnmetInv, NEW r \in Requests, Moves(r)
  PROVE  UnmetInv(r)'
<1> SUFFICES ASSUME r \in InFlight' \ met' PROVE UnmetInv(r)'
  BY DEF UnmetInv
<1>1. UnmetInv(r) /\ ClaimInv(r) /\ LabelInv(r)
  BY DEF AllUnmetInv, CInv, ScopeInv
<1>2. Op(r)' # "create" => Alone(r)'
  BY AloneKept
<1>3. \A content : Resolved(content)' = Resolved(content)
  BY MovesFrame, ResolvedKept DEF CInv, world
<1>4. ASSUME NEW code \in Answers, Answer(r, code) PROVE FALSE
  BY <1>4, AnswerFacts DEF CInv
<1>5. ASSUME pc'[r] \in {"ticket", "read", "refetch", "delete"}
      PROVE  UnmetInv(r)'
  <2>1. LabelInv(r)'
    BY OwnLabel DEF CInv, ScopeInv
  <2> QED
    BY <1>2, <1>5, <2>1 DEF UnmetInv, Holding, LabelInv
<1>6. CASE Begin(r)
  BY <1>5, <1>6 DEF Begin, Goto, CInv, CommentsTypeOK
<1>7. CASE ReadTicket(r)
  <2>1. CASE Goto(r, "read")
    BY <1>5, <2>1 DEF Goto, CInv, CommentsTypeOK
  <2> DEFINE row == [ticketId |-> call[r].ticketId, authorId |-> call[r].authorId,
                     content |-> call[r].content, version |-> 1]
  <2>2. CASE Op(r) = "create" /\ Build(r, row, "insert")
    <3>1. /\ pc'[r] = IF Tags[row.content] = {} THEN "insert" ELSE "resolve"
          /\ named'[r] = {} /\ call' = call
      BY <2>2, BuildFacts DEF CInv
    <3>2. row.content = call[r].content
      OBVIOUS
    <3> HIDE DEF row
    <3>3. pc'[r] = "insert" => Resolved(call[r].content) = {}
      BY <3>1, <3>2 DEF Resolved
    <3>4. Resolved(call[r].content)' = Resolved(call[r].content)
      BY <1>3, <3>1 DEF Resolved, Registered
    <3>5. pc'[r] \in {"insert", "resolve"} /\ Op(r)' = "create" /\ ~Holding(r)'
      BY <2>2, <3>1 DEF Op, Holding
    <3> QED
      BY <3>1, <3>3, <3>4, <3>5 DEF UnmetInv
  <2> QED
    BY <1>4, <1>7, <2>1, <2>2 DEF ReadTicket, Op, Answers
<1>8. CASE ReadComment(r)
  <2>1. CASE Goto(r, "delete")
    BY <1>5, <2>1 DEF Goto, CInv, CommentsTypeOK
  <2> DEFINE row == Edited(comments[call[r].id], call[r].content)
  <2>2. CASE Found(call[r]) /\ Op(r) = "update" /\ Build(r, row, "reload")
    <3>1. /\ pc'[r] = IF Tags[row.content] = {} THEN "reload" ELSE "resolve"
          /\ mem'[r] = row /\ named'[r] = {} /\ UNCHANGED <<call, target>>
      BY <2>2, BuildFacts DEF CInv
    <3>2. UNCHANGED store
      BY <1>8 DEF ReadComment
    <3>3. target[r] = call[r].id
      BY <1>1, <1>8, <2>2 DEF LabelInv, ReadComment, InFlight, InFlightPcs
    <3>4. row.content = call[r].content /\ row.version = comments[call[r].id].version
      <4>1. DOMAIN comments[call[r].id] = DOMAIN CommentType
        BY <2>2 DEF Found, CInv, CommentsTypeOK, IsComment
      <4> QED
        BY <4>1, ColumnFacts DEF Edited
    <3> HIDE DEF row
    <3>5. pc'[r] = "reload" => Resolved(call[r].content) = {}
      BY <3>1, <3>4 DEF Resolved
    <3>6. Resolved(call[r].content)' = Resolved(call[r].content)
      BY <1>3, <3>1 DEF Resolved, Registered
    <3>7. pc'[r] \in {"reload", "resolve"}
      BY <3>1
    <3> QED
      BY <1>2, <2>2, <3>1, <3>2, <3>3, <3>4, <3>5, <3>6, <3>7
         DEF UnmetInv, Found, store
  <2> QED
    BY <1>4, <1>8, <2>1, <2>2 DEF ReadComment, Op, Answers
<1>9. r \in InFlight \ met \/ Begin(r)
  BY InFlightFrame
<1>10. CASE Resolve(r)
  <2>1. /\ pc[r] = "resolve" /\ pc'[r] \in {"insert", "reload"}
        /\ pc'[r] = "insert" => Op(r) = "create"
        /\ named'[r] = Resolved(mem[r].content)
        /\ UNCHANGED <<store, call, target, mem>>
    BY <1>10 DEF Resolve, Goto, Op, CInv, CommentsTypeOK
  <2>2. mem[r].content = call[r].content
    BY <1>1, <2>1 DEF LabelInv
  <2>3. Resolved(call[r].content)' = Resolved(call[r].content)
    BY <1>3, <2>1 DEF Resolved, Registered
  <2>4. Holding(r)' => Holding(r)
    BY <2>1 DEF Holding, Op
  <2> QED
    BY <1>1, <1>2, <1>9, <1>10, <2>1, <2>2, <2>3, <2>4
       DEF UnmetInv, store, Op, Begin
<1>11. CASE Reload(r)
  <2>1. /\ pc[r] = "reload" /\ UNCHANGED <<store, call, target, mem, named>>
        /\ r \in InFlight \ met /\ Op(r) = "update" /\ Holding(r)
    BY <1>1, <1>9, <1>11 DEF Reload, Begin, LabelInv, Holding
  <2>2. target[r] \in DOMAIN comments
    BY <1>1, <2>1 DEF UnmetInv
  <2> DEFINE found == [columns |-> Changed(mem[r], comments[target[r]]),
                       ins |-> JoinInserts(named[r], Mentioned(target[r])),
                       del |-> JoinDeletes(named[r], Mentioned(target[r]))]
  <2>3. /\ plan' = [plan EXCEPT ![r] = found]
        /\ pc'[r] \in {"refetch", "write"}
    BY <1>11, <2>2 DEF Reload, Goto, CInv, CommentsTypeOK
  <2>4. plan'[r] = found
    BY <2>3 DEF CInv, CommentsTypeOK
  <2>5. /\ found.ins = named[r] \ Mentioned(target[r])
        /\ found.del = Mentioned(target[r]) \ named[r]
    BY DEF JoinInserts, JoinDeletes
  <2> HIDE DEF found
  <2>6. Mentioned(target[r])' = Mentioned(target[r])
    BY <2>1 DEF Mentioned, store
  <2>7. Resolved(call[r].content)' = Resolved(call[r].content)
    BY <1>3, <2>1 DEF Resolved, Registered
  <2>8. CASE pc'[r] = "write"
    BY <1>1, <1>2, <2>1, <2>2, <2>4, <2>5, <2>6, <2>7, <2>8
       DEF UnmetInv, store, Op
  <2> QED
    BY <1>5, <2>3, <2>8
<1>12. CASE Insert(r) \/ Write(r) \/ Reinsert(r)
  <2>1. pc'[r] = "refetch"
    BY <1>4, <1>12 DEF Insert, Write, Reinsert, Goto, CInv, CommentsTypeOK, Answers
  <2> QED
    BY <1>5, <2>1
<1>13. ~(SaveViolates(r) \/ Refetch(r) \/ Delete(r) \/ DatabaseError(r))
  <2> SUFFICES ASSUME SaveViolates(r) \/ Refetch(r) \/ Delete(r) \/ DatabaseError(r)
               PROVE  \E code \in Answers : Answer(r, code)
    BY <1>4
  <2> QED
    BY DEF SaveViolates, Refetch, Delete, DatabaseError, Answers
<1> QED
  BY <1>6, <1>7, <1>8, <1>10, <1>11, <1>12, <1>13 DEF Moves, Step

LEMMA UnmetKept == CInv /\ AllUnmetInv /\ [Next]_vars => AllUnmetInv'
<1> SUFFICES ASSUME CInv, AllUnmetInv, [Next]_vars PROVE AllUnmetInv'
  OBVIOUS
<1>1. ASSUME NEW q \in Requests, Moves(q) PROVE AllUnmetInv'
  BY <1>1, OthersUnmet, OwnUnmet DEF AllUnmetInv
<1>2. CASE Crash
  BY <1>2 DEF Crash, InFlight, InFlightPcs, AllUnmetInv, UnmetInv, CInv,
              CommentsTypeOK
<1>3. ASSUME NEW u \in Users, Register(u) \/ RemoveUser(u) PROVE AllUnmetInv'
  BY <1>3 DEF Register, RemoveUser, AllUnmetInv, UnmetInv, InFlight
<1>4. ASSUME UNCHANGED vars \/ \E t \in Tickets : HideOrShow(t) PROVE AllUnmetInv'
  <2>1. UNCHANGED <<comments, mentions, accounts, pc, call, target, mem, named, plan,
                    met>>
    BY <1>4 DEF vars, store, world, request, HideOrShow
  <2> QED
    BY <2>1 DEF AllUnmetInv, UnmetInv, Alone, Holding, Op, InFlight, Mentioned,
                Resolved, Registered
<1> QED
  BY <1>1, <1>2, <1>3, <1>4 DEF Next, Moves

\* To a request that has met no other request and no change of an account, its
\* comment and its mentions are what they were when it read them.
THEOREM UnmetRequests == Spec => [](CInv /\ AllUnmetInv)
<1>1. Init => AllUnmetInv
  BY DEF Init, AllUnmetInv, UnmetInv, InFlight, InFlightPcs
<1>2. CInv /\ AllUnmetInv /\ [Next]_vars => AllUnmetInv'
  BY UnmetKept
<1> QED
  BY <1>1, <1>2, CommentsInvariance, PTL DEF Spec

\* "Completely purges a comment": an id that was given out and is free is
\* never taken again, but by the save of an edit that has met the removal.
THEOREM PurgedStaysPurged == Spec => PurgedForGood
<1>1. ASSUME CInv, AllUnmetInv, [Next]_vars, NEW id \in 1..sequence,
             id \notin DOMAIN comments, id \in DOMAIN comments'
      PROVE  \E r \in met : Commits(r) /\ target[r] = id
  <2>1. PICK q \in Requests : Moves(q)
    BY <1>1, CommentUnchanged
  <2>2. sequence \in Nat /\ ~(Insert(q) /\ id = sequence + 1)
    BY <1>1, <2>1, SequenceFrame DEF CInv
  <2>3. Reinsert(q) /\ id = target[q]
    BY <1>1, <2>1, <2>2, OwnerKept
  <2>4. pc[q] = "reinsert" /\ pc'[q] = "refetch" /\ q \in InFlight
    BY <1>1, <2>3 DEF Reinsert, Goto, CInv, CommentsTypeOK, InFlight, InFlightPcs
  <2>5. q \in met
    BY <1>1, <2>4 DEF AllUnmetInv, UnmetInv
  <2> QED
    BY <2>3, <2>4, <2>5 DEF Commits
<1>2. CInv /\ AllUnmetInv /\ [Next]_vars =>
        [\A id \in 1..sequence : id \notin DOMAIN comments /\ id \in DOMAIN comments' =>
           \E r \in met : Commits(r) /\ target[r] = id]_vars
  BY <1>1
<1> QED
  BY <1>2, UnmetRequests, PTL DEF Spec, PurgedForGood

LEMMA MentionsAfterCommit ==
  ASSUME CInv, AllUnmetInv, [Next]_vars, NEW r \in Requests \ met, Commits(r),
         call[r].op # "remove"
  PROVE  {u \in Users : <<Saved(r), u>> \in mentions'} = Resolved(call[r].content)
<1> DEFINE resolved == Resolved(call[r].content)
<1>1. /\ r \in InFlight /\ UnmetInv(r) /\ LabelInv(r)
      /\ \/ Insert(r) /\ ~Answer(r, "500")
         \/ Write(r)
         \/ Reinsert(r)
         \/ Delete(r)
  BY CommitCases DEF AllUnmetInv, CInv, ScopeInv
<1>2. resolved \subseteq Users
  BY DEF Resolved, Registered
<1>3. ~Reinsert(r) /\ ~Delete(r)
  BY <1>1 DEF Reinsert, Delete, UnmetInv, LabelInv, Op
<1> HIDE DEF resolved
<1>4. CASE Insert(r) /\ ~Answer(r, "500")
  <2>1. /\ pc[r] = "insert" /\ sequence' = NextId
        /\ mentions' = mentions \cup ({NextId} \X named[r])
    BY <1>4 DEF Insert
  <2>2. named[r] = resolved
    BY <1>1, <2>1 DEF UnmetInv, resolved
  <2>3. NextId \notin DOMAIN comments
    <3>1. sequence \in Nat
      BY CommentsAssumption DEF CInv, CommentsTypeOK
    <3> QED
      BY <3>1 DEF CInv, ScopeInv, NextId
  <2>4. \A u : <<NextId, u>> \notin mentions
    BY <2>3 DEF CInv, CommentsTypeOK
  <2> QED
    BY <1>2, <2>1, <2>2, <2>4 DEF Saved, resolved
<1>5. CASE Write(r)
  <2>1. /\ pc[r] = "write"
        /\ mentions' = (mentions \cup ({target[r]} \X plan[r].ins))
                         \ ({target[r]} \X plan[r].del)
    BY <1>5 DEF Write, MentionsAfter
  <2>2. /\ named[r] = resolved
        /\ plan[r].ins = resolved \ Mentioned(target[r])
        /\ plan[r].del = Mentioned(target[r]) \ resolved
    BY <1>1, <2>1 DEF UnmetInv, resolved
  <2> QED
    BY <1>2, <2>1, <2>2 DEF Saved, Mentioned, resolved
<1> QED
  BY <1>1, <1>3, <1>4, <1>5

\* "On comment update the mention list is re-evaluated": the mentions of a
\* comment that is created or edited are those of its body, unless another
\* request, or a change of an account, came between.
THEOREM MentionsFollowTheBody == Spec => MentionsReevaluated
<1>1. CInv /\ AllUnmetInv /\ [Next]_vars =>
        [\A r \in Requests \ met : Commits(r) /\ call[r].op # "remove" =>
           {u \in Users : <<Saved(r), u>> \in mentions'} =
             Resolved(call[r].content)]_vars
  BY MentionsAfterCommit
<1> QED
  BY <1>1, UnmetRequests, PTL DEF Spec, MentionsReevaluated
=============================================================================
