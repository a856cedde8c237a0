--------------------------- MODULE AccountsProofs ---------------------------
(***************************************************************************)
(* Theorems about Accounts, for any number of accounts and clients.        *)
(*                                                                         *)
(* What the properties say of the tables depends on what the handlers hold *)
(* in memory.  ClientOK says it: an account that was read for an update    *)
(* never has a password and keeps its username and email, so that a save   *)
(* neither brings a removed account back nor renames one; and as long as   *)
(* nothing has overtaken the request, what it holds is what the table says.*)
(***************************************************************************)
EXTENDS Accounts, FiniteSetTheorems, TLAPS

RequestFields == {"pc", "call", "account", "entity", "columns", "overtaken"}

\* Client c holds the account u that it is to save.
HoldsUpdate(c, u, entity) ==
  /\ client[c].call.op = "update"
  /\ u \in 1..lastId
  /\ DOMAIN entity = LoadedColumns
  /\ \A f \in LoadedColumns : entity[f] \in AccountType[f]
  /\ u \in DOMAIN users => /\ entity.username = users[u].username
                           /\ entity.email = users[u].email
  /\ ~client[c].overtaken =>
       /\ u \in DOMAIN users
       /\ \A f \in LoadedColumns \ DOMAIN client[c].call.patch :
            entity[f] = users[u][f]

\* Client c holds the account u that it is to sign.
HoldsLogin(c, u, entity) ==
  /\ u \in 1..lastId
  /\ IsAccount(entity)
  /\ u \in DOMAIN users => entity.username = users[u].username
  /\ ~client[c].overtaken => u \in DOMAIN users /\ entity = users[u]

ClientOK(c) ==
  /\ DOMAIN client[c] = RequestFields
  /\ client[c].overtaken \in BOOLEAN
  /\ client[c].account \in (1..lastId) \cup {NoAccount}
  /\ client[c].pc \in Steps => client[c].call \in AccountCalls
  /\ client[c].pc \in {"check", "insert"} => client[c].call.op = "create"
  /\ client[c].pc \in {"reload", "write", "reinsert"} =>
       HoldsUpdate(c, client[c].account, client[c].entity)
  /\ client[c].pc = "write" => client[c].columns \subseteq {"fullName", "role"}
  /\ client[c].pc = "compare" =>
       HoldsLogin(c, client[c].account, client[c].entity)

TablesOK ==
  /\ lastId \in AccountIds \cup {0}
  /\ DOMAIN users \subseteq 1..lastId
  /\ \A u \in DOMAIN users : IsAccount(users[u])
  /\ tokens \subseteq [sub : 1..lastId, username : Usernames, role : Roles,
                       iat : 0..now]
  /\ denied \subseteq tokens
  /\ now \in 0..MaxTime

ClientsOK == DOMAIN client = Clients /\ \A c \in Clients : ClientOK(c)

IInv == TablesOK /\ AccountsDistinct /\ TokenNamesItsUser /\ ClientsOK

LEMMA ColumnFacts ==
  /\ DOMAIN AccountType = {"username", "email", "fullName", "role", "password"}
  /\ LoadedColumns = {"username", "email", "fullName", "role"}
  /\ AccountType["username"] = Usernames
  /\ AccountType["email"] = Emails
  /\ AccountType["fullName"] = FullNames
  /\ AccountType["role"] = Roles
BY DEF AccountType, LoadedColumns

LEMMA InitIInv == AccountsInit => IInv
<1> SUFFICES ASSUME AccountsInit PROVE IInv
  OBVIOUS
<1>1. PICK n \in AccountIds \cup {0} : DOMAIN users = 1..n
  BY AccountsAssumption DEF AccountsInit, IsTable
<1>2. n \in Nat
  BY AccountsAssumption
<1>3. lastId = n
  BY <1>1, <1>2, FS_Interval DEF AccountsInit
<1>4. TablesOK
  BY <1>1, <1>2, <1>3, AccountsAssumption DEF AccountsInit, IsTable, TablesOK
<1>5. AccountsDistinct /\ TokenNamesItsUser
  BY AccountsAssumption
     DEF AccountsInit, IsTable, AccountsDistinct, TokenNamesItsUser
<1>6. ClientsOK
  BY DEF AccountsInit, ClientsOK, ClientOK, Answered, RequestFields, Steps
<1> QED
  BY <1>4, <1>5, <1>6 DEF IInv

-----------------------------------------------------------------------------
(* One request moves, and the tables stay as they are.                     *)

LEMMA AnsweredOK ==
  ASSUME NEW c \in Clients, NEW code, code \notin Steps,
         client'[c] = Answered(code)
  PROVE  ClientOK(c)'
BY DEF ClientOK, Answered, RequestFields, Steps

LEMMA OthersKept ==
  ASSUME IInv, NEW c \in Clients, NEW request, Becomes(c, request),
         UNCHANGED store, ClientOK(c)'
  PROVE  ClientsOK'
<1>1. DOMAIN client' = Clients
  BY DEF IInv, ClientsOK, Becomes
<1>2. ASSUME NEW d \in Clients, d # c
      PROVE  ClientOK(d)'
  <2>1. client'[d] = client[d] /\ users' = users /\ lastId' = lastId
    BY <1>2 DEF Becomes, store, IInv, ClientsOK
  <2> QED
    BY <2>1 DEF IInv, ClientsOK, ClientOK, HoldsUpdate, HoldsLogin
<1> QED
  BY <1>1, <1>2 DEF ClientsOK

LEMMA StoreKept ==
  ASSUME IInv, UNCHANGED <<store, sessions, now>>
  PROVE  TablesOK' /\ AccountsDistinct' /\ TokenNamesItsUser'
BY DEF IInv, TablesOK, AccountsDistinct, TokenNamesItsUser, store, sessions

\* A step that only answers, or only changes what the handler holds.
LEMMA MoveIInv ==
  ASSUME IInv, NEW c \in Clients, NEW request, Becomes(c, request),
         UNCHANGED <<store, sessions, now>>, ClientOK(c)'
  PROVE  IInv'
BY StoreKept, OthersKept DEF IInv

LEMMA AnswerIInv ==
  ASSUME IInv, NEW c \in Clients, NEW code, code \notin Steps,
         Answer(c, code), UNCHANGED <<store, sessions, now>>
  PROVE  IInv'
<1>1. client'[c] = Answered(code)
  BY DEF Answer, Becomes, IInv, ClientsOK
<1> QED
  BY <1>1, AnsweredOK, MoveIInv DEF Answer

LEMMA GotoIInv ==
  ASSUME IInv, NEW c \in Clients, NEW step, step \in Steps, Goto(c, step),
         UNCHANGED <<store, sessions, now>>, client[c].pc \in Steps,
         step \in {"check", "insert"} => client[c].call.op = "create",
         step \in {"reload", "reinsert"} =>
           HoldsUpdate(c, client[c].account, client[c].entity),
         step \notin {"write", "compare"}
  PROVE  IInv'
<1> DEFINE request == [client[c] EXCEPT !.pc = step]
<1>1. ClientOK(c)
  BY DEF IInv, ClientsOK
<1>2. client'[c] = request
  BY DEF Goto, Becomes, IInv, ClientsOK
<1>3. /\ DOMAIN client'[c] = RequestFields
      /\ client'[c].pc = step
      /\ client'[c].call = client[c].call
      /\ client'[c].account = client[c].account
      /\ client'[c].entity = client[c].entity
      /\ client'[c].overtaken = client[c].overtaken
  BY <1>1, <1>2 DEF ClientOK, RequestFields
<1>4. ClientOK(c)'
  BY <1>1, <1>3 DEF ClientOK, HoldsUpdate, store, Steps
<1> QED
  BY <1>4, MoveIInv DEF Goto

-----------------------------------------------------------------------------
(* Steps that leave the tables alone.                                      *)

LEMMA CallFacts ==
  ASSUME IInv, NEW c \in Clients, client[c].pc \in Steps
  PROVE  IsAccountCall(client[c].call)
BY AccountsAssumption DEF IInv, ClientsOK, ClientOK

LEMMA BeginIInv ==
  ASSUME IInv, NEW c \in Clients, Begin(c)
  PROVE  IInv'
<1>1. PICK call \in AccountCalls :
        /\ call.op # "logout"
        /\ Becomes(c, [Answered(First[call.op]) EXCEPT !.call = call])
  BY DEF Begin
<1> DEFINE request == [Answered(First[call.op]) EXCEPT !.call = call]
<1>2. client'[c] = request
  BY <1>1 DEF Becomes, IInv, ClientsOK
<1>3. call.op \in {"create", "update", "remove", "login"}
  BY <1>1, AccountsAssumption DEF IsAccountCall
<1>4. /\ First[call.op] \in {"check", "read", "lookup"}
      /\ First[call.op] = "check" => call.op = "create"
  BY <1>3 DEF First
<1>5. /\ DOMAIN client'[c] = RequestFields
      /\ client'[c].pc = First[call.op]
      /\ client'[c].call = call
      /\ client'[c].account = NoAccount
      /\ client'[c].overtaken = FALSE
  BY <1>2 DEF Answered, RequestFields
<1>6. ClientOK(c)'
  BY <1>4, <1>5 DEF ClientOK
<1> QED
  BY <1>1, <1>6, MoveIInv DEF Begin

LEMMA CreateCheckIInv ==
  ASSUME IInv, NEW c \in Clients, CreateCheck(c)
  PROVE  IInv'
<1>1. client[c].call.op = "create"
  BY DEF IInv, ClientsOK, ClientOK, CreateCheck, At
<1>2. CASE Answer(c, "400")
  BY <1>2, AnswerIInv DEF CreateCheck, Steps
<1>3. CASE Goto(c, "insert")
  BY <1>1, <1>3, GotoIInv DEF CreateCheck, Steps, At
<1> QED
  BY <1>2, <1>3 DEF CreateCheck

LEMMA ReadIInv ==
  ASSUME IInv, NEW c \in Clients, Read(c)
  PROVE  IInv'
<1> DEFINE call == client[c].call
           u == call.id
<1>1. client[c].pc = "read" /\ client[c].pc \in Steps /\ ClientOK(c)
  BY DEF Read, At, Steps, IInv, ClientsOK
<1>2. CASE Answer(c, "404")
  BY <1>2, AnswerIInv DEF Read, Steps
<1>3. CASE /\ u \in DOMAIN users /\ call.op = "update"
           /\ Hold(c, "reload", u, Amended(Loaded(u), call.patch))
  <2> DEFINE entity == Amended(Loaded(u), call.patch)
             request == [client[c] EXCEPT !.pc = "reload", !.account = u,
                                          !.entity = entity]
  <2>1. client'[c] = request
    BY <1>3 DEF Hold, Becomes, IInv, ClientsOK
  <2>2. /\ DOMAIN client'[c] = RequestFields
        /\ client'[c].pc = "reload"
        /\ client'[c].call = call
        /\ client'[c].account = u
        /\ client'[c].entity = entity
        /\ client'[c].overtaken = client[c].overtaken
    BY <1>1, <2>1 DEF ClientOK, RequestFields
  <2>3. /\ DOMAIN call.patch \subseteq {"fullName", "role"}
        /\ \A f \in DOMAIN call.patch : call.patch[f] \in AccountType[f]
    BY <1>1, <1>3, CallFacts DEF IsAccountCall
  <2>4. u \in 1..lastId /\ IsAccount(users[u])
    BY <1>3 DEF IInv, TablesOK
  <2>5. /\ DOMAIN entity = LoadedColumns
        /\ \A f \in LoadedColumns :
             entity[f] = IF f \in DOMAIN call.patch THEN call.patch[f]
                         ELSE users[u][f]
    BY DEF Amended, Loaded
  <2>6. \A f \in LoadedColumns : entity[f] \in AccountType[f]
    BY <2>3, <2>4, <2>5 DEF IsAccount, LoadedColumns
  <2>7. entity.username = users[u].username /\ entity.email = users[u].email
    BY <2>3, <2>5, ColumnFacts
  <2>8. HoldsUpdate(c, client[c].account, client[c].entity)'
    <3> HIDE DEF entity
    <3> QED
      BY <1>3, <2>2, <2>4, <2>5, <2>6, <2>7 DEF HoldsUpdate, Read, store
  <2>9. ClientOK(c)'
    BY <1>1, <2>2, <2>4, <2>8 DEF ClientOK, Read, store
  <2> QED
    BY <1>3, <2>9, MoveIInv DEF Hold, Read
<1>4. CASE /\ u \in DOMAIN users
           /\ Hold(c, "delete", u, << >>)
  <2> DEFINE request == [client[c] EXCEPT !.pc = "delete", !.account = u,
                                          !.entity = << >>]
  <2>1. client'[c] = request
    BY <1>4 DEF Hold, Becomes, IInv, ClientsOK
  <2>2. /\ DOMAIN client'[c] = RequestFields
        /\ client'[c].pc = "delete"
        /\ client'[c].call = call
        /\ client'[c].account = u
        /\ client'[c].overtaken = client[c].overtaken
    BY <1>1, <2>1 DEF ClientOK, RequestFields
  <2>3. ClientOK(c)'
    BY <1>1, <1>4, <2>2 DEF ClientOK, Read, store, IInv, TablesOK
  <2> QED
    BY <1>4, <2>3, MoveIInv DEF Hold, Read
<1> QED
  BY <1>2, <1>3, <1>4 DEF Read

LEMMA ReloadIInv ==
  ASSUME IInv, NEW c \in Clients, Reload(c)
  PROVE  IInv'
<1> DEFINE u == client[c].account
           entity == client[c].entity
           differ == Changed(entity, Loaded(u))
<1>1. /\ client[c].pc = "reload" /\ client[c].pc \in Steps /\ ClientOK(c)
      /\ HoldsUpdate(c, u, entity)
  BY DEF Reload, At, Steps, IInv, ClientsOK, ClientOK
<1>2. CASE Goto(c, "reinsert")
  BY <1>1, <1>2, GotoIInv DEF Reload, Steps
<1>3. CASE Goto(c, "refetch")
  BY <1>1, <1>3, GotoIInv DEF Reload, Steps
<1>4. CASE /\ u \in DOMAIN users
           /\ Becomes(c, [client[c] EXCEPT !.pc = "write", !.columns = differ])
  <2> DEFINE request == [client[c] EXCEPT !.pc = "write", !.columns = differ]
  <2>1. client'[c] = request
    BY <1>4 DEF Becomes, IInv, ClientsOK
  <2>2. /\ DOMAIN client'[c] = RequestFields
        /\ client'[c].pc = "write"
        /\ client'[c].call = client[c].call
        /\ client'[c].account = u
        /\ client'[c].entity = entity
        /\ client'[c].columns = differ
        /\ client'[c].overtaken = client[c].overtaken
    BY <1>1, <2>1 DEF ClientOK, RequestFields
  <2>3. differ \subseteq {"fullName", "role"}
    BY <1>1, <1>4, ColumnFacts DEF Changed, Loaded, HoldsUpdate
  <2>4. ClientOK(c)'
    <3> HIDE DEF differ
    <3> QED
      BY <1>1, <2>2, <2>3 DEF ClientOK, HoldsUpdate, Reload, store, Steps
  <2> QED
    BY <1>4, <2>4, MoveIInv DEF Reload
<1> QED
  BY <1>2, <1>3, <1>4 DEF Reload

LEMMA RefetchIInv ==
  ASSUME IInv, NEW c \in Clients, Refetch(c)
  PROVE  IInv'
BY AnswerIInv DEF Refetch, Steps

LEMMA LookupIInv ==
  ASSUME IInv, NEW c \in Clients, Lookup(c)
  PROVE  IInv'
<1>1. client[c].pc = "lookup" /\ client[c].pc \in Steps /\ ClientOK(c)
  BY DEF Lookup, At, Steps, IInv, ClientsOK
<1>2. CASE Answer(c, "401")
  BY <1>2, AnswerIInv DEF Lookup, Steps
<1>3. ASSUME NEW u \in DOMAIN users, Hold(c, "compare", u, users[u])
      PROVE  IInv'
  <2> DEFINE request == [client[c] EXCEPT !.pc = "compare", !.account = u,
                                          !.entity = users[u]]
  <2>1. client'[c] = request
    BY <1>3 DEF Hold, Becomes, IInv, ClientsOK
  <2>2. /\ DOMAIN client'[c] = RequestFields
        /\ client'[c].pc = "compare"
        /\ client'[c].call = client[c].call
        /\ client'[c].account = u
        /\ client'[c].entity = users[u]
        /\ client'[c].overtaken = client[c].overtaken
    BY <1>1, <2>1 DEF ClientOK, RequestFields
  <2>3. u \in 1..lastId /\ IsAccount(users[u])
    BY <1>3 DEF IInv, TablesOK
  <2>4. HoldsLogin(c, u, users[u])'
    BY <1>3, <2>2, <2>3 DEF HoldsLogin, Lookup, store, IsAccount
  <2>5. ClientOK(c)'
    BY <1>1, <2>2, <2>3, <2>4 DEF ClientOK, Lookup, store
  <2> QED
    BY <1>3, <2>5, MoveIInv DEF Hold, Lookup
<1> QED
  BY <1>2, <1>3 DEF Lookup

-----------------------------------------------------------------------------
(* Steps that change a table.                                              *)

\* Account u, if any, was changed or removed by the request of c.
LEMMA OthersOvertaken ==
  ASSUME IInv, NEW c \in Clients, NEW u, NEW request, Overtaking(c, u, request),
         lastId' = lastId,
         \A v \in DOMAIN users' :
           /\ v \in DOMAIN users
           /\ users'[v].username = users[v].username
           /\ users'[v].email = users[v].email,
         \A v \in DOMAIN users \ {u} :
           v \in DOMAIN users' /\ users'[v] = users[v],
         ClientOK(c)'
  PROVE  ClientsOK'
<1>1. DOMAIN client' = Clients
  BY DEF Overtaking
<1>2. ASSUME NEW d \in Clients, d # c
      PROVE  ClientOK(d)'
  <2> DEFINE seen == client[d].overtaken \/ client[d].account = u
  <2>1. client'[d] = [client[d] EXCEPT !.overtaken = seen]
    BY <1>2 DEF Overtaking
  <2>2. ClientOK(d)
    BY DEF IInv, ClientsOK
  <2>3. /\ DOMAIN client'[d] = RequestFields
        /\ client'[d].pc = client[d].pc
        /\ client'[d].call = client[d].call
        /\ client'[d].account = client[d].account
        /\ client'[d].entity = client[d].entity
        /\ client'[d].columns = client[d].columns
        /\ client'[d].overtaken = seen
    <3> HIDE DEF seen
    <3> QED
      BY <2>1, <2>2 DEF ClientOK, RequestFields
  <2>4. /\ client'[d].overtaken \in BOOLEAN
        /\ ~client'[d].overtaken => /\ ~client[d].overtaken
                                    /\ client[d].account # u
    BY <2>3, Zenon
  <2>5. ASSUME HoldsUpdate(d, client[d].account, client[d].entity)
        PROVE  HoldsUpdate(d, client[d].account, client[d].entity)'
    <3> HIDE DEF seen
    <3> QED
      BY <2>3, <2>4, <2>5 DEF HoldsUpdate
  <2>6. ASSUME HoldsLogin(d, client[d].account, client[d].entity)
        PROVE  HoldsLogin(d, client[d].account, client[d].entity)'
    <3> HIDE DEF seen
    <3> QED
      BY <2>3, <2>4, <2>6 DEF HoldsLogin, IsAccount
  <2> HIDE DEF seen
  <2> QED
    BY <2>2, <2>3, <2>4, <2>5, <2>6 DEF ClientOK
<1> QED
  BY <1>1, <1>2 DEF ClientsOK

LEMMA CreateInsertIInv ==
  ASSUME IInv, NEW c \in Clients, CreateInsert(c)
  PROVE  IInv'
<1> DEFINE row == client[c].call.row
           id == lastId + 1
<1>1. client[c].pc = "insert" /\ IsAccount(row) /\ lastId \in Nat
  BY CallFacts, AccountsAssumption
     DEF CreateInsert, At, Steps, IInv, ClientsOK, ClientOK, IsAccountCall,
         TablesOK
<1>2. /\ lastId' = id /\ id \in AccountIds
      /\ tokens' = tokens /\ denied' = denied /\ now' = now
      /\ \/ users' = users
         \/ users' = With(id, row) /\ ~Duplicate(row)
      /\ \E code \in {"ok", "500"} : Answer(c, code)
  BY DEF CreateInsert, NextId, sessions
<1>3. /\ \A v \in DOMAIN users : v \in DOMAIN users' /\ users'[v] = users[v]
      /\ \A v \in DOMAIN users' \ DOMAIN users :
           v = id /\ users'[v] = row /\ ~Duplicate(row)
  BY <1>1, <1>2 DEF With, IInv, TablesOK
<1>4. 1..lastId \subseteq 1..lastId' /\ id \notin 1..lastId /\ id \in 1..lastId'
  BY <1>1, <1>2
<1>5. TablesOK'
  <2>1. tokens' \subseteq [sub : 1..lastId', username : Usernames, role : Roles,
                           iat : 0..now']
    BY <1>2, <1>4 DEF IInv, TablesOK
  <2>2. DOMAIN users' \subseteq 1..lastId'
    BY <1>3, <1>4 DEF IInv, TablesOK
  <2>3. \A u \in DOMAIN users' : IsAccount(users'[u])
    BY <1>1, <1>3 DEF IInv, TablesOK
  <2> QED
    BY <1>2, <2>1, <2>2, <2>3 DEF IInv, TablesOK, IsAccount
<1>6. AccountsDistinct'
  BY <1>3 DEF IInv, AccountsDistinct, Duplicate, Taken
<1>7. TokenNamesItsUser'
  BY <1>2, <1>3, <1>4 DEF IInv, TokenNamesItsUser, TablesOK
<1>8. ClientsOK'
  <2>1. DOMAIN client' = Clients
    BY <1>2 DEF Answer, Becomes, IInv, ClientsOK
  <2>2. ClientOK(c)'
    BY <1>2, AnsweredOK DEF Answer, Becomes, IInv, ClientsOK, Steps
  <2>3. ASSUME NEW d \in Clients, d # c
        PROVE  ClientOK(d)'
    <3>1. client'[d] = client[d] /\ ClientOK(d)
      BY <1>2, <2>3 DEF Answer, Becomes, IInv, ClientsOK
    <3>2. ASSUME HoldsUpdate(d, client[d].account, client[d].entity)
          PROVE  HoldsUpdate(d, client[d].account, client[d].entity)'
      BY <3>1, <3>2, <1>3, <1>4 DEF HoldsUpdate
    <3>3. ASSUME HoldsLogin(d, client[d].account, client[d].entity)
          PROVE  HoldsLogin(d, client[d].account, client[d].entity)'
      BY <3>1, <3>3, <1>3, <1>4 DEF HoldsLogin, IsAccount
    <3> QED
      BY <3>1, <3>2, <3>3, <1>4 DEF ClientOK
  <2> QED
    BY <2>1, <2>2, <2>3 DEF ClientsOK
<1> QED
  BY <1>5, <1>6, <1>7, <1>8 DEF IInv

\* What the UPDATE of an account leaves as it was.
LEMMA WriteRow ==
  ASSUME IInv, NEW c \in Clients, client[c].pc = "write",
         client[c].account \in DOMAIN users
  PROVE  LET u == client[c].account
             row == Updated(users[u], client[c].entity, client[c].columns)
         IN  /\ IsAccount(row)
             /\ row.username = users[u].username
             /\ row.email = users[u].email
             /\ ~client[c].overtaken =>
                  \A f \in DOMAIN AccountType \ DOMAIN client[c].call.patch :
                    row[f] = users[u][f]
<1> DEFINE u == client[c].account
           entity == client[c].entity
           columns == client[c].columns
           row == Updated(users[u], entity, columns)
<1>1. /\ HoldsUpdate(c, u, entity)
      /\ columns \subseteq {"fullName", "role"}
      /\ IsAccount(users[u])
  BY DEF IInv, ClientsOK, ClientOK, TablesOK
<1>2. /\ DOMAIN row = DOMAIN AccountType
      /\ \A f \in DOMAIN AccountType :
           row[f] = IF f \in columns THEN entity[f] ELSE users[u][f]
  <2>1. "version" \notin DOMAIN AccountType
    BY ColumnFacts
  <2> QED
    BY <1>1, <2>1 DEF Updated, IsAccount
<1> HIDE DEF row
<1>3. {"fullName", "role"} \subseteq LoadedColumns
  BY ColumnFacts
<1>4. IsAccount(row)
  BY <1>1, <1>2, <1>3 DEF IsAccount, HoldsUpdate
<1>5. row.username = users[u].username /\ row.email = users[u].email
  BY <1>1, <1>2, ColumnFacts
<1>6. ASSUME ~client[c].overtaken,
             NEW f \in DOMAIN AccountType \ DOMAIN client[c].call.patch
      PROVE  row[f] = users[u][f]
  BY <1>1, <1>2, <1>3, <1>6 DEF HoldsUpdate
<1> QED
  BY <1>4, <1>5, <1>6 DEF row

LEMMA WriteIInv ==
  ASSUME IInv, NEW c \in Clients, Write(c)
  PROVE  IInv'
<1> DEFINE u == client[c].account
           row == Updated(users[u], client[c].entity, client[c].columns)
           request == [client[c] EXCEPT !.pc = "refetch"]
<1>1. client[c].pc = "write" /\ client[c].pc \in Steps /\ ClientOK(c)
  BY DEF Write, At, Steps, IInv, ClientsOK
<1>2. CASE users' = users /\ Goto(c, "refetch")
  BY <1>1, <1>2, GotoIInv DEF Write, Steps, store
<1>3. CASE /\ u \in DOMAIN users
           /\ users' = [users EXCEPT ![u] = row]
           /\ Overtaking(c, u, request)
  <2>1. /\ IsAccount(row)
        /\ row.username = users[u].username
        /\ row.email = users[u].email
    BY <1>1, <1>3, WriteRow
  <2>2. /\ lastId' = lastId /\ tokens' = tokens
        /\ denied' = denied /\ now' = now
    BY DEF Write, sessions
  <2> HIDE DEF row
  <2>3. /\ DOMAIN users' = DOMAIN users
        /\ users'[u] = row
        /\ \A v \in DOMAIN users \ {u} : users'[v] = users[v]
    BY <1>3
  <2>4. /\ \A v \in DOMAIN users' : IsAccount(users'[v])
        /\ \A v \in DOMAIN users' : /\ users'[v].username = users[v].username
                                     /\ users'[v].email = users[v].email
    BY <2>1, <2>3 DEF IInv, TablesOK
  <2>5. TablesOK'
    BY <2>2, <2>3, <2>4 DEF IInv, TablesOK, IsAccount
  <2>6. AccountsDistinct' /\ TokenNamesItsUser'
    BY <2>2, <2>3, <2>4 DEF IInv, AccountsDistinct, TokenNamesItsUser
  <2>7. client'[c] = request
    BY <1>3 DEF Overtaking
  <2>8. /\ DOMAIN client'[c] = RequestFields
        /\ client'[c].pc = "refetch"
        /\ client'[c].call = client[c].call
        /\ client'[c].account = client[c].account
        /\ client'[c].overtaken = client[c].overtaken
    BY <1>1, <2>7 DEF ClientOK, RequestFields
  <2>9. ClientOK(c)'
    BY <1>1, <2>2, <2>8 DEF ClientOK
  <2>10. ClientsOK'
    BY <1>3, <2>2, <2>3, <2>4, <2>9, OthersOvertaken
  <2> QED
    BY <2>5, <2>6, <2>10 DEF IInv
<1> QED
  BY <1>2, <1>3 DEF Write

\* The INSERT fails: an account that was loaded has no password.
LEMMA ReinsertFails ==
  ASSUME IInv, NEW c \in Clients, Reinsert(c)
  PROVE  Answer(c, "500") /\ users' = users
<1>1. HoldsUpdate(c, client[c].account, client[c].entity)
  BY DEF Reinsert, At, IInv, ClientsOK, ClientOK
<1>2. ~IsAccount(client[c].entity)
  BY <1>1, ColumnFacts DEF HoldsUpdate, IsAccount
<1> QED
  BY <1>2 DEF Reinsert

LEMMA ReinsertIInv ==
  ASSUME IInv, NEW c \in Clients, Reinsert(c)
  PROVE  IInv'
BY ReinsertFails, AnswerIInv DEF Reinsert, Steps, store

LEMMA DeleteIInv ==
  ASSUME IInv, NEW c \in Clients, Delete(c)
  PROVE  IInv'
<1>1. /\ lastId' = lastId /\ tokens' = tokens
      /\ denied' = denied /\ now' = now
      /\ DOMAIN users' = DOMAIN users \ {client[c].account}
      /\ \A v \in DOMAIN users' : users'[v] = users[v]
      /\ Overtaking(c, client[c].account, Answered("ok"))
  BY DEF Delete, sessions
<1>2. TablesOK'
  BY <1>1 DEF IInv, TablesOK, IsAccount
<1>3. AccountsDistinct' /\ TokenNamesItsUser'
  BY <1>1 DEF IInv, AccountsDistinct, TokenNamesItsUser
<1>4. ClientOK(c)'
  BY <1>1, AnsweredOK DEF Overtaking, Steps
<1>5. ClientsOK'
  BY <1>1, <1>4, OthersOvertaken
<1> QED
  BY <1>2, <1>3, <1>5 DEF IInv

-----------------------------------------------------------------------------
(* Sessions, the clock and the process.                                    *)

LEMMA LogoutIInv ==
  ASSUME IInv, NEW c \in Clients, Logout(c)
  PROVE  IInv'
<1>1. denied' \subseteq tokens
  BY DEF Logout, Denying, IInv, TablesOK
<1>2. TablesOK' /\ AccountsDistinct' /\ TokenNamesItsUser'
  BY <1>1 DEF Logout, store, IInv, TablesOK, AccountsDistinct,
              TokenNamesItsUser
<1>3. ClientsOK'
  <2>1. ClientOK(c)'
    BY AnsweredOK DEF Logout, Answer, Becomes, IInv, ClientsOK, Steps
  <2> QED
    BY <2>1, OthersKept DEF Logout, Answer
<1> QED
  BY <1>2, <1>3 DEF IInv

LEMMA SignIInv ==
  ASSUME IInv, NEW c \in Clients, Sign(c)
  PROVE  IInv'
<1> DEFINE u == client[c].account
           t == TokenOf(u, client[c].entity)
<1>1. HoldsLogin(c, u, client[c].entity)
  BY DEF Sign, At, IInv, ClientsOK, ClientOK
<1>2. /\ tokens' = tokens \cup {t} /\ users' = users /\ lastId' = lastId
      /\ denied' = denied /\ now' = now
  BY DEF Sign, Identity, store
<1>3. t \in [sub : 1..lastId, username : Usernames, role : Roles, iat : 0..now]
  BY <1>1, ColumnFacts DEF TokenOf, HoldsLogin, IsAccount, IInv, TablesOK
<1>4. t.sub = u /\ t.username = client[c].entity.username
  BY DEF TokenOf
<1> HIDE DEF t
<1>5. TablesOK'
  BY <1>2, <1>3 DEF IInv, TablesOK
<1>6. TokenNamesItsUser'
  BY <1>1, <1>2, <1>4 DEF HoldsLogin, IInv, TokenNamesItsUser
<1>7. AccountsDistinct'
  BY <1>2 DEF IInv, AccountsDistinct
<1>8. ClientOK(c)'
  BY AnsweredOK DEF Sign, Answer, Becomes, IInv, ClientsOK, Steps
<1>9. ClientsOK'
  BY <1>8, OthersKept DEF Sign, Answer
<1> QED
  BY <1>5, <1>6, <1>7, <1>9 DEF IInv

LEMMA RestartIInv ==
  ASSUME IInv, Restart
  PROVE  IInv'
<1>1. TablesOK' /\ AccountsDistinct' /\ TokenNamesItsUser'
  BY DEF Restart, store, IInv, TablesOK, AccountsDistinct, TokenNamesItsUser
<1>2. ASSUME NEW c \in Clients
      PROVE  ClientOK(c)'
  <2>1. CASE c \in Busy
    BY <2>1, AnsweredOK DEF Restart, Steps
  <2>2. CASE c \notin Busy
    <3>1. client'[c] = client[c] /\ ClientOK(c)
      BY <2>2 DEF Restart, IInv, ClientsOK
    <3> QED
      BY <3>1 DEF ClientOK, HoldsUpdate, HoldsLogin, Restart, store
  <2> QED
    BY <2>1, <2>2
<1>3. ClientsOK'
  BY <1>2 DEF ClientsOK, Restart
<1> QED
  BY <1>1, <1>3 DEF IInv

LEMMA TickIInv ==
  ASSUME IInv, Tick
  PROVE  IInv'
<1>1. now' \in 0..MaxTime /\ 0..now \subseteq 0..now'
  BY AccountsAssumption DEF Tick, IInv, TablesOK
<1>2. TablesOK'
  BY <1>1 DEF Tick, store, sessions, IInv, TablesOK
<1>3. AccountsDistinct' /\ TokenNamesItsUser'
  BY DEF Tick, store, sessions, IInv, AccountsDistinct, TokenNamesItsUser
<1>4. ClientsOK'
  BY DEF Tick, store, IInv, ClientsOK, ClientOK, HoldsUpdate, HoldsLogin
<1> QED
  BY <1>2, <1>3, <1>4 DEF IInv

LEMMA NextIInv ==
  ASSUME IInv, [AccountsNext]_accountVars
  PROVE  IInv'
<1>1. ASSUME NEW c \in Clients, Unauthorized(c)
      PROVE  IInv'
  BY <1>1, AnswerIInv DEF Unauthorized, Steps
<1>2. ASSUME NEW c \in Clients, Mismatch(c)
      PROVE  IInv'
  BY <1>2, AnswerIInv DEF Mismatch, Steps
<1>3. ASSUME NEW c \in Clients, Fail(c)
      PROVE  IInv'
  BY <1>3, AnswerIInv DEF Fail, Steps
<1>4. CASE UNCHANGED accountVars
  BY <1>4 DEF accountVars, store, sessions, IInv, TablesOK, AccountsDistinct,
              TokenNamesItsUser, ClientsOK, ClientOK, HoldsUpdate, HoldsLogin
<1>5. CASE AccountsNext
  BY <1>5, <1>1, <1>2, <1>3, BeginIInv, LogoutIInv, CreateCheckIInv,
     CreateInsertIInv, ReadIInv, ReloadIInv, WriteIInv, ReinsertIInv,
     RefetchIInv, DeleteIInv, LookupIInv, SignIInv, RestartIInv, TickIInv
     DEF AccountsNext
<1> QED
  BY <1>4, <1>5

-----------------------------------------------------------------------------
(* Theorems.                                                               *)

\* The inductive invariant: the tables are well typed and distinct, tokens
\* name their accounts, and every handler holds what ClientOK says.
THEOREM AccountsInvariance == AccountsSpec => []IInv
<1>1. IInv /\ [AccountsNext]_accountVars => IInv'
  BY NextIInv
<1> QED
  BY InitIInv, <1>1, PTL DEF AccountsSpec

\* Types of all variables: rows, tokens and what the handlers of
\* UsersService and AuthService hold.
THEOREM AccountsTyping == AccountsSpec => []AccountsTypeOK
<1>1. ASSUME IInv
      PROVE  AccountsTypeOK
  <2>1. ASSUME NEW c \in Clients
        PROVE  /\ client[c].account \in (1..lastId) \cup {NoAccount}
               /\ client[c].pc \in {"reload", "write", "reinsert", "compare"} =>
                    LoadedColumns \subseteq DOMAIN client[c].entity
    BY <1>1, ColumnFacts
       DEF IInv, ClientsOK, ClientOK, HoldsUpdate, HoldsLogin, IsAccount
  <2> QED
    BY <1>1, <2>1 DEF AccountsTypeOK, IInv, TablesOK
<1>2. IInv => AccountsTypeOK
  BY <1>1
<1> QED
  BY <1>2, AccountsInvariance, PTL

\* create() checks before it inserts, update() saves what it read earlier,
\* and still no two accounts ever share a username or an email.
THEOREM AccountsStayDistinct == AccountsSpec => []AccountsDistinct
<1>1. IInv => AccountsDistinct
  BY DEF IInv
<1> QED
  BY <1>1, AccountsInvariance, PTL

\* The id and the name in a token, which handlers trust without a look at the
\* account, mean one account for as long as the token exists.
THEOREM TokensNameTheirUsers == AccountsSpec => []TokenNamesItsUser
<1>1. IInv => TokenNamesItsUser
  BY DEF IInv
<1> QED
  BY <1>1, AccountsInvariance, PTL

\* What remove() deleted comes back in no way: the sequence gives no id twice,
\* and the save() of an update that overlaps the removal fails.
THEOREM RemovalIsFinal == AccountsSpec => RemovedForGood
<1> DEFINE Stays == \A u \in 1..lastId :
                      u \notin DOMAIN users => u \notin DOMAIN users'
<1>1. ASSUME IInv, [AccountsNext]_accountVars
      PROVE  Stays
  <2>1. ASSUME NEW c \in Clients, CreateInsert(c)
        PROVE  Stays
    <3>1. DOMAIN users' \subseteq DOMAIN users \cup {lastId + 1}
      BY <2>1 DEF CreateInsert, NextId, With
    <3>2. lastId + 1 \notin 1..lastId
      BY <1>1, AccountsAssumption DEF IInv, TablesOK
    <3> QED
      BY <3>1, <3>2
  <2>2. ASSUME NEW c \in Clients, Write(c)
        PROVE  Stays
    BY <2>2 DEF Write
  <2>3. ASSUME NEW c \in Clients, Reinsert(c)
        PROVE  Stays
    BY <1>1, <2>3, ReinsertFails
  <2>4. ASSUME NEW c \in Clients, Delete(c)
        PROVE  Stays
    BY <2>4 DEF Delete
  <2>5. CASE UNCHANGED users
    BY <2>5
  <2> QED
    BY <1>1, <2>1, <2>2, <2>3, <2>4, <2>5
       DEF AccountsNext, accountVars, store, Begin, Unauthorized, Logout,
           CreateCheck, Read, Reload, Refetch, Lookup, Mismatch, Sign, Fail,
           Restart, Tick
<1>2. IInv /\ [AccountsNext]_accountVars => [Stays]_accountVars
  BY <1>1
<1> QED
  BY <1>2, AccountsInvariance, PTL DEF AccountsSpec, RemovedForGood

-----------------------------------------------------------------------------
(* A token is refused for good.                                            *)

\* Whoever logs in or out, a token that JwtAuthGuard refuses stays refused,
\* but for a restart that forgets the revocation of one still valid.
THEOREM RefusalIsFinal == AccountsSpec => RefusedForGood
<1> DEFINE Refused ==
             \A t \in tokens : ~Accepted(t) /\ Accepted(t)' =>
               t \in denied /\ denied' = {} /\ now < t.iat + Life
<1>1. ASSUME IInv, [AccountsNext]_accountVars, NEW t \in tokens,
             ~Accepted(t), Accepted(t)'
      PROVE  t \in denied /\ denied' = {} /\ now < t.iat + Life
  <2>1. t.iat \in Nat /\ now \in Nat /\ Life \in Nat
    BY <1>1, AccountsAssumption DEF IInv, TablesOK
  <2>2. now' \in Nat /\ now' >= now
    <3>1. now' = now \/ now' = now + 1
      BY <1>1
         DEF AccountsNext, accountVars, Begin, Unauthorized, Logout,
             CreateCheck, CreateInsert, Read, Reload, Write, Reinsert, Refetch,
             Delete, Lookup, Mismatch, Sign, Fail, Restart, Tick
    <3> QED
      BY <2>1, <3>1
  <2>3. now < t.iat + Life
    BY <1>1, <2>1, <2>2 DEF Accepted, Expired
  <2>4. t \in denied
    BY <1>1, <2>1, <2>3 DEF Accepted, Expired
  <2>5. denied \subseteq denied' \/ denied' = {}
    BY <1>1
       DEF AccountsNext, accountVars, sessions, Begin, Unauthorized, Logout,
           Denying, CreateCheck, CreateInsert, Read, Reload, Write, Reinsert,
           Refetch, Delete, Lookup, Mismatch, Sign, Fail, Restart, Tick
  <2>6. t \notin denied'
    BY <1>1 DEF Accepted
  <2> QED
    BY <2>3, <2>4, <2>5, <2>6
<1>2. IInv /\ [AccountsNext]_accountVars => [Refused]_accountVars
  BY <1>1
<1> QED
  BY <1>2, AccountsInvariance, PTL DEF AccountsSpec, RefusedForGood

-----------------------------------------------------------------------------
(* What a handler does with what it holds.                                 *)

Moves(c) ==
  \/ Begin(c) \/ Unauthorized(c) \/ Logout(c)
  \/ CreateCheck(c) \/ CreateInsert(c)
  \/ Read(c) \/ Reload(c) \/ Write(c) \/ Reinsert(c) \/ Refetch(c)
  \/ Delete(c)
  \/ Lookup(c) \/ Mismatch(c) \/ Sign(c)
  \/ Fail(c)

LEMMA OthersStay ==
  ASSUME IInv, NEW c \in Clients, NEW d \in Clients, d # c, Moves(c)
  PROVE  client'[d].pc = client[d].pc
<1>1. ASSUME NEW request, Becomes(c, request)
      PROVE  client'[d].pc = client[d].pc
  BY <1>1 DEF Becomes, IInv, ClientsOK
<1>2. ASSUME NEW u, NEW request, Overtaking(c, u, request)
      PROVE  client'[d].pc = client[d].pc
  <2>1. \E seen : client'[d] = [client[d] EXCEPT !.overtaken = seen]
    BY <1>2 DEF Overtaking
  <2> QED
    BY <2>1 DEF IInv, ClientsOK, ClientOK, RequestFields
<1>3. CASE Begin(c) \/ Unauthorized(c) \/ Logout(c) \/ Refetch(c) \/ Fail(c)
  BY <1>1, <1>3 DEF Begin, Unauthorized, Logout, Refetch, Fail, Answer
<1>4. CASE CreateCheck(c) \/ CreateInsert(c) \/ Reinsert(c)
  BY <1>1, <1>4 DEF CreateCheck, CreateInsert, Reinsert, Answer, Goto
<1>5. CASE Read(c) \/ Reload(c)
  BY <1>1, <1>5 DEF Read, Reload, Answer, Goto, Hold
<1>6. CASE Write(c) \/ Delete(c)
  BY <1>1, <1>2, <1>6 DEF Write, Delete, Goto
<1>7. CASE Lookup(c) \/ Mismatch(c) \/ Sign(c)
  BY <1>1, <1>7 DEF Lookup, Mismatch, Sign, Answer, Hold
<1> QED
  BY <1>3, <1>4, <1>5, <1>6, <1>7 DEF Moves

\* A request that goes on from a step does so by an action of its own.
LEMMA OwnStep ==
  ASSUME IInv, [AccountsNext]_accountVars, NEW c \in Clients,
         client[c].pc \in Steps, client'[c].pc # client[c].pc,
         client'[c].pc # "lost"
  PROVE  Moves(c)
<1>1. client' # client
  OBVIOUS
<1>2. ~Tick /\ AccountsNext
  BY <1>1 DEF Tick, accountVars
<1>3. ~Restart
  <2>1. ASSUME Restart
        PROVE  client'[c].pc = "lost"
    BY <2>1 DEF Restart, Busy, Answered
  <2> QED
    BY <2>1
<1>4. PICK d \in Clients : Moves(d)
  BY <1>2, <1>3 DEF AccountsNext, Moves
<1> QED
  BY <1>4, OthersStay

\* bcrypt runs between the look at the account and the token: a token that
\* login() signs says what the account is, its role included, unless the
\* account was changed or removed in between.
THEOREM TokensSayAccounts == AccountsSpec => TokenSaysAccount
<1> DEFINE Says ==
             \A c \in Clients :
               At(c, "compare") /\ At(c, "ok")' /\ ~client[c].overtaken =>
                 LET u == client[c].account
                 IN  u \in DOMAIN users /\ TokenOf(u, users[u]) \in tokens'
<1>1. ASSUME IInv, [AccountsNext]_accountVars, NEW c \in Clients,
             At(c, "compare"), At(c, "ok")', ~client[c].overtaken
      PROVE  /\ client[c].account \in DOMAIN users
             /\ TokenOf(client[c].account, users[client[c].account]) \in tokens'
  <2>1. Moves(c)
    BY <1>1, OwnStep DEF At, Steps
  <2>2. ~Mismatch(c)
    BY <1>1 DEF Mismatch, Answer, Becomes, Answered, At, IInv, ClientsOK
  <2>3. Sign(c)
    BY <1>1, <2>1, <2>2
       DEF Moves, At, Steps, Busy, Begin, Unauthorized, Logout, CreateCheck,
           CreateInsert, Read, Reload, Write, Reinsert, Refetch, Delete,
           Lookup, Fail
  <2>4. HoldsLogin(c, client[c].account, client[c].entity)
    BY <1>1 DEF At, IInv, ClientsOK, ClientOK
  <2> QED
    BY <1>1, <2>3, <2>4 DEF Sign, Identity, HoldsLogin
<1>2. IInv /\ [AccountsNext]_accountVars => [Says]_accountVars
  BY <1>1
<1> QED
  BY <1>2, AccountsInvariance, PTL DEF AccountsSpec, TokenSaysAccount

\* update() saves the whole account it has read: unless the account was
\* changed in between, only the fields that were named change.
THEOREM UpdatesWriteNamed == AccountsSpec => UpdateWritesNamed
<1> DEFINE Named ==
             \A c \in Clients :
               At(c, "write") /\ At(c, "refetch")' /\ ~client[c].overtaken =>
                 LET u == client[c].account
                 IN  \A f \in DOMAIN AccountType \ DOMAIN client[c].call.patch :
                       users'[u][f] = users[u][f]
<1>1. ASSUME IInv, [AccountsNext]_accountVars, NEW c \in Clients,
             At(c, "write"), At(c, "refetch")', ~client[c].overtaken,
             NEW f \in DOMAIN AccountType \ DOMAIN client[c].call.patch
      PROVE  users'[client[c].account][f] = users[client[c].account][f]
  <2>1. Moves(c)
    BY <1>1, OwnStep DEF At, Steps
  <2>2. ~Fail(c)
    BY <1>1 DEF Fail, Answer, Becomes, Answered, At, IInv, ClientsOK
  <2>3. Write(c)
    BY <1>1, <2>1, <2>2
       DEF Moves, At, Steps, Busy, Begin, Unauthorized, Logout, CreateCheck,
           CreateInsert, Read, Reload, Reinsert, Refetch, Delete, Lookup,
           Mismatch, Sign
  <2>4. client[c].account \in DOMAIN users
    BY <1>1 DEF At, IInv, ClientsOK, ClientOK, HoldsUpdate
  <2>5. users'[client[c].account] =
          Updated(users[client[c].account], client[c].entity, client[c].columns)
    BY <2>3, <2>4 DEF Write
  <2> QED
    BY <1>1, <2>4, <2>5, WriteRow DEF At
<1>2. IInv /\ [AccountsNext]_accountVars => [Named]_accountVars
  BY <1>1
<1> QED
  BY <1>2, AccountsInvariance, PTL DEF AccountsSpec, UpdateWritesNamed
=============================================================================
