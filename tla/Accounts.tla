------------------------------ MODULE Accounts ------------------------------
(***************************************************************************)
(* UsersService and AuthService: accounts, and the tokens that speak for   *)
(* them.  A token is issued from an account as it was looked up, is valid  *)
(* for Life without any further look at the account, and may be revoked in *)
(* the memory of the process only.                                         *)
(*                                                                         *)
(*   create: idle -> check -> insert -> answer                             *)
(*   update: idle -> read -> reload [-> write | reinsert] -> refetch       *)
(*                -> answer                                                *)
(*   remove: idle -> read -> delete -> answer                              *)
(*   login:  idle -> lookup -> compare -> answer                           *)
(*   logout: one step                                                      *)
(*                                                                         *)
(* bcrypt only takes time: hashing belongs to the step before the INSERT,  *)
(* and whether a password matches is left open.  A client makes one call   *)
(* after the other.                                                        *)
(***************************************************************************)
EXTENDS Integers, FiniteSets, TypeOrm

CONSTANTS
  AccountIds,     \* values of the user id sequence, 1..n
  Usernames,
  Emails,
  FullNames,
  Clients,
  AccountCalls,   \* calls they may make
  AccountSeeds,   \* tables `user` the server may start on
  Life,           \* how long a token is valid
  MaxTime         \* bound on the clock

Roles == {"ADMIN", "DEVELOPER"}

\* The columns of an account; the hash of the password is one value.
AccountType ==
  [username |-> Usernames, email |-> Emails, fullName |-> FullNames,
   role |-> Roles, password |-> {"hash"}]

IsAccount(row) ==
  /\ DOMAIN row = DOMAIN AccountType
  /\ \A c \in DOMAIN AccountType : row[c] \in AccountType[c]

IsAccountCall(c) ==
  \/ c.op = "create" /\ IsAccount(c.row)
  \/ /\ c.op = "update"
     /\ c.id \in AccountIds
     /\ DOMAIN c.patch \subseteq {"fullName", "role"}
     /\ \A f \in DOMAIN c.patch : c.patch[f] \in AccountType[f]
  \/ c.op = "remove" /\ c.id \in AccountIds
  \/ c.op = "login" /\ c.username \in Usernames
  \/ c.op = "logout"

\* The table before the server starts; ids were given out in order.
IsTable(table) ==
  /\ \E n \in AccountIds \cup {0} : DOMAIN table = 1..n
  /\ \A u \in DOMAIN table : IsAccount(table[u])
  /\ \A u, v \in DOMAIN table :
       table[u].username = table[v].username \/ table[u].email = table[v].email
         => u = v

ASSUME AccountsAssumption ==
  /\ AccountIds \subseteq Nat \ {0}
  /\ Life \in Nat \ {0}
  /\ MaxTime \in Nat
  /\ \A c \in AccountCalls : IsAccountCall(c)
  /\ \A table \in AccountSeeds : IsTable(table)

VARIABLES
  users,   \* the table `user`: id |-> row
  lastId,  \* the last id given out
  tokens,  \* every token issued so far
  denied,  \* tokenBlacklist
  now,     \* the clock
  client   \* client |-> its request

store == <<users, lastId>>
sessions == <<tokens, denied>>
accountVars == <<store, sessions, now, client>>

NoAccount == 0

\* pc: where the request is, or the answer it got; account, entity, columns:
\* the account it has read, in memory, and what save() found to differ.
\* overtaken, whether the account changed since, is for the properties.
Answered(code) ==
  [pc |-> code, call |-> [op |-> "none"], account |-> NoAccount,
   entity |-> << >>, columns |-> {}, overtaken |-> FALSE]

AccountsInit ==
  /\ users \in AccountSeeds
  /\ lastId = Cardinality(DOMAIN users)
  /\ tokens = {}
  /\ denied = {}
  /\ now = 0
  /\ client = [c \in Clients |-> Answered("idle")]

Steps ==
  {"check", "insert", "read", "reload", "write", "reinsert", "refetch",
   "delete", "lookup", "compare"}
At(c, step) == client[c].pc = step
Busy == {c \in Clients : client[c].pc \in Steps}

-----------------------------------------------------------------------------
(* Tokens.                                                                 *)

\* Fault: the whole user is spread into the payload.
TokenOf_whole(id, user) ==
  [sub |-> id, username |-> user.username, role |-> user.role, iat |-> now,
   password |-> user.password]

\* The payload names the account and its role; jsonwebtoken adds the second.
TokenOf(id, user) ==
  [sub |-> id, username |-> user.username, role |-> user.role, iat |-> now]

Expired(t) == now >= t.iat + Life

\* JwtAuthGuard: the deny-list, then the signature and the date.
Accepted(t) == t \notin denied /\ ~Expired(t)

\* Fault: the list holds one token.
Denying_last(t) == {t}

Denying(t) == denied \cup {t}

-----------------------------------------------------------------------------
Becomes(c, request) == client' = [client EXCEPT ![c] = request]
Goto(c, step) == Becomes(c, [client[c] EXCEPT !.pc = step])
Answer(c, code) == Becomes(c, Answered(code))

\* The handler has read account u.
Hold(c, step, u, row) ==
  Becomes(c, [client[c] EXCEPT !.pc = step, !.account = u, !.entity = row])

\* The requests that have read account u, which client c now changes.
Overtaking(c, u, request) ==
  client' = [d \in Clients |->
               IF d = c THEN request
               ELSE [client[d] EXCEPT !.overtaken = @ \/ client[d].account = u]]

First == [create |-> "check", update |-> "read", remove |-> "read",
          login |-> "lookup"]

\* create and login are open to anyone; the other calls carry a token.
Begin(c) ==
  /\ c \notin Busy
  /\ \E call \in AccountCalls :
       /\ call.op # "logout"
       /\ call.op \in {"update", "remove"} => \E t \in tokens : Accepted(t)
       /\ Becomes(c, [Answered(First[call.op]) EXCEPT !.call = call])
  /\ UNCHANGED <<store, sessions, now>>

\* The guard turns away a call without a token that it accepts.
Unauthorized(c) ==
  /\ c \notin Busy
  /\ Answer(c, "401")
  /\ UNCHANGED <<store, sessions, now>>

\* The guard and the controller run without an await.
Logout(c) ==
  /\ c \notin Busy
  /\ [op |-> "logout"] \in AccountCalls
  /\ \E t \in tokens : Accepted(t) /\ denied' = Denying(t)
  /\ Answer(c, "ok")
  /\ UNCHANGED <<store, tokens, now>>

Taken(row) ==
  \E u \in DOMAIN users :
    users[u].username = row.username \/ users[u].email = row.email

\* create(): the answer that a person can read.
CreateCheck(c) ==
  /\ At(c, "check")
  /\ \/ Taken(client[c].call.row) /\ Answer(c, "400")
     \/ ~Taken(client[c].call.row) /\ Goto(c, "insert")
  /\ UNCHANGED <<store, sessions, now>>

\* Fault: the columns are not declared unique.
Duplicate_unchecked(row) == FALSE

\* The unique keys.
Duplicate(row) == Taken(row)

\* Fault: ids count the accounts there are.
NextId_count == Cardinality(DOMAIN users) + 1

\* nextval(), also when the INSERT then fails.
NextId == lastId + 1

With(u, row) ==
  [v \in DOMAIN users \cup {u} |-> IF v = u THEN row ELSE users[v]]

CreateInsert(c) ==
  /\ At(c, "insert")
  /\ NextId \in AccountIds
  /\ lastId' = NextId
  /\ LET row == client[c].call.row
     IN  \/ Duplicate(row) /\ Answer(c, "500") /\ UNCHANGED users
         \/ ~Duplicate(row) /\ Answer(c, "ok") /\ users' = With(NextId, row)
  /\ UNCHANGED <<sessions, now>>

-----------------------------------------------------------------------------
\* Fault: the password is loaded like any other column.
LoadedColumns_all == DOMAIN AccountType

\* The password is declared { select: false }.
LoadedColumns == DOMAIN AccountType \ {"password"}

Loaded(u) == [f \in LoadedColumns |-> users[u][f]]

\* Fault: a role that is not named becomes the default.
Amended_default(row, patch) ==
  [f \in DOMAIN row |-> IF f \in DOMAIN patch THEN patch[f]
                        ELSE IF f = "role" THEN "DEVELOPER" ELSE row[f]]

Amended(row, patch) ==
  [f \in DOMAIN row |-> IF f \in DOMAIN patch THEN patch[f] ELSE row[f]]

Read(c) ==
  /\ At(c, "read")
  /\ LET call == client[c].call
         found == call.id \in DOMAIN users
     IN  \/ ~found /\ Answer(c, "404")
         \/ /\ found /\ call.op = "update"
            /\ Hold(c, "reload", call.id, Amended(Loaded(call.id), call.patch))
         \/ /\ found /\ call.op = "remove"
            /\ Hold(c, "delete", call.id, << >>)
  /\ UNCHANGED <<store, sessions, now>>

\* save(), first round trip: an account that is gone is to be inserted.
Reload(c) ==
  /\ At(c, "reload")
  /\ LET u == client[c].account
         differ == Changed(client[c].entity, Loaded(u))
     IN  \/ u \notin DOMAIN users /\ Goto(c, "reinsert")
         \/ u \in DOMAIN users /\ differ = {} /\ Goto(c, "refetch")
         \/ /\ u \in DOMAIN users /\ differ # {}
            /\ Becomes(c, [client[c] EXCEPT !.pc = "write", !.columns = differ])
  /\ UNCHANGED <<store, sessions, now>>

\* Second round trip: an UPDATE of an account that is gone changes nothing.
Write(c) ==
  /\ At(c, "write")
  /\ LET u == client[c].account
     IN  \/ u \notin DOMAIN users /\ UNCHANGED users /\ Goto(c, "refetch")
         \/ /\ u \in DOMAIN users
            /\ users' =
                 [users EXCEPT
                    ![u] = Updated(@, client[c].entity, client[c].columns)]
            /\ Overtaking(c, u, [client[c] EXCEPT !.pc = "refetch"])
  /\ UNCHANGED <<lastId, sessions, now>>

\* The INSERT of an entity without a password breaks its NOT NULL.
Reinsert(c) ==
  /\ At(c, "reinsert")
  /\ LET u == client[c].account
         row == client[c].entity
         allowed == /\ IsAccount(row)
                    /\ u \notin DOMAIN users /\ ~Duplicate(row)
     IN  \/ allowed /\ users' = With(u, row) /\ Goto(c, "refetch")
         \/ ~allowed /\ Answer(c, "500") /\ UNCHANGED users
  /\ UNCHANGED <<lastId, sessions, now>>

\* findOne(): the account may be gone although it was saved.
Refetch(c) ==
  /\ At(c, "refetch")
  /\ Answer(c, IF client[c].account \in DOMAIN users THEN "ok" ELSE "404")
  /\ UNCHANGED <<store, sessions, now>>

\* remove(): DELETE by id; that the account is already gone is no error.
Delete(c) ==
  /\ At(c, "delete")
  /\ users' = [u \in DOMAIN users \ {client[c].account} |-> users[u]]
  /\ Overtaking(c, client[c].account, Answered("ok"))
  /\ UNCHANGED <<lastId, sessions, now>>

-----------------------------------------------------------------------------
(* login: validateUser() reads the account, bcrypt compares, login() signs *)
(* what was read.                                                          *)

Lookup(c) ==
  /\ At(c, "lookup")
  /\ LET found == {u \in DOMAIN users :
                     users[u].username = client[c].call.username}
     IN  \/ found = {} /\ Answer(c, "401")
         \/ \E u \in found : Hold(c, "compare", u, users[u])
  /\ UNCHANGED <<store, sessions, now>>

Mismatch(c) ==
  /\ At(c, "compare")
  /\ Answer(c, "401")
  /\ UNCHANGED <<store, sessions, now>>

\* Fault: the role is left to its default.
Identity_default(user) == [user EXCEPT !.role = "DEVELOPER"]

Identity(user) == user

\* Within one second, the same account gets the same token again.
Sign(c) ==
  /\ At(c, "compare")
  /\ tokens' = tokens \cup
                 {TokenOf(client[c].account, Identity(client[c].entity))}
  /\ Answer(c, "ok")
  /\ UNCHANGED <<store, denied, now>>

\* A round trip fails.
Fail(c) ==
  /\ client[c].pc \in Steps \ {"compare"}
  /\ Answer(c, "500")
  /\ UNCHANGED <<store, sessions, now>>

\* The process dies and starts again: its deny-list is empty.
Restart ==
  /\ Busy # {} \/ denied # {}
  /\ denied' = {}
  /\ client' = [c \in Clients |->
                  IF c \in Busy THEN Answered("lost") ELSE client[c]]
  /\ UNCHANGED <<store, tokens, now>>

Tick ==
  /\ now < MaxTime
  /\ now' = now + 1
  /\ UNCHANGED <<store, sessions, client>>

AccountsNext ==
  \/ \E c \in Clients :
       \/ Begin(c) \/ Unauthorized(c) \/ Logout(c)
       \/ CreateCheck(c) \/ CreateInsert(c)
       \/ Read(c) \/ Reload(c) \/ Write(c) \/ Reinsert(c) \/ Refetch(c)
       \/ Delete(c)
       \/ Lookup(c) \/ Mismatch(c) \/ Sign(c)
       \/ Fail(c)
  \/ Restart
  \/ Tick

AccountsSpec == AccountsInit /\ [][AccountsNext]_accountVars

-----------------------------------------------------------------------------
(* Properties.                                                             *)

\* Types of all variables.
AccountsTypeOK ==
  /\ lastId \in AccountIds \cup {0}
  /\ DOMAIN users \subseteq 1..lastId
  /\ \A u \in DOMAIN users : IsAccount(users[u])
  /\ tokens \subseteq [sub : 1..lastId, username : Usernames, role : Roles,
                       iat : 0..now]
  /\ denied \subseteq tokens
  /\ now \in 0..MaxTime
  /\ \A c \in Clients :
       /\ client[c].account \in (1..lastId) \cup {NoAccount}
       /\ client[c].pc \in {"reload", "write", "reinsert", "compare"} =>
            LoadedColumns \subseteq DOMAIN client[c].entity

\* Whatever registrations race past the check of create(), no two accounts
\* share a username or an email: @mentions and logins name one account.
AccountsDistinct ==
  \A u, v \in DOMAIN users :
    users[u].username = users[v].username \/ users[u].email = users[v].email
      => u = v

\* "Completely purges a user": an id that was given out and is free stays
\* free, although an update that has read the account may save it after the
\* removal, and save() inserts what it does not find.
RemovedForGood ==
  [][\A u \in 1..lastId :
       u \notin DOMAIN users => u \notin DOMAIN users']_accountVars

\* Handlers trust the id and the name in a token without a look at the
\* account: through removals, registrations under the same name, and logins
\* that overlap them, both still mean the same account.
TokenNamesItsUser ==
  \A t \in tokens :
    t.sub \in DOMAIN users => users[t.sub].username = t.username

\* "Invalidates the current token": a token that is refused is refused from
\* then on, whoever logs in or out; only a restart forgets a revocation, and
\* only of a token that has not expired.
RefusedForGood ==
  [][\A t \in tokens : ~Accepted(t) /\ Accepted(t)' =>
       t \in denied /\ denied' = {} /\ now < t.iat + Life]_accountVars

\* login() signs the account as it was before bcrypt ran: unless the account
\* was changed or removed in the meantime, the token says what the account
\* is, its role included.
TokenSaysAccount ==
  [][\A c \in Clients :
       At(c, "compare") /\ At(c, "ok")' /\ ~client[c].overtaken =>
         LET u == client[c].account
         IN  u \in DOMAIN users /\ TokenOf(u, users[u]) \in tokens']_accountVars

\* update() saves the whole account it has read: unless the account was
\* changed in the meantime, what it writes are the fields that were named.
UpdateWritesNamed ==
  [][\A c \in Clients :
       At(c, "write") /\ At(c, "refetch")' /\ ~client[c].overtaken =>
         LET u == client[c].account
         IN  \A f \in DOMAIN AccountType \ DOMAIN client[c].call.patch :
               users'[u][f] = users[u][f]]_accountVars
=============================================================================
