----------------------------- MODULE MCAccounts -----------------------------
(* A small instance of Accounts for TLC. *)
EXTENDS Accounts, TLC

CONSTANTS c1, c2

Symmetric == Permutations(Clients)

Account(username, email, role) ==
  [username |-> username, email |-> email, fullName |-> "a", role |-> role,
   password |-> "hash"]

MCSeeds == {<<Account("ann", "ann@x", "ADMIN")>>}

\* A second account with the name of the first, one with the email of the
\* second, changes and the removal of the first, and its sessions.
MCCalls ==
  {[op |-> "create", row |-> Account("ann", "bob@x", "DEVELOPER")],
   [op |-> "create", row |-> Account("bob", "bob@x", "DEVELOPER")],
   [op |-> "update", id |-> 1, patch |-> [fullName |-> "b"]],
   [op |-> "update", id |-> 1, patch |-> [role |-> "DEVELOPER"]],
   [op |-> "remove", id |-> 1],
   [op |-> "login", username |-> "ann"], [op |-> "logout"]}
=============================================================================
