-------------------------- MODULE TicketLifecycle --------------------------
(***************************************************************************)
(* What the ticket workflow promises, without requests, entities or        *)
(* versions: tickets are opened, move forward one status at a time, are    *)
(* closed only when every blocker is DONE, and stay as they are from then  *)
(* on, except that a deleted one may be restored.                          *)
(***************************************************************************)
EXTENDS Integers

CONSTANT Ids

VARIABLES status,   \* id |-> status of the tickets opened so far
          deleted,  \* soft-deleted tickets
          edges     \* <<ticket, blocker>>

lifecycle == <<status, deleted, edges>>

Flow == [TODO |-> "IN_PROGRESS", IN_PROGRESS |-> "IN_REVIEW",
         IN_REVIEW |-> "DONE"]

Opened == DOMAIN status

Init ==
  /\ Opened \subseteq Ids
  /\ \A t \in Opened : status[t] \in DOMAIN Flow \cup {"DONE"}
  /\ deleted \subseteq Opened
  /\ edges \subseteq Opened \X Opened

Open(t) ==
  /\ t \notin Opened
  /\ Opened' = Opened \cup {t}
  /\ status'[t] \in DOMAIN Flow \cup {"DONE"}
  /\ \A u \in Opened : status'[u] = status[u]
  /\ UNCHANGED <<deleted, edges>>

Advance(t) ==
  /\ t \in Opened \ deleted
  /\ status[t] \in DOMAIN Flow
  /\ Flow[status[t]] = "DONE" =>
       \A b \in Opened : <<t, b>> \in edges => status[b] = "DONE"
  /\ status' = [status EXCEPT ![t] = Flow[@]]
  /\ UNCHANGED <<deleted, edges>>

Delete(t) ==
  /\ t \in Opened \ deleted
  /\ status[t] # "DONE"
  /\ deleted' = deleted \cup {t}
  /\ UNCHANGED <<status, edges>>

Restore(t) ==
  /\ t \in deleted
  /\ deleted' = deleted \ {t}
  /\ UNCHANGED <<status, edges>>

Block(t, b) ==
  /\ t \in Opened \ deleted
  /\ b \in Opened
  /\ edges' = edges \cup {<<t, b>>}
  /\ UNCHANGED <<status, deleted>>

Unblock(t, b) ==
  /\ t \in Opened \ deleted
  /\ edges' = edges \ {<<t, b>>}
  /\ UNCHANGED <<status, deleted>>

Next ==
  \E t \in Ids :
    \/ Open(t) \/ Advance(t) \/ Delete(t) \/ Restore(t)
    \/ \E b \in Ids : Block(t, b) \/ Unblock(t, b)

Spec == Init /\ [][Next]_lifecycle
=============================================================================
