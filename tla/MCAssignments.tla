---------------------------- MODULE MCAssignments ----------------------------
(* Small instances of Assignments for TLC. *)
EXTENDS Assignments, MCTickets
=============================================================================
