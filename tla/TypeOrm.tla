------------------------------ MODULE TypeOrm ------------------------------
(***************************************************************************)
(* What `repository.save(entity)` of TypeORM 0.3 does to one row, as far   *)
(* as the services under src/ depend on it.  TypeORM is not part of the    *)
(* repository: this module is external to it.                              *)
(*                                                                         *)
(* save() of an entity that has an id runs two database round trips:       *)
(*                                                                         *)
(*   1. it reads the row again and compares every column of the entity     *)
(*      with it (Changed), and every loaded many-to-many relation with     *)
(*      the join table (JoinInserts, JoinDeletes);                         *)
(*   2. it writes, in one transaction, the columns and the join rows that  *)
(*      differed (Updated).  The UPDATE has no condition on the version.   *)
(*                                                                         *)
(* A column the service never assigned still differs when another request  *)
(* changed it after the service read the row: the stale value is written   *)
(* back.  The version column is compared like any other; it is             *)
(* incremented only when it did not differ itself.                         *)
(*                                                                         *)
(* A row and its join rows are read by two queries that are taken as one,  *)
(* and the columns created_at and updated_at are left out: save() writes   *)
(* them, and nothing in the services reads them back.                      *)
(***************************************************************************)
EXTENDS Integers

\* Columns in which the in-memory entity differs from the row.
Changed(entity, row) == {c \in DOMAIN row : entity[c] # row[c]}

\* The row after UPDATE ... SET <columns of the entity> WHERE id = ...
Updated(row, entity, columns) ==
  [c \in DOMAIN row |->
     IF c \in columns THEN entity[c]
     ELSE IF c = "version" /\ columns # {} THEN row[c] + 1
     ELSE row[c]]

\* Join rows save() inserts and deletes, by the id of the other side.
JoinInserts(loaded, stored) == loaded \ stored
JoinDeletes(loaded, stored) == stored \ loaded
=============================================================================
