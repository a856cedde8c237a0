--------------------------- MODULE UploadsProofs ---------------------------
(***************************************************************************)
(* Theorems about Uploads: the two services that take files, next to the   *)
(* requests on tickets of TicketsProofs.                                   *)
(*                                                                         *)
(* JobsInv counts the rows of an import: those it has saved, those that    *)
(* failed, and the one that may still be on its way to the database.       *)
(* UploadInv says what a request on an attachment still knows of it.       *)
(***************************************************************************)
EXTENDS Uploads, TicketsProofs, FiniteSetTheorems

JobFields ==
  {"file", "read", "paused", "saving", "created", "failed", "answer",
   "summary", "saved"}

\* The rows an import has been handed: only the last one can still be on its
\* way to the database, and no other is ever saved later.
RowsOK(j) ==
  /\ j.file \in Files
  /\ j.read \in 0..Len(j.file.rows)
  /\ j.saving \subseteq {j.read} \ {0}
  /\ DOMAIN j.saved \subseteq (1..j.read) \ j.saving
  /\ \A n \in j.saving : IsValid(j.file.rows[n])

\* While the parser runs, the counters tell of all rows but the one that is
\* being saved, and the parser is paused for that one.
Counts(j) ==
  /\ j.paused <=> j.saving # {}
  /\ j.created = Cardinality(DOMAIN j.saved)
  /\ j.failed = Cardinality(((1..j.read) \ j.saving) \ DOMAIN j.saved)

\* The summary stays true of the rows it counts.
Told(j) ==
  LET rows == Len(j.file.rows)
  IN  \E counted \in {1..rows, 1..(rows - 1)} :
        /\ counted \cap j.saving = {}
        /\ j.summary.created = Cardinality(DOMAIN j.saved \cap counted)
        /\ j.summary.failed = Cardinality(counted \ DOMAIN j.saved)

JobOK(j) ==
  /\ DOMAIN j = JobFields
  /\ j.answer \in {"idle", "none", "ok", "500", "lost"}
  /\ j.answer = "idle" => j.saved = << >> /\ j.saving = {}
  /\ j.answer # "idle" =>
       /\ RowsOK(j)
       /\ j.answer = "none" => Counts(j) /\ ~Refused(j)
       /\ j.answer = "ok" => Told(j)
       /\ j.answer = "500" => j.read <= 1

\* A row was saved under an id below all that are still to be given out.
SavedOK(j) ==
  /\ \A n \in DOMAIN j.saved :
       /\ j.saved[n] \in DOMAIN tickets
       /\ \A id \in TicketIds \ DOMAIN tickets : j.saved[n] < id
  /\ \A m, n \in DOMAIN j.saved : m < n => j.saved[m] < j.saved[n]

JobsInv ==
  /\ DOMAIN job = Imports
  /\ \A i \in Imports : JobOK(job[i]) /\ SavedOK(job[i])

-----------------------------------------------------------------------------
(* One import.                                                             *)

LEMMA RowsFacts ==
  ASSUME NEW f \in Files
  PROVE  /\ Len(f.rows) \in Nat
         /\ \A n \in 1..Len(f.rows) : DOMAIN f.rows[n] = RowFields
         /\ f.projectId \in Projects
         /\ f.rows = << >> <=> Len(f.rows) = 0
<1>1. f.rows \in Seq({f.rows[n] : n \in DOMAIN f.rows})
  BY ImportsAssumption
<1>2. Len(f.rows) \in Nat /\ DOMAIN f.rows = 1..Len(f.rows)
  BY <1>1
<1>3. f.rows = << >> <=> Len(f.rows) = 0
  BY <1>1
<1> QED
  BY <1>2, <1>3, ImportsAssumption

LEMMA SettledIsJob ==
  ASSUME NEW j, DOMAIN j = JobFields, j.answer = "none", RowsOK(j), Counts(j),
         Refused(j) => j.read <= 1
  PROVE  /\ JobOK(Settled(j))
         /\ Settled(j).saved = j.saved
         /\ Settled(j).answer # "idle"
<1> DEFINE rows == Len(j.file.rows)
<1>0. rows \in Nat /\ j.read \in Nat
  BY RowsFacts DEF RowsOK
<1>1. CASE Refused(j)
  <2> DEFINE k == [j EXCEPT !.answer = "500"]
  <2>1. /\ Settled(j) = k /\ DOMAIN k = JobFields /\ k.answer = "500"
        /\ \A f \in JobFields \ {"answer"} : k[f] = j[f]
    BY <1>1 DEF Settled, JobFields
  <2> HIDE DEF k
  <2>2. RowsOK(k) /\ k.read <= 1 /\ k.saved = j.saved
    BY <2>1, <1>1 DEF RowsOK, JobFields
  <2> QED
    BY <2>1, <2>2 DEF JobOK
<1>2. CASE ~Refused(j) /\ Ended(j)
  <2> DEFINE k == [j EXCEPT !.answer = "ok",
                     !.summary = [created |-> j.created, failed |-> j.failed]]
  <2>1. /\ Settled(j) = k /\ DOMAIN k = JobFields /\ k.answer = "ok"
        /\ \A f \in JobFields \ {"answer", "summary"} : k[f] = j[f]
        /\ k.summary.created = j.created /\ k.summary.failed = j.failed
    BY <1>2 DEF Settled, JobFields
  <2> HIDE DEF k
  <2>2. RowsOK(k) /\ k.saved = j.saved
    BY <2>1 DEF RowsOK, JobFields
  <2>3. j.read = rows
    BY <1>2 DEF Ended
  <2>4. PICK counted \in {1..rows, 1..(rows - 1)} :
          counted = (1..j.read) \ j.saving
    <3>1. CASE j.saving = {}
      BY <2>3, <3>1
    <3>2. CASE j.saving = {rows} /\ rows # 0
      BY <2>3, <3>2, <1>0
    <3> QED
      BY <3>1, <3>2, <2>3 DEF RowsOK
  <2>5. Told(k)
    <3>1. DOMAIN k.saved \cap counted = DOMAIN j.saved
      BY <2>2, <2>4 DEF RowsOK
    <3>2. counted \ DOMAIN k.saved = ((1..j.read) \ j.saving) \ DOMAIN j.saved
      BY <2>2, <2>4
    <3>3. counted \cap k.saving = {}
      BY <2>1, <2>4 DEF JobFields
    <3>4. k.file = j.file
      BY <2>1 DEF JobFields
    <3> QED
      BY <2>1, <3>1, <3>2, <3>3, <3>4 DEF Told, Counts
  <2> QED
    BY <2>1, <2>2, <2>5 DEF JobOK
<1>3. CASE ~Refused(j) /\ ~Ended(j)
  BY <1>3 DEF Settled, JobOK
<1> QED
  BY <1>1, <1>2, <1>3

LEMMA OpenedIsJob ==
  ASSUME NEW f \in Files
  PROVE  /\ JobOK(Settled(Opened(f)))
         /\ Settled(Opened(f)).saved = << >>
<1> DEFINE j == Opened(f)
<1>1. /\ DOMAIN j = JobFields /\ j.answer = "none" /\ j.read = 0
      /\ j.file = f /\ j.saving = {} /\ j.saved = << >> /\ j.paused = FALSE
      /\ j.created = 0 /\ j.failed = 0
  BY DEF Opened, JobFields
<1> HIDE DEF j
<1>2. RowsOK(j)
  BY <1>1, RowsFacts DEF RowsOK
<1>3. Counts(j)
  <2>1. DOMAIN j.saved = {} /\ ((1..j.read) \ j.saving) \ DOMAIN j.saved = {}
    BY <1>1
  <2> QED
    BY <1>1, <2>1, FS_EmptySet DEF Counts
<1>4. Refused(j) => j.read <= 1
  BY <1>1
<1>5. JobOK(Settled(j)) /\ Settled(j).saved = << >>
  BY <1>1, <1>2, <1>3, <1>4, SettledIsJob
<1> QED
  BY <1>5 DEF j

LEMMA IntervalFinite ==
  ASSUME NEW n \in Nat, NEW S, S \subseteq 1..n
  PROVE  IsFiniteSet(S) /\ Cardinality(S) \in Nat
<1>1. IsFiniteSet(1..n)
  BY FS_Interval
<1>2. IsFiniteSet(S)
  BY <1>1, FS_Subset
<1> QED
  BY <1>2, FS_CardinalityType

\* The next row is handed over, to be saved or not.
LEMMA RowIsJob ==
  ASSUME NEW j, JobOK(j), j.answer = "none", Flowing(j),
         j.read + 1 <= Len(j.file.rows),
         NEW k, DOMAIN k = JobFields,
         k.read = j.read + 1,
         \A f \in JobFields \ {"read", "paused", "saving", "failed"} : k[f] = j[f],
         \/ /\ k.paused /\ k.saving = {k.read} /\ k.failed = j.failed
            /\ IsValid(j.file.rows[k.read])
         \/ k.paused = j.paused /\ k.saving = j.saving /\ k.failed = j.failed + 1
  PROVE  JobOK(Settled(k)) /\ Settled(k).saved = j.saved
<1>0. RowsOK(j) /\ Counts(j) /\ ~Refused(j)
  BY DEF JobOK
<1>1. /\ j.file \in Files /\ j.read \in Nat /\ Len(j.file.rows) \in Nat
      /\ j.saving = {} /\ DOMAIN j.saved \subseteq 1..j.read
      /\ Counts(j) /\ ~Refused(j)
  BY <1>0, RowsFacts DEF RowsOK, Counts, Flowing
<1>2. /\ k.answer = "none" /\ k.file = j.file /\ k.saved = j.saved
      /\ k.created = j.created
  BY DEF JobFields
<1>3. RowsOK(k)
  BY <1>1, <1>2 DEF RowsOK
<1>4. Counts(k)
  <2>1. CASE k.paused /\ k.saving = {k.read} /\ k.failed = j.failed
    <3>1. (1..k.read) \ k.saving = (1..j.read) \ j.saving
      BY <1>1, <2>1
    <3> QED
      BY <1>1, <1>2, <2>1, <3>1 DEF Counts
  <2>2. CASE k.paused = j.paused /\ k.saving = j.saving /\ k.failed = j.failed + 1
    <3> DEFINE before == ((1..j.read) \ j.saving) \ DOMAIN j.saved
               after == ((1..k.read) \ k.saving) \ DOMAIN k.saved
    <3>1. after = before \cup {k.read} /\ k.read \notin before
      BY <1>1, <1>2, <2>2
    <3>2. IsFiniteSet(before)
      BY <1>1, IntervalFinite
    <3> HIDE DEF before, after
    <3>3. Cardinality(after) = Cardinality(before) + 1
      BY <3>1, <3>2, FS_AddElement
    <3> QED
      BY <1>1, <1>2, <2>2, <3>3 DEF Counts, before, after
  <2> QED
    BY <2>1, <2>2
<1>5. Refused(k) => k.read <= 1
  BY <1>1, <1>2 DEF Refused
<1> QED
  BY <1>2, <1>3, <1>4, <1>5, SettledIsJob

\* The save of a row ends, and the row is a ticket now or not.
LEMMA SavedIsJob ==
  ASSUME NEW j, JobOK(j), NEW n \in j.saving,
         NEW k, DOMAIN k = JobFields,
         \A f \in {"file", "read", "answer", "summary"} : k[f] = j[f],
         k.saving = j.saving \ {n}, ~k.paused,
         \/ /\ DOMAIN k.saved = DOMAIN j.saved \cup {n}
            /\ k.created = j.created + 1 /\ k.failed = j.failed
         \/ k.saved = j.saved /\ k.created = j.created /\ k.failed = j.failed + 1
  PROVE  JobOK(Settled(k)) /\ Settled(k).saved = k.saved
<1>1. j.answer # "idle" /\ RowsOK(j)
  BY DEF JobOK
<1>2. /\ j.read \in Nat /\ n = j.read /\ n \in 1..j.read
      /\ j.saving = {n} /\ k.saving = {}
      /\ n \notin DOMAIN j.saved
      /\ DOMAIN j.saved \subseteq 1..j.read
      /\ k.read = j.read /\ k.answer = j.answer /\ k.file = j.file
      /\ k.summary = j.summary
      /\ j.file \in Files /\ Len(j.file.rows) \in Nat
  BY <1>1, RowsFacts DEF RowsOK
<1>3. RowsOK(k)
  BY <1>1, <1>2 DEF RowsOK
<1>4. CASE j.answer = "none"
  <2>1. Counts(j) /\ ~Refused(j)
    BY <1>4 DEF JobOK
  <2> DEFINE before == ((1..j.read) \ j.saving) \ DOMAIN j.saved
             after == ((1..k.read) \ k.saving) \ DOMAIN k.saved
  <2>2. IsFiniteSet(before) /\ IsFiniteSet(DOMAIN j.saved)
    BY <1>2, IntervalFinite
  <2>3. Counts(k)
    <3>1. CASE /\ DOMAIN k.saved = DOMAIN j.saved \cup {n}
               /\ k.created = j.created + 1 /\ k.failed = j.failed
      <4>1. after = before
        BY <1>2, <3>1
      <4> DEFINE S == DOMAIN j.saved
      <4>2. DOMAIN k.saved = S \cup {n} /\ n \notin S /\ IsFiniteSet(S)
        BY <1>2, <2>2, <3>1
      <4> HIDE DEF S
      <4>3. Cardinality(DOMAIN k.saved) = Cardinality(S) + 1
        BY <4>2, FS_AddElement
      <4> QED
        BY <1>2, <2>1, <3>1, <4>1, <4>3 DEF Counts, S
    <3>2. CASE /\ k.saved = j.saved
               /\ k.created = j.created /\ k.failed = j.failed + 1
      <4>1. after = before \cup {n} /\ n \notin before
        BY <1>2, <3>2
      <4> HIDE DEF before, after
      <4>2. Cardinality(after) = Cardinality(before) + 1
        BY <2>2, <4>1, FS_AddElement
      <4> QED
        BY <1>2, <2>1, <3>2, <4>2 DEF Counts, before, after
    <3> QED
      BY <3>1, <3>2
  <2>4. ~Refused(k)
    BY <1>2, <2>1 DEF Refused
  <2> QED
    BY <1>2, <1>3, <1>4, <2>3, <2>4, SettledIsJob
<1>5. CASE j.answer # "none"
  <2>1. Settled(k) = k
    BY <1>2, <1>5 DEF Settled
  <2>2. j.answer = "ok" => Told(k)
    <3> SUFFICES ASSUME j.answer = "ok" PROVE Told(k)
      OBVIOUS
    <3> DEFINE rows == Len(j.file.rows)
    <3>1. PICK counted \in {1..rows, 1..(rows - 1)} :
            /\ counted \cap j.saving = {}
            /\ j.summary.created = Cardinality(DOMAIN j.saved \cap counted)
            /\ j.summary.failed = Cardinality(counted \ DOMAIN j.saved)
      BY <1>1 DEF JobOK, Told
    <3>2. n \notin counted
      BY <3>1
    <3>3. /\ DOMAIN k.saved \cap counted = DOMAIN j.saved \cap counted
          /\ counted \ DOMAIN k.saved = counted \ DOMAIN j.saved
      BY <3>2
    <3> QED
      BY <1>2, <3>1, <3>3 DEF Told
  <2>3. j.answer = "500" => k.read <= 1
    BY <1>1, <1>2 DEF JobOK
  <2> QED
    BY <1>1, <1>2, <1>3, <1>5, <2>1, <2>2, <2>3 DEF JobOK
<1> QED
  BY <1>4, <1>5

-----------------------------------------------------------------------------
(* All imports, and the tickets.                                           *)

Grows == DOMAIN tickets \subseteq DOMAIN tickets'

LEMMA NextGrows == IInv /\ [Next]_vars => Grows
BY NextKeepsProjects DEF ProjectsKept, Grows

\* Jobs that only the tickets around them change.
LEMMA JobsKept ==
  ASSUME JobsInv, Grows, job' = job
  PROVE  JobsInv'
BY DEF JobsInv, SavedOK, Grows

\* One job changes, and it has saved nothing new.
LEMMA OneJobChanges ==
  ASSUME JobsInv, Grows, NEW i \in Imports, NEW k,
         job' = [job EXCEPT ![i] = k], JobOK(k),
         k.saved = job[i].saved \/ k.saved = << >>
  PROVE  JobsInv'
<1>1. DOMAIN job' = Imports /\ \A q \in Imports : JobOK(job'[q])
  BY DEF JobsInv
<1>2. ASSUME NEW q \in Imports PROVE SavedOK(job[q])'
  <2>1. job'[q].saved = job[q].saved \/ job'[q].saved = << >>
    BY DEF JobsInv
  <2>2. SavedOK(job[q])
    BY DEF JobsInv
  <2>3. CASE job'[q].saved = job[q].saved
    BY <2>2, <2>3 DEF SavedOK, Grows
  <2>4. CASE job'[q].saved = << >>
    BY <2>4 DEF SavedOK
  <2> QED
    BY <2>1, <2>3, <2>4
<1> QED
  BY <1>1, <1>2 DEF JobsInv

LEMMA ImportBeginKeeps ==
  ASSUME JobsInv, NEW i \in Imports, ImportBegin(i)
  PROVE  JobsInv'
<1>1. PICK f \in Files : job' = [job EXCEPT ![i] = Settled(Opened(f))]
  BY DEF ImportBegin
<1>2. Grows
  BY DEF ImportBegin, vars, Grows
<1> QED
  BY <1>1, <1>2, OpenedIsJob, OneJobChanges

LEMMA ImportRowKeeps ==
  ASSUME JobsInv, NEW i \in Imports, ImportRow(i)
  PROVE  JobsInv'
<1> DEFINE j == job[i]
           n == j.read + 1
           accepted == Accepted(j, n)
           rejected == Rejected(j, n)
<1>1. JobOK(j) /\ j.answer = "none" /\ Flowing(j) /\ n <= Len(j.file.rows)
  BY DEF JobsInv, ImportRow, InProgress
<1>2. DOMAIN j = JobFields /\ j.saving = {}
  BY <1>1 DEF JobOK, Counts, Flowing
<1>3. \/ IsValid(j.file.rows[n]) /\ job' = [job EXCEPT ![i] = Settled(accepted)]
      \/ job' = [job EXCEPT ![i] = Settled(rejected)]
  BY DEF ImportRow
<1>4. Grows
  BY DEF ImportRow, vars, Grows
<1> HIDE DEF j
<1>5. IsValid(j.file.rows[n]) =>
        JobOK(Settled(accepted)) /\ Settled(accepted).saved = j.saved
  <2>1. /\ DOMAIN accepted = JobFields /\ accepted.read = j.read + 1
        /\ \A f \in JobFields \ {"read", "paused", "saving", "failed"} :
             accepted[f] = j[f]
        /\ accepted.paused /\ accepted.saving = {accepted.read}
        /\ accepted.failed = j.failed
    BY <1>2 DEF Accepted, JobFields
  <2>2. accepted.read = n /\ accepted.read = j.read + 1
    BY <2>1
  <2> HIDE DEF accepted, n
  <2> QED
    BY <1>1, <2>1, <2>2, RowIsJob DEF n
<1>6. JobOK(Settled(rejected)) /\ Settled(rejected).saved = j.saved
  <2>1. /\ DOMAIN rejected = JobFields /\ rejected.read = j.read + 1
        /\ \A f \in JobFields \ {"read", "paused", "saving", "failed"} :
             rejected[f] = j[f]
        /\ rejected.paused = j.paused /\ rejected.saving = j.saving
        /\ rejected.failed = j.failed + 1
    BY <1>2 DEF Rejected, JobFields
  <2> HIDE DEF rejected
  <2> QED
    BY <1>1, <2>1, RowIsJob
<1> HIDE DEF accepted, rejected, n
<1> QED
  BY <1>3, <1>4, <1>5, <1>6, OneJobChanges DEF j

LEMMA ImportFailedKeeps ==
  ASSUME JobsInv, NEW i \in Imports, NEW n, ImportFailed(i, n)
  PROVE  JobsInv'
<1> PICK j : j = job[i]
  OBVIOUS
<1> DEFINE k == RowFailed(j, n)
<1>1. JobOK(j) /\ n \in j.saving
  BY DEF JobsInv, ImportFailed
<1>2. job' = [job EXCEPT ![i] = Settled(k)] /\ Grows
  BY DEF ImportFailed, vars, Grows, JobsInv
<1>3. DOMAIN j = JobFields
  BY <1>1 DEF JobOK
<1>4. /\ DOMAIN k = JobFields
      /\ \A f \in {"file", "read", "answer", "summary"} : k[f] = j[f]
      /\ k.saving = j.saving \ {n} /\ ~k.paused
      /\ k.saved = j.saved /\ k.created = j.created /\ k.failed = j.failed + 1
  BY <1>3 DEF RowFailed, JobFields
<1> HIDE DEF k
<1>5. JobOK(Settled(k)) /\ Settled(k).saved = j.saved
  BY <1>1, <1>4, SavedIsJob
<1> QED
  BY <1>2, <1>5, OneJobChanges

LEMMA ImportedIsRow ==
  ASSUME NEW f \in Files, NEW n \in 1..Len(f.rows), IsValid(f.rows[n])
  PROVE  IsRow(ImportedTicket(f, n))
<1> PICK row : row = f.rows[n]
  OBVIOUS
<1>1. /\ row.content \in Contents /\ row.status \in Statuses
      /\ row.priority \in Priorities /\ row.assigneeId \in Users \cup {NoUser}
  BY ColumnFacts DEF IsValid, RowFields, ColumnType
<1>2. f.projectId \in Projects
  BY RowsFacts
<1> QED
  BY <1>1, <1>2, ColumnFacts
     DEF IsRow, ImportedTicket, NewTicket, InitialStatus, IsPast, Dates, ColumnType

\* A ticket more, of whatever project, disturbs no request.
LEMMA NewRowKeeps ==
  ASSUME IInv, NEW id \in TicketIds \ DOMAIN tickets, NEW row, IsRow(row),
         tickets' = [t \in DOMAIN tickets \cup {id} |->
                       IF t = id THEN row ELSE tickets[t]],
         UNCHANGED <<deps, audit, now, pc, call, target, entityVars, plan>>
  PROVE  IInv'
<1>1. TypeOK'
  BY DEF IInv, TypeOK, HoldsEntity, entityVars
<1>2. SameProject'
  BY DEF IInv, TypeOK, SameProject
<1>3. EntityOK'
  BY DEF IInv, TypeOK, EntityOK, entityVars
<1> QED
  BY <1>1, <1>2, <1>3 DEF IInv

LEMMA ImportSavedKeeps ==
  ASSUME IInv, JobsInv, NEW i \in Imports, NEW n, ImportSaved(i, n)
  PROVE  IInv' /\ JobsInv' /\ Grows
<1> DEFINE j == job[i]
<1>1. JobOK(j) /\ SavedOK(j) /\ n \in j.saving
  BY DEF JobsInv, ImportSaved
<1>2. PICK id \in TicketIds \ DOMAIN tickets :
        /\ \A other \in TicketIds \ DOMAIN tickets : id <= other
        /\ tickets' = [t \in DOMAIN tickets \cup {id} |->
                         IF t = id THEN ImportedTicket(j.file, n)
                         ELSE tickets[t]]
        /\ job' = [job EXCEPT ![i] = Settled(RowSaved(j, n, id))]
  BY DEF ImportSaved
<1> DEFINE k == RowSaved(j, n, id)
<1>3. /\ DOMAIN j = JobFields /\ RowsOK(j)
      /\ j.file \in Files /\ Len(j.file.rows) \in Nat
      /\ j.read \in Nat /\ n = j.read /\ n \in 1..Len(j.file.rows)
      /\ \A m \in DOMAIN j.saved : m \in Nat /\ m < n
      /\ IsValid(j.file.rows[n])
  <2>1. DOMAIN j = JobFields /\ RowsOK(j)
    BY <1>1 DEF JobOK
  <2> HIDE DEF j
  <2> QED
    BY <2>1, <1>1, RowsFacts DEF RowsOK
<1>4. IsRow(ImportedTicket(j.file, n))
  BY <1>3, ImportedIsRow
<1>5. IInv'
  BY <1>2, <1>4, NewRowKeeps DEF ImportSaved
<1>6. DOMAIN tickets' = DOMAIN tickets \cup {id}
  BY <1>2
<1>7. Grows
  BY <1>6 DEF Grows
<1> HIDE DEF j
<1>8. /\ DOMAIN k = JobFields
      /\ \A f \in {"file", "read", "answer", "summary"} : k[f] = j[f]
      /\ k.saving = j.saving \ {n} /\ ~k.paused
      /\ k.saved = [m \in DOMAIN j.saved \cup {n} |->
                      IF m = n THEN id ELSE j.saved[m]]
      /\ k.created = j.created + 1 /\ k.failed = j.failed
  BY <1>3 DEF RowSaved, JobFields
<1> HIDE DEF k
<1>9. JobOK(Settled(k)) /\ Settled(k).saved = k.saved
  <2>1. DOMAIN k.saved = DOMAIN j.saved \cup {n}
    BY <1>8
  <2> QED
    BY <1>1, <1>8, <2>1, SavedIsJob
<1>10. job' = [job EXCEPT ![i] = Settled(k)]
  BY <1>2 DEF k
<1>11. ASSUME NEW q \in Imports PROVE SavedOK(job[q])'
  <2>1. SavedOK(job[q])
    BY DEF JobsInv
  <2>2. \A other \in TicketIds \ DOMAIN tickets' :
          /\ other \in TicketIds \ DOMAIN tickets
          /\ id < other
    BY <1>2, <1>6, TicketsAssumption
  <2>3. CASE q # i
    <3>1. job'[q] = job[q]
      BY <1>10, <2>3 DEF JobsInv
    <3> QED
      BY <2>1, <2>2, <1>6, <3>1 DEF SavedOK
  <2>4. CASE q = i
    <3>1. job'[q].saved = [m \in DOMAIN j.saved \cup {n} |->
                             IF m = n THEN id ELSE j.saved[m]]
      BY <1>8, <1>9, <1>10, <2>4 DEF JobsInv
    <3>2. /\ n \in DOMAIN job'[q].saved /\ job'[q].saved[n] = id
          /\ \A m \in DOMAIN job'[q].saved \ {n} :
               /\ m \in DOMAIN j.saved /\ m \in Nat /\ m < n
               /\ job'[q].saved[m] = j.saved[m]
      BY <3>1, <1>3
    <3>3. \A m \in DOMAIN j.saved :
            j.saved[m] \in DOMAIN tickets /\ j.saved[m] < id
      BY <1>1, <1>2 DEF SavedOK
    <3>4. \A m \in DOMAIN job'[q].saved :
            /\ job'[q].saved[m] \in DOMAIN tickets'
            /\ \A other \in TicketIds \ DOMAIN tickets' :
                 job'[q].saved[m] < other
      BY <3>2, <3>3, <1>1, <1>6, <2>2 DEF SavedOK
    <3>5. ASSUME NEW l \in DOMAIN job'[q].saved,
                 NEW m \in DOMAIN job'[q].saved, l < m
          PROVE  job'[q].saved[l] < job'[q].saved[m]
      <4>1. l # n
        BY <3>2, <3>5, <1>3
      <4>2. CASE m = n
        BY <4>1, <4>2, <3>2, <3>3
      <4>3. CASE m # n
        BY <4>1, <4>3, <3>2, <3>5, <1>1 DEF SavedOK
      <4> QED
        BY <4>2, <4>3
    <3> QED
      BY <3>4, <3>5 DEF SavedOK
  <2> QED
    BY <2>3, <2>4
<1>12. JobsInv'
  <2>1. DOMAIN job' = Imports /\ \A q \in Imports : JobOK(job'[q])
    BY <1>9, <1>10 DEF JobsInv
  <2> QED
    BY <2>1, <1>11 DEF JobsInv
<1> QED
  BY <1>5, <1>7, <1>12

LEMMA LostIsJob ==
  ASSUME NEW j, JobOK(j)
  PROVE  LET k == [j EXCEPT !.saving = {},
                            !.answer = IF j.answer = "none" THEN "lost"
                                       ELSE j.answer]
         IN  JobOK(k) /\ k.saved = j.saved
<1> DEFINE k == [j EXCEPT !.saving = {},
                          !.answer = IF j.answer = "none" THEN "lost"
                                     ELSE j.answer]
<1>1. /\ DOMAIN k = JobFields
      /\ k.saving = {}
      /\ k.answer = IF j.answer = "none" THEN "lost" ELSE j.answer
      /\ \A f \in JobFields \ {"saving", "answer"} : k[f] = j[f]
  BY DEF JobOK, JobFields
<1> HIDE DEF k
<1>2. /\ k.file = j.file /\ k.read = j.read /\ k.saved = j.saved
      /\ k.summary = j.summary
  BY <1>1 DEF JobFields
<1>3. RowsOK(j) => RowsOK(k)
  BY <1>1, <1>2 DEF RowsOK
<1>4. Told(j) => Told(k)
  BY <1>1, <1>2 DEF Told
<1>5. JobOK(k)
  BY <1>1, <1>2, <1>3, <1>4 DEF JobOK
<1> QED
  BY <1>2, <1>5 DEF k

LEMMA LoseImportsKeeps ==
  ASSUME JobsInv, Grows, LoseImports
  PROVE  JobsInv'
<1>1. DOMAIN job' = Imports
  BY DEF LoseImports
<1>2. ASSUME NEW i \in Imports
      PROVE  JobOK(job'[i]) /\ job'[i].saved = job[i].saved
  BY LostIsJob DEF LoseImports, JobsInv
<1>3. ASSUME NEW i \in Imports PROVE SavedOK(job[i])'
  <2>1. SavedOK(job[i]) /\ job'[i].saved = job[i].saved
    BY <1>2 DEF JobsInv
  <2> QED
    BY <2>1 DEF SavedOK, Grows
<1> QED
  BY <1>1, <1>2, <1>3 DEF JobsInv

-----------------------------------------------------------------------------
(* Attachments.                                                            *)

\* A request that goes on was answered by an active ticket, and the file it
\* is about to delete is of that ticket, if it is still there: ids are never
\* given out twice.
UploaderOK(u) ==
  /\ upc[u] = "ticket" /\ Active(ucall[u].ticketId) => u \in sawActive
  /\ upc[u] \in {"insert", "find", "delete"} =>
       u \in sawActive /\ ucall[u].ticketId \in DOMAIN tickets
  /\ upc[u] = "delete" =>
       /\ ucall[u].id \in 1..attachmentIds
       /\ ucall[u].id \in DOMAIN attachments =>
            attachments[ucall[u].id] = ucall[u].ticketId

UploadInv ==
  /\ AttachmentsTypeOK
  /\ attachmentIds \in Nat
  /\ DOMAIN ucall = Uploaders
  /\ \A u \in Uploaders : UploaderOK(u)

LEMMA TicketsMove ==
  ASSUME UploadInv, Grows, Observe,
         UNCHANGED <<attachments, attachmentIds, uploaderVars>>
  PROVE  UploadInv'
<1>1. AttachmentsTypeOK'
  BY DEF UploadInv, AttachmentsTypeOK, Grows, uploaderVars
<1>2. ASSUME NEW u \in Uploaders PROVE UploaderOK(u)'
  <2>1. upc'[u] = "ticket" /\ Active(ucall[u].ticketId)' => u \in sawActive'
    BY DEF Observe, Uploading, Active, uploaderVars
  <2>2. sawActive \subseteq sawActive' /\ DOMAIN tickets \subseteq DOMAIN tickets'
    BY DEF Observe, Grows
  <2> QED
    BY <2>1, <2>2 DEF UploadInv, UploaderOK, uploaderVars
<1> QED
  BY <1>1, <1>2 DEF UploadInv, uploaderVars

LEMMA TicketsRest ==
  ASSUME UploadInv, UNCHANGED <<vars, attachmentVars>>
  PROVE  UploadInv'
BY DEF UploadInv, AttachmentsTypeOK, UploaderOK, Active, vars, attachmentVars,
       uploaderVars

\* The step of one request leaves the others as they are.
LEMMA OneUploader ==
  ASSUME UploadInv, NEW u \in Uploaders, NEW label,
         upc' = [upc EXCEPT ![u] = label],
         label \in {"insert", "find", "delete", "ok", "404", "500"},
         UNCHANGED <<vars, ucall, sawActive>>, attachmentIds' \in Nat,
         attachmentIds <= attachmentIds',
         DOMAIN attachments' \subseteq 1..attachmentIds',
         \A a \in DOMAIN attachments' : attachments'[a] \in DOMAIN tickets,
         \A a \in DOMAIN attachments' \ DOMAIN attachments : a > attachmentIds,
         \A a \in DOMAIN attachments' \cap DOMAIN attachments :
           attachments'[a] = attachments[a],
         upc[u] # "idle", UploaderOK(u)'
  PROVE  UploadInv'
<1>1. AttachmentsTypeOK'
  BY DEF UploadInv, AttachmentsTypeOK, vars
<1>2. ASSUME NEW v \in Uploaders \ {u} PROVE UploaderOK(v)'
  <2>1. upc'[v] = upc[v] /\ UploaderOK(v)
    BY DEF UploadInv, AttachmentsTypeOK
  <2>2. upc[v] = "delete" => ucall[v].id \in 1..attachmentIds'
    BY <2>1 DEF UploaderOK, UploadInv
  <2>3. upc[v] = "delete" /\ ucall[v].id \in DOMAIN attachments' =>
          attachments'[ucall[v].id] = ucall[v].ticketId
    BY <2>1 DEF UploaderOK, UploadInv
  <2> QED
    BY <2>1, <2>2, <2>3 DEF UploaderOK, Active, vars
<1> QED
  BY <1>1, <1>2 DEF UploadInv

LEMMA BeginUploadKeeps ==
  ASSUME UploadInv, NEW u \in Uploaders, UBegin(u)
  PROVE  UploadInv'
<1> PICK c \in AttachmentCalls :
      /\ ucall' = [ucall EXCEPT ![u] = c]
      /\ sawActive' = IF Active(c.ticketId) THEN sawActive \cup {u}
                      ELSE sawActive
  BY DEF UBegin
<1>1. /\ upc[u] = "idle" /\ upc' = [upc EXCEPT ![u] = "ticket"]
      /\ UNCHANGED <<tickets, attachments, attachmentIds>>
  BY DEF UBegin, UGoto, vars
<1>2. AttachmentsTypeOK'
  BY <1>1 DEF UploadInv, AttachmentsTypeOK
<1>3. ASSUME NEW v \in Uploaders PROVE UploaderOK(v)'
  <2>1. CASE v = u
    <3>1. upc'[u] = "ticket" /\ ucall'[u] = c
      BY <1>1 DEF UploadInv, AttachmentsTypeOK
    <3>2. Active(c.ticketId)' <=> Active(c.ticketId)
      BY <1>1 DEF Active
    <3> QED
      BY <2>1, <3>1, <3>2 DEF UploaderOK, Active
  <2>2. CASE v # u
    <3>1. UploaderOK(v) /\ upc'[v] = upc[v] /\ ucall'[v] = ucall[v]
      BY <1>1, <2>2 DEF UploadInv, AttachmentsTypeOK
    <3>2. sawActive \subseteq sawActive'
      OBVIOUS
    <3> QED
      BY <1>1, <3>1, <3>2 DEF UploaderOK, Active
  <2> QED
    BY <2>1, <2>2
<1> QED
  BY <1>1, <1>2, <1>3 DEF UploadInv

\* The steps that leave the table of attachments alone.
LEMMA LookKeeps ==
  ASSUME UploadInv, NEW u \in Uploaders, UReadTicket(u) \/ UFind(u) \/ UError(u)
  PROVE  UploadInv'
<1>1. /\ upc[u] # "idle"
      /\ UNCHANGED <<vars, attachments, attachmentIds, ucall, sawActive>>
  BY DEF UReadTicket, UFind, UError, Uploading
<1>2. PICK label \in {"insert", "find", "delete", "ok", "404", "500"} :
        upc' = [upc EXCEPT ![u] = label]
  BY DEF UReadTicket, UFind, UError, UGoto
<1>3. upc'[u] = label
  BY <1>2 DEF UploadInv, AttachmentsTypeOK
<1>4. UploaderOK(u)'
  <2>1. UploaderOK(u)
    BY DEF UploadInv
  <2>2. CASE UReadTicket(u)
    <3>1. /\ upc[u] = "ticket" /\ upc'[u] \in {"404", "insert", "find"}
          /\ upc'[u] \in {"insert", "find"} => Active(ucall[u].ticketId)
      BY <1>2, <1>3, <2>2
         DEF UReadTicket, UGoto, Attachable, UploadInv, AttachmentsTypeOK
    <3> QED
      BY <1>1, <2>1, <3>1 DEF UploaderOK, Active, vars
  <2>3. CASE UFind(u)
    <3>1. /\ upc[u] = "find" /\ upc'[u] \in {"delete", "404"}
          /\ upc'[u] = "delete" => OnTicket(ucall[u])
      BY <1>2, <1>3, <2>3 DEF UFind, UGoto, UploadInv, AttachmentsTypeOK
    <3>2. DOMAIN attachments \subseteq 1..attachmentIds
      BY DEF UploadInv, AttachmentsTypeOK
    <3> QED
      BY <1>1, <2>1, <3>1, <3>2 DEF UploaderOK, OnTicket, vars
  <2>4. CASE UError(u)
    <3>1. upc'[u] = "500"
      BY <2>4 DEF UError, UGoto, UploadInv, AttachmentsTypeOK
    <3> QED
      BY <3>1 DEF UploaderOK
  <2> QED
    BY <2>2, <2>3, <2>4
<1>5. /\ DOMAIN attachments' \subseteq 1..attachmentIds'
      /\ \A a \in DOMAIN attachments' : attachments'[a] \in DOMAIN tickets
      /\ attachmentIds' \in Nat /\ attachmentIds <= attachmentIds'
      /\ attachments' = attachments
  BY <1>1 DEF UploadInv, AttachmentsTypeOK
<1> QED
  BY <1>1, <1>2, <1>4, <1>5, OneUploader

LEMMA InsertKeepsUploads ==
  ASSUME UploadInv, NEW u \in Uploaders, UInsert(u)
  PROVE  UploadInv'
<1>1. /\ upc[u] = "insert" /\ upc' = [upc EXCEPT ![u] = "ok"]
      /\ UNCHANGED <<vars, ucall, sawActive>>
      /\ attachmentIds' = attachmentIds + 1
      /\ attachments' = [a \in DOMAIN attachments \cup {attachmentIds'} |->
                           IF a = attachmentIds' THEN ucall[u].ticketId
                           ELSE attachments[a]]
  BY DEF UInsert, UGoto
<1>2. /\ attachmentIds \in Nat /\ AttachmentsTypeOK /\ UploaderOK(u)
      /\ attachmentIds' \in Nat
  BY <1>1 DEF UploadInv
<1>3. DOMAIN attachments' \subseteq 1..attachmentIds'
  BY <1>1, <1>2 DEF AttachmentsTypeOK
<1>4. \A a \in DOMAIN attachments' : attachments'[a] \in DOMAIN tickets
  BY <1>1, <1>2 DEF AttachmentsTypeOK, UploaderOK
<1>5. /\ \A a \in DOMAIN attachments' \ DOMAIN attachments : a > attachmentIds
      /\ \A a \in DOMAIN attachments' \cap DOMAIN attachments :
           attachments'[a] = attachments[a]
  BY <1>1, <1>2 DEF AttachmentsTypeOK
<1>6. UploaderOK(u)'
  BY <1>1, <1>2 DEF UploaderOK, AttachmentsTypeOK
<1>7. attachmentIds <= attachmentIds'
  BY <1>1, <1>2
<1> QED
  BY <1>1, <1>2, <1>3, <1>4, <1>5, <1>6, <1>7, OneUploader

LEMMA DeleteKeepsUploads ==
  ASSUME UploadInv, NEW u \in Uploaders, UDelete(u)
  PROVE  UploadInv'
<1>1. /\ upc[u] = "delete" /\ upc' = [upc EXCEPT ![u] = "ok"]
      /\ UNCHANGED <<vars, ucall, sawActive, attachmentIds>>
      /\ attachments' =
           [a \in DOMAIN attachments \ {ucall[u].id} |-> attachments[a]]
  BY DEF UDelete, UGoto
<1>2. attachmentIds \in Nat /\ AttachmentsTypeOK
  BY DEF UploadInv
<1>3. UploaderOK(u)'
  BY <1>1, <1>2 DEF UploaderOK, AttachmentsTypeOK
<1>4. /\ DOMAIN attachments' \subseteq 1..attachmentIds'
      /\ \A a \in DOMAIN attachments' : attachments'[a] \in DOMAIN tickets
      /\ \A a \in DOMAIN attachments' :
           a \in DOMAIN attachments /\ attachments'[a] = attachments[a]
      /\ attachmentIds' \in Nat /\ attachmentIds <= attachmentIds'
  BY <1>1, <1>2 DEF AttachmentsTypeOK
<1> QED
  BY <1>1, <1>3, <1>4, OneUploader

LEMMA LoseUploadsKeeps ==
  ASSUME UploadInv, LoseUploads, tickets' = tickets
  PROVE  UploadInv'
<1>1. /\ DOMAIN upc' = Uploaders
      /\ \A u \in Uploaders : upc'[u] = IF u \in Uploading THEN "lost" ELSE upc[u]
      /\ UNCHANGED <<attachments, attachmentIds, ucall, sawActive>>
  BY DEF LoseUploads
<1>2. ASSUME NEW u \in Uploaders
      PROVE  \/ /\ upc'[u] = upc[u]
                /\ upc'[u] \notin {"ticket", "insert", "find", "delete"}
             \/ upc'[u] = "lost" /\ upc[u] # "idle"
  <2>1. CASE u \in Uploading
    BY <1>1, <2>1 DEF Uploading
  <2>2. CASE u \notin Uploading
    BY <1>1, <2>2 DEF Uploading
  <2> QED
    BY <2>1, <2>2
<1>3. AttachmentsTypeOK'
  <2>1. upc' \in [Uploaders -> {"idle", "ticket", "insert", "find", "delete",
                                "ok", "404", "500", "lost"}]
    BY <1>2 DEF LoseUploads, UploadInv, AttachmentsTypeOK
  <2> QED
    BY <1>1, <1>2, <2>1 DEF UploadInv, AttachmentsTypeOK
<1>4. \A u \in Uploaders : UploaderOK(u)'
  BY <1>2 DEF UploaderOK
<1> QED
  BY <1>1, <1>3, <1>4 DEF UploadInv

-----------------------------------------------------------------------------
UploadsInv == IInv /\ JobsInv /\ UploadInv

LEMMA InitUploadsInv == UploadsInit => UploadsInv
<1> SUFFICES ASSUME UploadsInit PROVE UploadsInv
  OBVIOUS
<1>1. IInv
  BY InitIInv DEF UploadsInit
<1>2. JobsInv
  <2>1. /\ DOMAIN NoImport = JobFields /\ NoImport.answer = "idle"
        /\ NoImport.saved = << >> /\ NoImport.saving = {}
    BY DEF NoImport, Opened, JobFields
  <2>2. JobOK(NoImport) /\ SavedOK(NoImport)
    BY <2>1 DEF JobOK, SavedOK
  <2> QED
    BY <2>2 DEF JobsInv, UploadsInit, ImportsInit
<1>3. UploadInv
  BY DEF UploadsInit, AttachmentsInit, UploadInv, AttachmentsTypeOK, UploaderOK
<1> QED
  BY <1>1, <1>2, <1>3 DEF UploadsInv

LEMMA RestingKeeps ==
  ASSUME UploadsInv, UNCHANGED vars
  PROVE  IInv' /\ Grows
BY NextKeeps DEF UploadsInv, Grows, vars

LEMMA UploadsNextKeeps == UploadsInv /\ [UploadsNext]_uploadsVars => UploadsInv'
<1> SUFFICES ASSUME UploadsInv, [UploadsNext]_uploadsVars PROVE UploadsInv'
  OBVIOUS
<1>1. IInv /\ JobsInv /\ UploadInv
  BY DEF UploadsInv
<1>2. CASE /\ TicketStep
           /\ Observe
           /\ UNCHANGED <<job, attachments, attachmentIds, uploaderVars>>
  <2>1. IInv' /\ Grows
    BY <1>1, <1>2, NextKeeps, NextGrows DEF TicketStep, Next
  <2> QED
    BY <1>1, <1>2, <2>1, JobsKept, TicketsMove DEF UploadsInv
<1>3. ASSUME NEW i \in Imports, ImportBegin(i), UNCHANGED attachmentVars
      PROVE  UploadsInv'
  <2>1. UNCHANGED vars
    BY <1>3 DEF ImportBegin
  <2> QED
    BY <1>1, <1>3, <2>1, RestingKeeps, ImportBeginKeeps, TicketsRest
       DEF UploadsInv
<1>4. ASSUME NEW i \in Imports, ImportTurn(i) PROVE UploadsInv'
  <2>1. Observe /\ UNCHANGED <<attachments, attachmentIds, uploaderVars>>
    BY <1>4 DEF ImportTurn
  <2>2. IInv' /\ JobsInv' /\ Grows
    <3>1. CASE ImportRow(i)
      <4>1. UNCHANGED vars
        BY <3>1 DEF ImportRow
      <4> QED
        BY <1>1, <3>1, <4>1, RestingKeeps, ImportRowKeeps
    <3>2. ASSUME NEW n, ImportSaved(i, n) PROVE IInv' /\ JobsInv' /\ Grows
      BY <1>1, <3>2, ImportSavedKeeps
    <3>3. ASSUME NEW n, ImportFailed(i, n) PROVE IInv' /\ JobsInv' /\ Grows
      <4>1. UNCHANGED vars
        BY <3>3 DEF ImportFailed
      <4> QED
        BY <1>1, <3>3, <4>1, RestingKeeps, ImportFailedKeeps
    <3> QED
      BY <1>4, <3>1, <3>2, <3>3 DEF ImportTurn, ImportStep
  <2> QED
    BY <1>1, <2>1, <2>2, TicketsMove DEF UploadsInv
<1>5. ASSUME NEW u \in Uploaders, UStep(u), UNCHANGED job PROVE UploadsInv'
  <2>1. UNCHANGED vars
    BY <1>5 DEF UStep, UBegin, UReadTicket, UInsert, UFind, UDelete, UError
  <2>2. UploadInv'
    BY <1>1, <1>5, BeginUploadKeeps, LookKeeps, InsertKeepsUploads,
       DeleteKeepsUploads DEF UStep
  <2> QED
    BY <1>1, <1>5, <2>1, <2>2, RestingKeeps, JobsKept DEF UploadsInv
<1>6. CASE UploadsCrash
  <2>1. LoseImports /\ LoseUploads /\ (Crash \/ UNCHANGED vars)
    BY <1>6 DEF UploadsCrash
  <2>2. IInv' /\ Grows
    BY <1>1, <2>1, NextKeeps, NextGrows DEF Next
  <2>3. tickets' = tickets
    BY <2>1 DEF Crash, db, vars
  <2> QED
    BY <1>1, <2>1, <2>2, <2>3, LoseImportsKeeps, LoseUploadsKeeps DEF UploadsInv
<1>7. CASE UNCHANGED uploadsVars
  <2>1. UNCHANGED vars /\ UNCHANGED attachmentVars /\ job' = job
    BY <1>7 DEF uploadsVars
  <2> QED
    BY <1>1, <2>1, RestingKeeps, JobsKept, TicketsRest DEF UploadsInv
<1> QED
  BY <1>2, <1>3, <1>4, <1>5, <1>6, <1>7 DEF UploadsNext

\* Imports, attachment requests and requests on tickets keep this together,
\* however they interleave, fail or are lost with the process.
THEOREM UploadsInvariance == UploadsSpec => []UploadsInv
BY InitUploadsInv, UploadsNextKeeps, PTL DEF UploadsSpec

\* What an import makes of a row is a ticket again, an attachment belongs to
\* an existing ticket, and a job never counts or saves a row it was not handed.
THEOREM UploadsTyping == UploadsSpec => []UploadsTypeOK
<1>1. UploadsInv => UploadsTypeOK
  <2> SUFFICES ASSUME UploadsInv PROVE UploadsTypeOK
    OBVIOUS
  <2>1. ASSUME NEW i \in Imports, job[i].answer # "idle"
        PROVE  /\ job[i].file \in Files
               /\ job[i].saving \subseteq 1..job[i].read
               /\ job[i].read <= Len(job[i].file.rows)
               /\ DOMAIN job[i].saved \subseteq (1..job[i].read) \ job[i].saving
               /\ \A n \in DOMAIN job[i].saved :
                    job[i].saved[n] \in DOMAIN tickets
    <3>1. RowsOK(job[i]) /\ SavedOK(job[i])
      BY <2>1 DEF UploadsInv, JobsInv, JobOK
    <3>2. Len(job[i].file.rows) \in Nat
      BY <3>1, RowsFacts DEF RowsOK
    <3> QED
      BY <3>1, <3>2 DEF RowsOK, SavedOK
  <2>2. ImportsTypeOK
    BY <2>1 DEF ImportsTypeOK
  <2> QED
    BY <2>2 DEF UploadsTypeOK, UploadsInv, IInv, UploadInv
<1> QED
  BY <1>1, UploadsInvariance, PTL

\* The tickets of a file get their ids in the order of its rows, although
\* other requests create tickets meanwhile and any save may fail: an import
\* saves one row at a time, and each gets the lowest id that is left.
THEOREM ImportsKeepTheOrder == UploadsSpec => []RowsInOrder
<1>1. UploadsInv => RowsInOrder
  BY DEF UploadsInv, JobsInv, SavedOK, RowsInOrder
<1> QED
  BY <1>1, UploadsInvariance, PTL

\* For files of fewer rows than the parser buffers (ImportsAssumption), of
\* any number of imports at once: a summary counts every row but perhaps the
\* last one, each as what it has become, and stays true of them; an error
\* leaves at most the first row.  Longer files are outside of the model: an
\* error at their end may leave several rows.
THEOREM SummariesAreTrue == UploadsSpec => []SummaryAccurate
<1>1. UploadsInv => SummaryAccurate
  <2> SUFFICES ASSUME UploadsInv PROVE SummaryAccurate
    OBVIOUS
  <2>1. ASSUME NEW i \in Summaries
        PROVE  LET rows == Len(job[i].file.rows)
                   saved == DOMAIN job[i].saved
               IN  \E counted \in {1..rows, 1..(rows - 1)} :
                     /\ job[i].summary.created = Cardinality(saved \cap counted)
                     /\ job[i].summary.failed = Cardinality(counted \ saved)
    <3>1. Told(job[i])
      BY DEF Summaries, UploadsInv, JobsInv, JobOK
    <3> QED
      BY <3>1 DEF Told
  <2>2. ASSUME NEW i \in Imports, job[i].answer = "500"
        PROVE  DOMAIN job[i].saved \subseteq {1}
    <3>1. RowsOK(job[i]) /\ job[i].read <= 1
      BY <2>2 DEF UploadsInv, JobsInv, JobOK
    <3>2. job[i].read \in 0..1
      BY <3>1, RowsFacts DEF RowsOK
    <3> QED
      BY <3>1, <3>2 DEF RowsOK
  <2> QED
    BY <2>1, <2>2 DEF SummaryAccurate
<1> QED
  BY <1>1, UploadsInvariance, PTL

-----------------------------------------------------------------------------
(* What a step may do to the attachments.                                  *)

LEMMA AttachmentSteps ==
  ASSUME UploadsInv, [UploadsNext]_uploadsVars
  PROVE  \/ UNCHANGED <<attachments, upc>>
         \/ UNCHANGED attachments /\ \A u \in Uploaders : ~UCommits(u)
         \/ \E u \in Uploaders : UInsert(u) \/ UDelete(u)
<1>1. CASE LoseUploads
  <2>1. \A u \in Uploaders : upc'[u] = upc[u] \/ upc'[u] = "lost"
    BY <1>1 DEF LoseUploads
  <2> QED
    BY <1>1, <2>1 DEF LoseUploads, UCommits
<1>2. ASSUME NEW u \in Uploaders,
             UBegin(u) \/ UReadTicket(u) \/ UFind(u) \/ UError(u)
      PROVE  UNCHANGED attachments /\ \A v \in Uploaders : ~UCommits(v)
  <2>1. PICK label : upc' = [upc EXCEPT ![u] = label] /\ label # "ok"
    BY <1>2 DEF UBegin, UReadTicket, UFind, UError, UGoto
  <2>2. \A v \in Uploaders : upc'[v] = upc[v] \/ upc'[v] # "ok"
    BY <2>1 DEF UploadsInv, UploadInv, AttachmentsTypeOK
  <2> QED
    BY <1>2, <2>2 DEF UBegin, UReadTicket, UFind, UError, UCommits
<1> QED
  BY <1>1, <1>2
     DEF UploadsNext, UploadsCrash, ImportTurn, UStep, uploadsVars,
         attachmentVars, uploaderVars

\* The files of a ticket change only by requests that name it: an id that was
\* found on the ticket is never given to a file of another one, although the
\* file may be deleted by others before.
THEOREM FilesStayOwn == UploadsSpec => OwnAttachmentsOnly
<1>1. UploadsInv /\ [UploadsNext]_uploadsVars =>
        \A t \in TicketIds :
          LET before == {a \in DOMAIN attachments : attachments[a] = t}
              after == {a \in DOMAIN attachments' : attachments'[a] = t}
          IN  before # after =>
                \E u \in Uploaders : UCommits(u) /\ ucall[u].ticketId = t
  <2> SUFFICES ASSUME UploadsInv, [UploadsNext]_uploadsVars, NEW t \in TicketIds,
                      {a \in DOMAIN attachments : attachments[a] = t} #
                      {a \in DOMAIN attachments' : attachments'[a] = t}
               PROVE  \E u \in Uploaders : UCommits(u) /\ ucall[u].ticketId = t
    OBVIOUS
  <2>1. PICK u \in Uploaders : UInsert(u) \/ UDelete(u)
    BY AttachmentSteps
  <2>2. UCommits(u)
    BY <2>1
       DEF UInsert, UDelete, UGoto, UCommits, UploadsInv, UploadInv,
           AttachmentsTypeOK
  <2>3. attachmentIds \in Nat /\ DOMAIN attachments \subseteq 1..attachmentIds
    BY DEF UploadsInv, UploadInv, AttachmentsTypeOK
  <2>4. CASE UInsert(u)
    BY <2>2, <2>3, <2>4 DEF UInsert
  <2>5. CASE UDelete(u)
    <3>1. UploaderOK(u) /\ upc[u] = "delete"
      BY <2>5 DEF UDelete, UploadsInv, UploadInv
    <3>2. attachments' = [a \in DOMAIN attachments \ {ucall[u].id} |->
                            attachments[a]]
      BY <2>5 DEF UDelete
    <3> QED
      BY <2>2, <3>1, <3>2 DEF UploaderOK
  <2> QED
    BY <2>1, <2>4, <2>5
<1> QED
  BY <1>1, UploadsInvariance, PTL DEF UploadsSpec, OwnAttachmentsOnly

\* Files change only by requests during which their ticket was active: one
\* that was deleted before keeps its files until it is restored.
THEOREM DeletedTicketsKeepTheirFiles == UploadsSpec => DeletedKeepFiles
<1>1. UploadsInv => \A u \in Uploaders : UCommits(u) => u \in sawActive
  BY DEF UploadsInv, UploadInv, UploaderOK, UCommits
<1> QED
  BY <1>1, UploadsInvariance, PTL DEF UploadsSpec, DeletedKeepFiles
=============================================================================
