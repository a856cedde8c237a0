----------------------------- MODULE BulkImport -----------------------------
(***************************************************************************)
(* TicketsBulkOperationsService.importTickets(): the rows of a CSV file    *)
(* become tickets, one INSERT after the other.                             *)
(*                                                                         *)
(* The upload is a single chunk, so the parser has read the whole file     *)
(* before the first row is saved.  It hands the first row to the handler   *)
(* at once and keeps the others in its buffer.  The handler pauses the     *)
(* parser, saves the row, and resumes it.  Taking the last row out of the  *)
(* buffer ends the stream, and the summary is sent, while that row is      *)
(* still being saved.  A file of one row never reaches the buffer: its     *)
(* stream ends after the row has been saved.  A file the parser refuses    *)
(* is answered with its error as soon as the first row was handed over.    *)
(*                                                                         *)
(* (csv-parse 5, Node streams.)  All this is so for files shorter than the *)
(* buffer, and the model is about those only: a longer file makes the      *)
(* parser wait, so that rows are saved before it meets the end of the text *)
(* or an error there.                                                      *)
(***************************************************************************)
EXTENDS Tickets

CONSTANTS
  Imports,  \* import requests, each made at most once
  Files     \* the files they may send

\* The fields of a row; a value outside the type of its column is invalid.
RowFields == {"content", "status", "priority", "assigneeId"}

\* The rows the parser buffers, the high water mark of its stream.
BufferSize == 16

ASSUME ImportsAssumption ==
  \A f \in Files :
    /\ Len(f.rows) < BufferSize
    /\ f.projectId \in Projects
    /\ f.malformed \in BOOLEAN
    /\ f.rows \in Seq({f.rows[n] : n \in DOMAIN f.rows})
    /\ \A n \in DOMAIN f.rows : DOMAIN f.rows[n] = RowFields

VARIABLE job  \* import |-> the state of its parser and of its handlers

\* read: rows handed over; saving: rows whose INSERT is under way; created,
\* failed: the counters; summary: what was sent of them.  saved, the ticket
\* each row has become, is for the properties.
Opened(file) ==
  [file |-> file, read |-> 0, paused |-> FALSE, saving |-> {},
   created |-> 0, failed |-> 0, answer |-> "none",
   summary |-> << >>, saved |-> << >>]

NoImport == [Opened(<< >>) EXCEPT !.answer = "idle"]

ImportsInit == job = [i \in Imports |-> NoImport]

InProgress(i) == job[i].answer = "none"

-----------------------------------------------------------------------------
\* The parser meets text it cannot read.
Refused(j) ==
  j.file.malformed /\ (j.read > 0 \/ j.file.rows = << >>)

\* The stream ends: with the last row, or after the only one.
Ended(j) ==
  /\ j.read = Len(j.file.rows)
  /\ Len(j.file.rows) > 1 \/ ~j.paused

\* The promise is resolved or rejected at most once.
Settled(j) ==
  IF j.answer # "none" THEN j
  ELSE IF Refused(j) THEN [j EXCEPT !.answer = "500"]
  ELSE IF Ended(j)
  THEN [j EXCEPT !.answer = "ok",
                 !.summary = [created |-> j.created, failed |-> j.failed]]
  ELSE j

ImportBegin(i) ==
  /\ job[i].answer = "idle"
  /\ \E f \in Files : job' = [job EXCEPT ![i] = Settled(Opened(f))]
  /\ UNCHANGED vars

\* Fault: the title may be missing.
IsValid_untitled(row) ==
  \A c \in RowFields \ {"content"} : row[c] \in ColumnType[c]

\* processRow() throws before it saves.
IsValid(row) == \A c \in RowFields : row[c] \in ColumnType[c]

\* Fault: the parser is not paused.
Flowing_always(j) == TRUE

Flowing(j) == ~j.paused

\* A row that processRow() saves, and one that it refuses.
Accepted(j, n) ==
  [j EXCEPT !.read = n, !.paused = TRUE, !.saving = @ \cup {n}]

Rejected(j, n) == [j EXCEPT !.read = n, !.failed = @ + 1]

\* The data handler, up to its save.
ImportRow(i) ==
  /\ InProgress(i)
  /\ Flowing(job[i])
  /\ LET n == job[i].read + 1
     IN  /\ n <= Len(job[i].file.rows)
         /\ job' = [job EXCEPT ![i] = Settled(
              IF IsValid(job[i].file.rows[n]) THEN Accepted(@, n)
              ELSE Rejected(@, n))]
  /\ UNCHANGED vars

ImportedTicket(file, n) ==
  LET row == file.rows[n]
  IN  NewTicket([projectId |-> file.projectId, content |-> row.content,
                 status |-> row.status, priority |-> row.priority,
                 dueDate |-> NoDate],
                row.assigneeId)

RowSaved(j, n, id) ==
  [j EXCEPT !.saving = @ \ {n}, !.paused = FALSE, !.created = @ + 1,
            !.saved = [m \in DOMAIN j.saved \cup {n} |->
                         IF m = n THEN id ELSE j.saved[m]]]

\* The INSERT succeeds.
ImportSaved(i, n) ==
  /\ n \in job[i].saving
  /\ \E id \in TicketIds \ DOMAIN tickets :
       /\ \A other \in TicketIds \ DOMAIN tickets : id <= other
       /\ tickets' = [t \in DOMAIN tickets \cup {id} |->
                        IF t = id THEN ImportedTicket(job[i].file, n)
                        ELSE tickets[t]]
       /\ job' = [job EXCEPT ![i] = Settled(RowSaved(@, n, id))]
  /\ UNCHANGED <<deps, audit, now, pc, call, target, entityVars, plan>>

\* Fault: the parser is resumed after a save only.
RowFailed_paused(j, n) ==
  [j EXCEPT !.saving = @ \ {n}, !.failed = @ + 1]

\* Fault: the row is counted before it is saved.
RowFailed_counted(j, n) ==
  [j EXCEPT !.saving = @ \ {n}, !.paused = FALSE, !.created = @ + 1]

\* The catch and the finally of the handler.
RowFailed(j, n) ==
  [j EXCEPT !.saving = @ \ {n}, !.paused = FALSE, !.failed = @ + 1]

\* The INSERT fails.
ImportFailed(i, n) ==
  /\ n \in job[i].saving
  /\ job' = [job EXCEPT ![i] = Settled(RowFailed(@, n))]
  /\ UNCHANGED vars

\* The process dies: rows that were saved stay.
LoseImports ==
  job' = [i \in Imports |->
            [job[i] EXCEPT !.saving = {},
                           !.answer = IF @ = "none" THEN "lost" ELSE @]]

ImportStep(i) ==
  \/ ImportRow(i)
  \/ \E n \in 1..job[i].read : ImportSaved(i, n) \/ ImportFailed(i, n)

-----------------------------------------------------------------------------
(* Properties.                                                             *)

ImportsTypeOK ==
  \A i \in Imports : job[i].answer # "idle" =>
    LET j == job[i]
    IN  /\ j.file \in Files
        /\ j.saving \subseteq 1..j.read
        /\ j.read <= Len(j.file.rows)
        /\ DOMAIN j.saved \subseteq (1..j.read) \ j.saving
        /\ \A n \in DOMAIN j.saved : j.saved[n] \in DOMAIN tickets

Summaries == {i \in Imports : job[i].answer = "ok"}

\* "Mapping each row sequentially into the database": tickets get their ids
\* in the order of the rows, whatever else is created or fails meanwhile.
RowsInOrder ==
  \A i \in Imports :
    \A m, n \in DOMAIN job[i].saved : m < n => job[i].saved[m] < job[i].saved[n]

\* What an answer says of the tables, however saves fail or the process
\* dies: a summary counts every row but perhaps the last one, each as what
\* it has become, and an error leaves at most the first row behind.
SummaryAccurate ==
  /\ \A i \in Summaries :
       LET rows == Len(job[i].file.rows)
           saved == DOMAIN job[i].saved
       IN  \E counted \in {1..rows, 1..(rows - 1)} :
             /\ job[i].summary.created = Cardinality(saved \cap counted)
             /\ job[i].summary.failed = Cardinality(counted \ saved)
  /\ \A i \in Imports :
       job[i].answer = "500" => DOMAIN job[i].saved \subseteq {1}

\* created is the "Number of tickets created successfully": the summary of a
\* file tells of every row of it.
SummaryCountsEveryRow ==
  \A i \in Summaries :
    job[i].summary.created + job[i].summary.failed = Len(job[i].file.rows)

\* Every import is answered or lost with the process: a row that fails must
\* not leave the parser paused.
ImportsAnswered == \A i \in Imports : InProgress(i) ~> ~InProgress(i)
=============================================================================
