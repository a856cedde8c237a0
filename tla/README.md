# IssueFlow: formal models and proofs

TLA+ models of the IssueFlow backend (NestJS, TypeORM, PostgreSQL), checked
with TLC and proved about with TLAPS. Paths below are those of the repository;
line numbers are in `PROJECT.json` ("map").

## The system

IssueFlow is one Node process in front of one database. Each HTTP handler is
an async function; the process runs one at a time and switches only at an
`await`. Nothing uses a database transaction of its own, a lock, or a
conditional UPDATE: every guarantee rests on what happens between awaits and on
what `repository.save()` does.

| Component | State | Operations that change it | What it should do |
|---|---|---|---|
| Ticket workflow `tickets.service.ts` | `tickets`, `ticket_dependencies` | create (with auto-assignment), update, remove, restore, addDependency, removeDependency | forward-only status; DONE is frozen; closing waits for blockers; a stale version is refused; dependencies within a project; soft deletion and overdue flag consistent |
| Audit log `audit-logs.service.ts` | `audit_logs`, append-only | logAction, called by tickets and projects | tells of every change that was acknowledged, and of nothing else |
| Escalation job `tickets-escalation.service.ts` | a batch in memory for each run | hourly run, which may overlap the next | every overdue ticket is CRITICAL and flagged in the end; nothing but priority and flag changes |
| Projects `projects.service.ts` | `projects` | create, update, remove (cascade), restore | owner or ADMIN only; the cascade is complete and logged |
| Comments `comments.service.ts` | `comments`, `comment_mentions` | create, update, remove | the second of two simultaneous edits fails; purged is purged; mentions follow the body; a comment stays on its ticket |
| Users `users.service.ts` | `user` | create, update, remove | unique names and emails; an update writes what it names; an id is never used again |
| Authentication `auth.service.ts`, `jwt.guard.ts` | token blacklist in memory | login, logout | a refused token stays refused; a token names the account it was issued for |
| CSV import and export `tickets-bulk-operations.service.ts` | a stream and a summary | importTickets | rows in order; the summary tells of them; every import is answered |
| Attachments `ticket-attachments.service.ts` | `attachments` | upload, delete | only on active tickets, only on the ticket named |
| HTTP layer (modules, DTOs, `main.ts`) | none | | |

The last column is what the documents and comments of the repository promise.
Where the code does not keep a promise, *Isolated* and *Runs* below say so.

Interactions: comments, dependencies and projects go through
`TicketsService` or its table; tickets, projects and nothing else call the
audit log; the escalation job and the cascade of a project removal save tickets
on their own, past the checks of `TicketsService`; comments ask users for
mentions; the guard asks the auth service about every token.

What is hard here, and what the models are for:

* **stale entities.** A handler reads a row, awaits, and saves the entity.
  `save()` writes every column in which the entity differs from the row *at
  that time*, the ones the handler never touched included.
* **checks that age.** Version, DONE, blockers and permissions are checked at
  the read, two round trips before the commit.
* **partial failure.** Save, audit entry and cascade are separate statements;
  any of them may fail and the process may die between them.
* **a job next to requests** that holds a batch of entities for long, and that
  nothing keeps from starting again while an earlier run is still saving.
* **a stream next to its handler**: the import pauses and resumes its parser
  from an async handler, and the end of the stream does not wait for it.
* **state in memory**: the deny-list of tokens is lost with the process, and
  what a token says was read before bcrypt ran.
* **liveness**: every request is answered, every overdue ticket is escalated.

`PROJECT.json` lists each hazard at its line with the properties that cover it.

## Modules

| Module | Models |
|---|---|
| `TypeOrm` | external: what `save()` does to a row and to a many-to-many relation, in its two round trips |
| `TicketLifecycle` | abstract: statuses, soft deletion and dependency edges, without requests |
| `Tickets` | `TicketsService` and the audit log; refines `TicketLifecycle` |
| `Assignments` | `Tickets` with a history variable for the automatic assignment |
| `Escalation` | overlapping runs of `TicketsCronService` next to `Tickets` (EXTENDS it) |
| `Projects` | `ProjectsService` next to `Tickets` (EXTENDS it) |
| `Comments` | `CommentsService`, with tickets and accounts coming and going |
| `BulkImport` | the CSV import of `TicketsBulkOperationsService` (EXTENDS `Tickets`) |
| `Attachments` | `TicketAttachmentsService` (EXTENDS `Tickets`) |
| `Uploads` | `BulkImport` and `Attachments` in one process with the requests on tickets |
| `Accounts` | `UsersService`, `AuthService` and the guard |
| `TicketsProofs` | theorems about `Tickets`, and the lemmas that all modules which extend it need |
| `TicketsConcurrentProofs`, `TicketsIsolatedProofs` | theorems about `Tickets` without and with `Isolated` |
| `EscalationProofs`, `ProjectsProofs`, `UploadsProofs`, `CommentsProofs`, `AccountsProofs` | theorems about the module of that name |
| `MCTickets`, `MCAssignments` (extends it), `MCEscalation`, `MCProjects`, `MCComments`, `MCUploads`, `MCAccounts` | constants for TLC; one `.cfg` per run |

### How code becomes actions

An action is the code from one await to the next, with the statement that ends
it. `pc[r]` names the await where request `r` stands, or the answer it gave.
For `update()` the actions are `Begin` (the route), `UpdateRead` (findOne, all
checks in their order, all assignments), `Reload` and `Write` (the two round
trips of `saveTicket`), `Log` (`logTicketAction`, then the answer). `mem[r]`
and `blocked[r]` are the entity in memory; `plan[r]` is the difference
`save()` found. An exception is `Answer(r, code)`: the entity is dropped, the
tables stay as they are.

| Code | Definitions in `Tickets` |
|---|---|
| `create` | `Begin`, `Assign`, `IsLeastLoaded`, `NewTicket`, `Insert`, `Log`, `LogAssign` |
| `update` | `UpdateRead`, `UpdateVerdict`, `Patched`, `OverdueAfter` |
| `remove`, `restore` | `RemoveRead`, `RestoreRead`, `Restored` |
| `addDependency` | `AddDependencyRead`, `AddDependencyReadBlocker` |
| `removeDependency` | `RemoveDependencyRead` |
| `saveTicket` | `Reload`, `Write`, `WriteDuplicate` |
| `isStatusTransitionAllowed`, `ensureNotDone` | the same names, `IsDone` |
| `logAction`, `logTicketAction` | `LogEntry`, `TicketEntry`, `Log` |

`Assignments` adds `rivals[r]`: the requests that have saved a ticket since
creation `r` chose its developer and until its INSERT. It restricts nothing.

`Escalation` adds the job, one set of variables for each run that is open:
`JobQuery` (the query, and the loop's assignments, which depend on the entity
alone), `JobReload`, `JobWrite` per ticket. The scheduler does not wait for the
handler, so a run may start while others are saving.
`Projects` adds project requests: `MRead` (findOne, permission, assignments),
`MReload`, `MWrite`, then for a removal `MSelect` and, per ticket,
`MTicketReload`, `MTicketWrite`, `MTicketLog`, and `MLog`. `Comments` follows
the same scheme; its `Reinsert` is what `save()` does when the row is gone.

`BulkImport` has one record per import, `job[i]`. `ImportRow` is the data
handler up to its save (or up to the exception of `processRow`), `ImportSaved`
and `ImportFailed` are the rest of it; the parser is paused between them.
`Settled` closes every step: the promise is resolved when the stream has ended
and rejected when the parser meets text it cannot read, whichever comes first,
and never twice. What is assumed of csv-parse 5 and Node streams is in
`Refused`, `Ended` and the head of the module: a file is parsed as a whole into
the buffer of the parser, the first row is handed over at once, and taking the
last row out of the buffer ends the stream without waiting for the handler.
This is so while the rows of a file fit the buffer: beyond it the parser waits
for the handler, and a later error finds rows saved. Files have fewer than the
16 rows of the buffer (`BufferSize`), an assumption of the module.

`Attachments` follows the scheme of requests: `UReadTicket`, then `UInsert`, or
`UFind` and `UDelete`. `sawActive` is a history variable: the requests whose
ticket has been active at some time since they began.

`Accounts` keeps everything about a request in one record, `client[c]`: where
it is, the account it has read, what `save()` found. `CreateCheck` and
`CreateInsert` are the lookup and the INSERT of `create` with bcrypt between
them; `Read`, `Reload`, `Write` or `Reinsert`, `Refetch` are `update`; `Read`
and `Delete` are `remove`; `Lookup` and `Sign` (or `Mismatch`) are the login
around `bcrypt.compare`. The guard and `logout` have no await and are one step.
A token is the record of its claims, with the second it was issued in, so that
two logins within one second yield one token, as jsonwebtoken does. `Restart`
empties the deny-list. Any caller with a token that is accepted may change any
account, which is what the routes check.

Everywhere, `DatabaseError` (`JobError`, `MError`, `UError`, `Fail`) may end a request or the
job at any await, and a crash ends all of them at once (`ServerCrash` all runs of the job, too) and
keeps the tables.

Abstractions: title, description and type are one column `content`; dates are
ticks of a clock up to `MaxTime`; `created_at` and `updated_at` are left out;
the members of a project are a constant, as nothing under `src/` changes them;
`performedBy` is not kept in audit entries (the services pass 0 for most); a
row and its join rows are read together; ids of audit entries are the request
that wrote them. The ADMIN check of the ticket restore route looks at the token
only and is left out. In `Comments` a body stands for the tags in it, and
matching ignores case as the query does.

### Isolated

Most promises of the documentation do not survive two requests that are open
on one ticket at the same time. With `Isolated = TRUE` clients never have two
requests open on one ticket (or project); requests on *different* tickets
still interleave freely, including a ticket and its blocker, and failures and
crashes stay. Nothing in the code ensures this. The `...Isolated` runs show
that the logic of the handlers is right as long as they do not meet, and no
more; the `...Concurrent` runs, the escalation run and the proofs without this
hypothesis show what holds anyway. The job is never restricted.

Without the assumption TLC refutes the other nine properties of the two
`...Isolated` runs (`BalancedAssignment` needs no such assumption: a creation has
no ticket yet and overlaps with everything, here and in the theorem). Each is
reproduced by setting `Isolated = FALSE` in the `.cfg`:

| Property | Refuted by |
|---|---|
| `TokenHoldsAtCommit` | two updates with one version (the run `MCTicketsLostUpdate`) |
| `DoneFrozen` | an update that read a ticket before it was closed writes its old status back |
| `CloseGuard` | a dependency added while the ticket is being closed |
| `VersionCountsWrites` | a stale save writes the version it has read back |
| `ImplementsLifecycle` | a stale save takes a status backwards |
| `OverdueMeansPast` | one save clears the due date and another sets the flag, each between the two round trips of the other |
| `SoftDeleteMarker` | two removals and a restoration: a save that found one of the two columns unchanged writes the other one only |
| `CascadeReachesAll` | a ticket created while its project is removed |
| `ChangesAllowed` | an update that read a project before its removal brings it back |

There is no property of the kind "an update changes the requested columns only"
or "a handler changes the dependencies it was asked to change only": both are
false of the code as soon as two requests meet (a stale save writes every
column and every edge that differs from what it has read, and so undoes what
was done since), and without a second request there is nothing to undo.

`Comments` and `Accounts` do not restrict their clients. Instead they record
which requests overlap: `met` holds the open requests that were open together
with another one on their comment, or while an account came or went, and
`overtaken` marks a client whose account was changed since it read it. The
properties that do not survive an overlap are claimed of the other requests
only. Without that condition TLC refutes `MentionsReevaluated` (two edits of
one comment), `PurgedForGood` for comments
(an edit whose comment is deleted before its save inserts it again, contrary to
"Completely purges a comment from the system", `comments.service.ts:122`),
`TokenSaysAccount` and `UpdateWritesNamed`. `RemovedForGood` for accounts needs
no such condition: an account that is saved after its removal cannot be
inserted without the password, which was not loaded. That "the second save
fails" for comments has no such condition, as it is about the overlap: it is
the run `MCCommentsSecondSave`, which TLC refutes.

## Runs

`tlc -config <run>.cfg <module>`; the largest takes two and a half minutes with
two workers. All runs set `CHECK_DEADLOCK FALSE`: a request is made at most
once, so the clients stop.

| Run | Shows |
|---|---|
| `MCTicketsConcurrent` | three requests, any interleaving: `TypeOK`, `SameProject`, `AuditMatchesAnswer`, `AuditSound`, `NeverStuck` (no handler is without a next step, whatever the others have done to its rows), `OnlyRemovalsDelete` |
| `MCTicketsIsolated` | `TokenHoldsAtCommit`, `DoneFrozen`, `CloseGuard`, `VersionCountsWrites`, `SoftDeleteMarker`, `OverdueMeansPast`, `ImplementsLifecycle` (the workflow refines `TicketLifecycle`), and `BalancedAssignment`: the choice is off by one for every request that has saved a ticket between it and the INSERT, and by one more for those of them that are no creations |
| `MCEscalationEnds` | two runs that overlap and a request that resets the ticket, a DONE ticket in the batch, no `Isolated`: `JobTypeOK`, `OnlyRemovalsDelete` (no run brings a ticket to be deleted that no request has deleted) and, for liveness, `OverdueEndsCritical` |
| `MCProjectsConcurrent` | `ProjectsTypeOK`, `DeletionsLogged`: one unlogged deletion at most per unfinished removal |
| `MCProjectsIsolated` | `CascadeReachesAll` after failed removals and restorations, `ChangesAllowed` (who, which columns, and an edit never revives a project) |
| `MCComments` | three requests, accounts and tickets coming and going: `CommentsTypeOK`, `ScopedToTicket`, `PurgedForGood`, `MentionsReevaluated` |
| `MCUploads` | an import, two attachment requests and a ticket request: `UploadsTypeOK`, `RowsInOrder`, `SummaryAccurate` (right up to the last row), `OwnAttachmentsOnly`, `DeletedKeepFiles`, and, for liveness, `ImportsAnswered` |
| `MCAccounts` | two clients, three accounts: `AccountsTypeOK`, `AccountsDistinct`, `TokenNamesItsUser`, `RemovedForGood`, `RefusedForGood`, `TokenSaysAccount`, `UpdateWritesNamed` |

Runs that TLC refutes; each is a finding in `PROJECT.json` with the sentence it
contradicts:

| Run | What the code does |
|---|---|
| `MCTicketsLostUpdate` | two updates with one version both succeed |
| `MCTicketsCycle` | dependencies form a cycle, without any concurrency |
| `MCCommentsSecondSave` | two simultaneous edits of a comment both succeed, the second overwrites the first |
| `MCImportSummary` | the summary of an import misses the last row of the file |

Seen while modelling, and not the subject of a run: the query of the escalation
job has no condition on the status (`tickets-escalation.service.ts:34`), so
that a DONE ticket is raised to CRITICAL and flagged once its due date has
passed, although `Requirements_Document.md:199` speaks of tickets that "remain
unresolved" (`OverdueEndsCritical` says what the code does, and the run has
such a ticket); a run whose save is late, because an earlier run is still
saving or a request has changed the ticket meanwhile, writes an older level,
status or date back, although `Requirements_Document.md:217` says what a run
may change; a login within the second in which its token was revoked returns
that token again, already refused; addDependency,
removeDependency, the escalation job and project creation and update write no
audit entry, although `Requirements_Document.md:118` asks for one for every
state changing action.

### Bounds

* Requests: two or three. Every hazard here is between two handlers, or two
  and a third that prepares the state; a stale save needs one reader and one
  writer. Each makes one call out of a set that has every operation on tickets
  that meet.
* Tickets: the seeds hold a ticket, one or two blockers (one DONE, one not), a
  ticket of another project and deleted tickets; ids leave room for every
  creation, so no request waits for an id.
  In `MCTicketsIsolated` each of two developers has one open ticket, so that
  one other request between the choice and the INSERT makes the choice stale:
  with a smaller bound for creations or for the others `BalancedAssignment` fails.
* Escalation: two runs, each of which may start again, and one request next to
  them; a ticket two levels below CRITICAL, or an open and a DONE ticket in one
  batch, so that a failure falls between them.
* Clock: `MaxTime = 1`: a date is past, or becomes past once.
* Statuses, priorities and the fields of a patch are complete.
* Projects: two or three project requests, so that a removal can fail, be
  undone by a restoration and be tried again; two tickets to cascade over, so
  that a failure falls between them, and one outside.
* Uploads: files of no row, one, and three, with an invalid row in front, in the
  middle or at the end, and refused text at once or after rows; two attachment
  requests, a deletion by the wrong ticket among them, and a ticket request
  that deletes, restores or creates. `MaxTime = 0`: nothing here reads a date.
* Accounts: three ids, so that of two registrations that race the loser spends
  one, and an id freed by a removal could be taken; tokens live for one tick
  and the clock stops after one, so that an expired token, a fresh one and a
  restart meet.
* Comments: ids up to 2, so that an id freed by a removal could be taken by
  the next creation; two users, one with a capital letter; bodies that mention
  nobody, one, and the other.
* Symmetry is over requests and clients, which are interchangeable, and is not
  used with liveness.

### Fairness

`JobFairness` assumes weak fairness of each request's next step, since the
event loop resumes every handler whose round trip is over, of the clock, and of
the hourly trigger (`@Cron(EVERY_HOUR)`), which starts some run that is not open. `Begin`, errors and crashes have none.
The saves of each run are strongly fair, ticket by ticket: a run that fails is repeated an hour later, and a database that is asked
again and again does not fail every time. Without the last, a save that fails
on every run would leave a ticket where it is for ever. Requests are finitely
many, so clients do not reset a ticket without end.

`UploadsSpec` assumes weak fairness of each import's next step: the parser hands
over a row whenever it is not paused, and every INSERT returns, with a result
or an error. Requests and crashes have none.

## Proofs

`tlapm <Module>.tla` for each of the eight proof modules. Proved are, but for
those listed under *What is only model-checked*, the invariants and action
properties that the runs check and the refinement of `TicketLifecycle`, for all
values of the constants that satisfy the
assumptions of the modules and for any number of requests and runs. The
assumptions: calls and seeds are well typed, ids are positive, and files have
fewer rows than the parser buffers (`ImportsAssumption`, in the theorems of
`UploadsProofs`). Hypotheses beyond these are written at the
theorem; there are five kinds:

| Hypothesis | Where | Why |
|---|---|---|
| `Isolated` | what the `...Isolated` runs check, but for `BalancedAssignment` | the properties fail without it (see *Isolated*): the theorems are about handlers that do not meet |
| `CleanSeeds` | `DeletionIsMarked`, `OverdueIsPast` | the tables the server starts on satisfy the property themselves |
| `MarkedSeeds` | `ProjectsStayMarked`, `ProjectChangesAreAllowed` | the same, for the two marks of a deleted project |
| `UndeletedSeeds` | `DeletionsAreLogged` | the log of the model starts empty, so what was deleted before would be missing in it |
| finitely many requests and rows | `AssignmentsAreBalanced`, `DeletionsAreLogged` | the properties count them |

The pattern is the same throughout. A predicate says of *one* request what it
knows, by where it stands; one lemma shows that its own step keeps the
predicate, one lemma per action; and one or two frame lemmas (`OthersKept`,
`RowFrame`, `OtherManagersKept`) show that the step of another request leaves
it alone.

### Tickets, in any interleaving

`TypeCorrect` and `DependenciesStayInProject` (`TicketsProofs`). Neither
`TypeOK` nor `SameProject` is inductive: what `Write` stores comes out of the
entity in memory. `IInv` adds `EntityOK`: while a request holds an entity, its
ticket exists, the entity is of the project of the row, every blocker it has
collected is too, and so the columns that `save()` found to differ never
include the project. The inductive step is one lemma per action
(`BeginKeeps`, `InsertKeeps`, `ReadsKeep`, `WriteKeeps`, ...), over lemmas
about the operators that build rows (`UpdatedIsRow`, `PatchedIsRow`,
`NewTicketIsRow`).

`AnswersMatchTheLog` and `LogIsSound` (`TicketsConcurrentProofs`) follow from
`AuditInv`: the entries of a request are none before it logs, its own one
after, and the automatic assignment only on top of that one, and the log has no
other entries.

`DeletionsAreRequested`: only a removal ever holds a deleted entity
(`EntityDeletes`), as every other handler finds no deleted ticket or clears the
mark before it saves; so no save, however stale, deletes a ticket that nobody
removed.

`AssignmentsAreBalanced` is about `AssignmentsSpec`: each of the requests that
have saved since a creation chose its developer has moved each of the two loads
by at most one, a creation the load of the chosen one only (`LoadMoves`), which
gives the bound `Cardinality(rivals[r]) + Cardinality(Moving(rivals[r]))` at
any time until the INSERT (`BalanceInv`, `SlackMoves`).

### Tickets whose requests never meet

`TicketsIsolatedProofs`, with the hypothesis `Isolated`. `EntitiesStayFresh`
proves the invariant: no two requests are about to save one ticket
(`Exclusive`), and from its read to its commit a handler holds the row as it
is, but for the columns its call asks for (`Fresh`). Requests on other tickets,
blockers among them, go on meanwhile: that a blocker found DONE is still DONE
at the commit (`DoneStays`) needs the invariant of the request that works on
the *blocker*, so the action properties and the invariant rest on each other.

From it: `DoneIsFrozen` and `ClosingIsGuarded`, by looking at what a commit
writes (`WriteEffect`), and, by an invariant of the rows (`RowsStayInOrder`),
`DeletionIsMarked` and `OverdueIsPast`.

`LifecycleImplemented` is the refinement `Spec => ImplementsLifecycle`. An
insert maps to the creation of a ticket, a commit to the one step that its call
is for or to a stutter (`UpdateRefines`, `DeletionRefines`,
`DependencyRefines`, `InsertRefines`), all else to a stutter. The closing step
of the abstract specification asks for blockers that are DONE at that moment,
which is where `Fresh` is needed.

### The escalation job

In any interleaving of any number of runs and requests, without `Isolated`:
`JobInv` says of the batch of each run what `EntityOK` says of the entities,
and that no entity in it is deleted, as the query finds no deleted ticket. `ProjectsKept` (no step changes the project of a ticket or
drops one) carries it over the steps of requests and of other runs. From it
follow `JobTypeCorrect`, `EscalationKeepsProjects` and `RunsNeverDelete`.
Nothing stronger can be said of a single save: with two runs, or a request in
between, it may raise, lower or leave a priority. That every ticket is at
CRITICAL in the end is liveness, and is model-checked.

### Projects

In any interleaving: `ProjectsTyping`, from `ProjectsInv`, which ties the
tickets of a cascade to rows that exist and are in the project.

`DeletionsAreLogged`, in any interleaving, counts: there are never more
unlogged deletions than unfinished removals. The count is not inductive, since
a stale save may bring a deleted ticket back and another removal delete it
again. `DeletionsInv` has a function `f` from the unlogged deletions to
requests, one to one, such that `f[t]` is a removal that stands right before
its entry for `t`, or has failed or died (`Guilty`). Only a removal sets
`isDeleted` (`EntityDeletes`), it was guilty of nothing before, and if it logs
the entry then `t` leaves the set. `BlameMoves` makes the new function; that
the sets are finite gives the inequality (`FS_Injection`).

With `Isolated` (project requests and requests on tickets take turns):
`RequestsTakeTurns` proves that the row a project request holds is the row as
it is (`EditOK`), and that a ticket of the project that is not deleted is one
the cascade still has before it (`CascadeOK`). `CascadesReachAll` and
`ProjectChangesAreAllowed` follow.

### Imports and attachments

`UploadsProofs`, in any interleaving and for files within the buffer of the
parser (see *Not modelled* for the others).
`JobsInv` accounts for every row that the parser has handed over: it is saved,
it has failed, or it is the last one and on its way to the database, and the
parser is paused in that case only (`Counts`). After the answer the last row
may still be saved or fail, and the summary is of the rows before (`Told`).
`SummariesAreTrue` and `ImportsKeepTheOrder` follow, the latter since every
INSERT takes the least free id, which is above all that the import has taken
(`SavedOK`). `UploadInv` says what a request on an attachment still knows of
it, for `FilesStayOwn` and `DeletedTicketsKeepTheirFiles`.

### Comments

`CommentsProofs`, in any interleaving, in two layers. `CommentsInvariance`: all
the handlers that hold a comment, and the comment itself while it exists,
agree on its ticket and author, so that an edit that has met a removal inserts
the comment where it was (`CommentsTyping`, `CommentsStayInScope`).
`UnmetRequests`: a request that has met no other finds its comment and the
mentions of it as it read them (`PurgedStaysPurged`, `MentionsFollowTheBody`).
Both are about such requests only.

### Accounts

`AccountsProofs`: all properties that `MCAccounts` checks, for any number of
clients, accounts and tokens, under `AccountsAssumption`: calls are well typed, ids are positive,
and the table the server starts on has ids `1..n`, well-typed rows and no two
equal usernames or emails.

* `AccountsTyping`, `AccountsStayDistinct`, `TokensNameTheirUsers`: the three
  invariants.
* `RemovalIsFinal`: `RemovedForGood`. `RefusalIsFinal`: `RefusedForGood`.
* `TokensSayAccounts`, `UpdatesWriteNamed`: `TokenSaysAccount`,
  `UpdateWritesNamed`.

`AccountsInvariance` proves the inductive invariant they follow from: the
tables, and for every client `ClientOK`. Two requests may hold the same account
while a third removes it, and `ClientOK` says what is left of what they know.
An account that was read for an update (`HoldsUpdate`) has no password, so the
INSERT of `save()` fails (`ReinsertFails`) and an id that is free stays free;
its username and email are those of the row for as long as there is one, so an
UPDATE renames nobody and the names in tokens stay right; and while nothing has
overtaken the request, the fields that were not named are those of the row
(`WriteRow`). An account that was read for a login (`HoldsLogin`) is the row
until the request is overtaken. `MoveIInv` covers the steps that change one
request only, `OthersOvertaken` what an UPDATE or a DELETE means to the others,
and `OwnStep` that a request goes on by an action of its own, or is lost.

### What is only model-checked

* `OverdueEndsCritical` and `ImportsAnswered` (liveness) and `NeverStuck`:
  fairness and ENABLED are out of the reach of the prover.
* `TokenHoldsAtCommit` and `VersionCountsWrites`: where no two requests meet
  they say that the check of the version stands at the read and that a save
  counts one up; what matters about them is that they fail otherwise.

The four runs that TLC refutes have nothing to prove. The proofs take from the
TLC runs that the hypotheses can be met: the seeds of the runs satisfy
`CleanSeeds`, `MarkedSeeds` and `UndeletedSeeds`, and every action fires.

## Not modelled

* Imports of 16 rows or more: beyond its buffer the parser waits for the
  handler, so that an error may come after several rows have been saved, which
  `Refused` does not describe. No property or theorem about imports covers
  such files.
* Assignees and owners whose account was removed: tickets and projects keep a
  plain id that nothing compares with the accounts.
* Export, finders, workload: they only read.
* Validation and wiring of the framework: the models take the calls that pass.
* TypeORM and PostgreSQL are external; `TypeOrm` and the failure actions state
  what is assumed of them.

## Plan

1. An abstract specification of a project removal, as one step that deletes the
   project and its tickets and logs them, and under which assumptions
   `Projects` implements it.
2. The other abstract specifications worth a proof: a comment as an atomic
   register of its body and mentions, for requests that have not met; an import
   as a sequence of insertions.
3. The steps towards liveness that need no fairness: what each fair action
   brings closer to the answer, as action properties.
