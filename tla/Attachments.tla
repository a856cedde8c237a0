----------------------------- MODULE Attachments -----------------------------
(***************************************************************************)
(* TicketAttachmentsService next to whatever happens to the tickets: the   *)
(* metadata of the files of a ticket, inserted and deleted one at a time.  *)
(*                                                                         *)
(*   upload: idle -> ticket -> insert -> answer                            *)
(*   delete: idle -> ticket -> find -> delete -> answer                    *)
(*                                                                         *)
(* Tickets are soft-deleted only, so the foreign key of an attachment      *)
(* always finds its ticket.                                                *)
(***************************************************************************)
EXTENDS Tickets

CONSTANTS
  AttachmentIds,   \* values of the attachment id sequence, 1..n
  Uploaders,       \* attachment requests, each made at most once
  AttachmentCalls  \* calls the clients may make

ASSUME AttachmentsAssumption ==
  /\ AttachmentIds \subseteq Nat \ {0}
  /\ \A c \in AttachmentCalls :
       /\ c.ticketId \in TicketIds
       /\ c.op = "upload" \/ (c.op = "delete" /\ c.id \in AttachmentIds)

VARIABLES
  attachments,     \* the table `attachments`: id |-> ticket id
  attachmentIds,   \* the last id given out
  upc,             \* where each attachment request is, or its answer
  ucall,           \* what it was asked to do
  sawActive        \* for the properties: its ticket was active since it began

uploaderVars == <<upc, ucall>>
attachmentVars == <<attachments, attachmentIds, uploaderVars, sawActive>>

Uploading ==
  {u \in Uploaders : upc[u] \in {"ticket", "insert", "find", "delete"}}

AttachmentsInit ==
  /\ attachments = << >>
  /\ attachmentIds = 0
  /\ upc = [u \in Uploaders |-> "idle"]
  /\ ucall = [u \in Uploaders |-> NoCall]
  /\ sawActive = {}

-----------------------------------------------------------------------------
UGoto(u, label) == upc' = [upc EXCEPT ![u] = label]

\* Whoever changes the tickets is seen by the requests on them.
Observe ==
  sawActive' = sawActive \cup
    {u \in Uploading : LET t == ucall[u].ticketId
                       IN  t \in DOMAIN tickets' /\ ~tickets'[t].isDeleted}

UBegin(u) ==
  /\ upc[u] = "idle"
  /\ \E c \in AttachmentCalls :
       /\ ucall' = [ucall EXCEPT ![u] = c]
       /\ sawActive' = IF Active(c.ticketId) THEN sawActive \cup {u}
                       ELSE sawActive
  /\ UGoto(u, "ticket")
  /\ UNCHANGED <<vars, attachments, attachmentIds>>

\* Fault: deleted tickets are found.
Attachable_any(t) == t \in DOMAIN tickets

Attachable(t) == Active(t)

UReadTicket(u) ==
  /\ upc[u] = "ticket"
  /\ UGoto(u, IF ~Attachable(ucall[u].ticketId) THEN "404"
              ELSE IF ucall[u].op = "upload" THEN "insert" ELSE "find")
  /\ UNCHANGED <<vars, attachments, attachmentIds, ucall, sawActive>>

UInsert(u) ==
  /\ upc[u] = "insert"
  /\ attachmentIds + 1 \in AttachmentIds
  /\ attachmentIds' = attachmentIds + 1
  /\ attachments' = [a \in DOMAIN attachments \cup {attachmentIds'} |->
                       IF a = attachmentIds' THEN ucall[u].ticketId
                       ELSE attachments[a]]
  /\ UGoto(u, "ok")
  /\ UNCHANGED <<vars, ucall, sawActive>>

\* Fault: the attachment is looked up by its id alone.
OnTicket_any(c) == c.id \in DOMAIN attachments

\* findOne({ id, ticketId })
OnTicket(c) ==
  c.id \in DOMAIN attachments /\ attachments[c.id] = c.ticketId

UFind(u) ==
  /\ upc[u] = "find"
  /\ UGoto(u, IF OnTicket(ucall[u]) THEN "delete" ELSE "404")
  /\ UNCHANGED <<vars, attachments, attachmentIds, ucall, sawActive>>

\* DELETE by id: that the row is already gone is no error.
UDelete(u) ==
  /\ upc[u] = "delete"
  /\ attachments' =
       [a \in DOMAIN attachments \ {ucall[u].id} |-> attachments[a]]
  /\ UGoto(u, "ok")
  /\ UNCHANGED <<vars, attachmentIds, ucall, sawActive>>

UError(u) ==
  /\ u \in Uploading
  /\ UGoto(u, "500")
  /\ UNCHANGED <<vars, attachments, attachmentIds, ucall, sawActive>>

LoseUploads ==
  /\ upc' = [u \in Uploaders |-> IF u \in Uploading THEN "lost" ELSE upc[u]]
  /\ UNCHANGED <<attachments, attachmentIds, ucall, sawActive>>

UStep(u) ==
  \/ UBegin(u) \/ UReadTicket(u) \/ UInsert(u)
  \/ UFind(u) \/ UDelete(u) \/ UError(u)

-----------------------------------------------------------------------------
(* Properties.                                                             *)

AttachmentsTypeOK ==
  /\ DOMAIN attachments \subseteq 1..attachmentIds
  /\ \A a \in DOMAIN attachments : attachments[a] \in DOMAIN tickets
  /\ upc \in [Uploaders -> {"idle", "ticket", "insert", "find", "delete",
                            "ok", "404", "500", "lost"}]
  /\ \A u \in Uploaders : upc[u] # "idle" => ucall[u] \in AttachmentCalls

\* The request whose statement a step commits.
UCommits(u) == upc[u] \in {"insert", "delete"} /\ upc'[u] = "ok"

\* "Requires matching both ticketId and attachmentId": whatever other
\* requests delete meanwhile, the files of a ticket change only by requests
\* that name it.
OwnAttachmentsOnly ==
  [][\A t \in TicketIds :
       LET before == {a \in DOMAIN attachments : attachments[a] = t}
           after == {a \in DOMAIN attachments' : attachments'[a] = t}
       IN  before # after =>
             \E u \in Uploaders : UCommits(u) /\ ucall[u].ticketId = t
    ]_<<vars, attachmentVars>>

\* "Prevents attaching files to soft-deleted or non-existent tickets", as far
\* as the code goes: the files of a ticket change only by requests during
\* which it was active at some time, so that a ticket that was deleted before
\* keeps its files as they are until it is restored.
DeletedKeepFiles ==
  [][\A u \in Uploaders :
       UCommits(u) => u \in sawActive]_<<vars, attachmentVars>>
=============================================================================
