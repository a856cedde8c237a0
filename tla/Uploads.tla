------------------------------- MODULE Uploads -------------------------------
(***************************************************************************)
(* The two services that take files, next to the requests on tickets: one  *)
(* process, one table of tickets.                                          *)
(***************************************************************************)
EXTENDS BulkImport, Attachments

uploadsVars == <<vars, job, attachmentVars>>

UploadsInit == Init /\ ImportsInit /\ AttachmentsInit

TicketStep ==
  \/ \E r \in Requests : Begin(r) \/ Step(r) \/ DatabaseError(r)
  \/ Tick

Importing ==
  {i \in Imports : InProgress(i) \/ job[i].saving # {}}

ImportTurn(i) ==
  /\ ImportStep(i)
  /\ Observe
  /\ UNCHANGED <<attachments, attachmentIds, uploaderVars>>

\* The process dies with all it was doing.
UploadsCrash ==
  /\ \/ Crash
     \/ /\ InFlight = {}
        /\ Uploading # {} \/ Importing # {}
        /\ UNCHANGED vars
  /\ LoseImports
  /\ LoseUploads

UploadsNext ==
  \/ /\ TicketStep
     /\ Observe
     /\ UNCHANGED <<job, attachments, attachmentIds, uploaderVars>>
  \/ \E i \in Imports :
       \/ ImportBegin(i) /\ UNCHANGED attachmentVars
       \/ ImportTurn(i)
  \/ \E u \in Uploaders : UStep(u) /\ UNCHANGED job
  \/ UploadsCrash

\* The event loop goes on with every row, and every INSERT returns.
UploadsSpec ==
  /\ UploadsInit
  /\ [][UploadsNext]_uploadsVars
  /\ \A i \in Imports : WF_uploadsVars(ImportTurn(i))

\* Types of the variables of both services.
UploadsTypeOK == TypeOK /\ ImportsTypeOK /\ AttachmentsTypeOK
=============================================================================
