------------------------------ MODULE CoverField ------------------------------
(***************************************************************************)
(* The cover of a post, in the administrator's browser: CoverMediaField    *)
(* (preview, upload, external URL) over useAdminUpload, which asks for a   *)
(* presigned URL, puts the file, confirms it and polls until the worker    *)
(* has settled it; and the form around it, which can be saved meanwhile.   *)
(* What becomes of an upload is UploadLifecycle's business.                *)
(***************************************************************************)
EXTENDS Integers

CONSTANTS
  MaxChoices,   \* bound on what the administrator does to the field
  MaxAttempts   \* pollMaxAttempts

ASSUME CoverAssumption == MaxChoices \in Nat /\ MaxAttempts \in Nat \ {0}

VARIABLES
  upload,   \* the rows of the API, each named by the choice that made it
  client,   \* the hook: its stage, the upload and the attempts to poll
  value,    \* the field: whose URL, and (history) the choice it comes from
  choices,  \* how many choices were made
  page      \* "open", "saving", "saved"

coverVars == <<upload, client, value, choices, page>>

-----------------------------------------------------------------------------
Choices  == 1..MaxChoices
NoUpload == 0

Settled == {"processed", "failed"}

\* "ever" is history: the worker processed it at least once.
Upload == [status : {"none", "pending", "uploaded"} \cup Settled, ever : BOOLEAN]

InProgress == {"presigning", "uploading", "confirming", "processing"}  \* isUploading

Retryable == {"failed", "timeout", "error"}  \* isRetryableTerminalState

\* "silent" is history: the call that is awaited is never answered.
Client == [stage : {"idle", "done"} \cup InProgress \cup Retryable,
           id : Choices \cup {NoUpload}, attempt : 0..MaxAttempts, silent : BOOLEAN]

Value == [url : {"none", "external", "upload"}, choice : 0..MaxChoices]

CoverTypeOK ==
  /\ upload \in [Choices -> Upload]
  /\ client \in Client
  /\ value \in Value
  /\ choices \in 0..MaxChoices
  /\ page \in {"open", "saving", "saved"}

Quiet == [stage |-> "idle", id |-> NoUpload, attempt |-> 0, silent |-> FALSE]

\* A post that is edited may have a cover.
CoverInit ==
  /\ upload = [c \in Choices |-> [status |-> "none", ever |-> FALSE]]
  /\ client = Quiet
  /\ value \in [url : {"none", "external"}, choice : {0}]
  /\ choices = 0
  /\ page = "open"

Mounted == page # "saved"

IsUploading == client.stage \in InProgress

HasPreview == value.url # "none"

Choose == Mounted /\ choices < MaxChoices /\ choices' = choices + 1

-----------------------------------------------------------------------------
\* The file input of the dropzone, or of "Trocar": neither is rendered while
\* an upload is under way.
SelectFile ==
  /\ ~IsUploading /\ Choose
  /\ client' = [Quiet EXCEPT !.stage = "presigning", !.id = choices']
  /\ UNCHANGED <<upload, value, page>>

\* Mutant: the preview stays while another file is uploaded.
Remove_AnyTime ==
  /\ HasPreview /\ Choose
  /\ value' = [url |-> "none", choice |-> choices']
  /\ client' = [client EXCEPT !.attempt = 0]
  /\ UNCHANGED <<upload, page>>

\* "Remover", of the preview
Remove ==
  /\ ~IsUploading /\ HasPreview /\ Choose
  /\ value' = [url |-> "none", choice |-> choices']
  /\ client' = Quiet
  /\ UNCHANGED <<upload, page>>

\* handleManualConfirm(), of the empty field
ManualConfirm ==
  /\ ~IsUploading /\ ~HasPreview /\ Choose
  /\ value' = [url |-> "external", choice |-> choices']
  /\ UNCHANGED <<upload, client, page>>

-----------------------------------------------------------------------------
\* upload(), from one await to the next.
Awaits(stage) == client.stage = stage /\ ~client.silent

Goes(stage) == client' = [client EXCEPT !.stage = stage]

Row(status) == upload' = [upload EXCEPT ![client.id].status = status]

Presigned ==
  /\ Awaits("presigning")
  /\ Row("pending") /\ Goes("uploading")
  /\ UNCHANGED <<value, choices, page>>

Put ==
  /\ Awaits("uploading")
  /\ Goes("confirming")
  /\ UNCHANGED <<upload, value, choices, page>>

Confirmed ==
  /\ Awaits("confirming")
  /\ Row("uploaded") /\ Goes("processing")
  /\ UNCHANGED <<value, choices, page>>

\* The work of a call without an answer may be done all the same.
DoneOrNot ==
  \/ UNCHANGED upload
  \/ client.stage = "presigning" /\ Row("pending")
  \/ client.stage = "confirming" /\ Row("uploaded")

\* A call fails: presign, PUT, confirm or one poll.
CallFails ==
  /\ IsUploading /\ ~client.silent
  /\ Goes("error")
  /\ DoneOrNot
  /\ UNCHANGED <<value, choices, page>>

\* A call is never answered: neither putToS3()'s request nor a fetch has a
\* timeout.
Hangs ==
  /\ IsUploading /\ ~client.silent
  /\ client' = [client EXCEPT !.silent = TRUE]
  /\ DoneOrNot
  /\ UNCHANGED <<value, choices, page>>

\* Mutant: an attempt that finds nothing is not counted.
Poll_Uncounted ==
  LET status == upload[client.id].status IN
  /\ Awaits("processing")
  /\ client' = [client EXCEPT !.stage = CASE status = "processed" -> "done"
                                          [] status = "failed" -> "failed"
                                          [] OTHER -> "processing"]
  /\ value' = IF status = "processed" /\ Mounted
                THEN [url |-> "upload", choice |-> client.id] ELSE value
  /\ UNCHANGED <<upload, choices, page>>

\* Mutant: every status but "uploaded" is an answer.
Poll_AnyEnd ==
  LET status == upload[client.id].status
      last   == client.attempt + 1 = MaxAttempts IN
  /\ Awaits("processing")
  /\ client' = [client EXCEPT !.attempt = @ + 1,
                  !.stage = CASE status \in Settled -> "done"
                              [] OTHER -> IF last THEN "timeout" ELSE "processing"]
  /\ value' = IF status \in Settled /\ Mounted
                THEN [url |-> "upload", choice |-> client.id] ELSE value
  /\ UNCHANGED <<upload, choices, page>>

\* pollUntilProcessed() and what follows it: onChange() has the URL.
Poll ==
  LET status == upload[client.id].status
      last   == client.attempt + 1 = MaxAttempts IN
  /\ Awaits("processing")
  /\ client' = [client EXCEPT !.attempt = @ + 1,
                  !.stage = CASE status = "processed" -> "done"
                              [] status = "failed" -> "failed"
                              [] OTHER -> IF last THEN "timeout" ELSE "processing"]
  /\ value' = IF status = "processed" /\ Mounted
                THEN [url |-> "upload", choice |-> client.id] ELSE value
  /\ UNCHANGED <<upload, choices, page>>

-----------------------------------------------------------------------------
\* The worker settles an upload, now or long after the client gave up, and
\* again when the job is delivered again.
Settle(c) ==
  /\ upload[c].status \in {"uploaded"} \cup Settled
  /\ \E s \in Settled :
       upload' = [upload EXCEPT ![c] = [status |-> s, ever |-> @.ever \/ s = "processed"]]
  /\ UNCHANGED <<client, value, choices, page>>

\* The form's button is not disabled while the field uploads.
Save ==
  /\ page = "open"
  /\ page' = "saving"
  /\ UNCHANGED <<upload, client, value, choices>>

\* The post is saved and the page left, or the error shown.
Saved ==
  /\ page = "saving"
  /\ page' \in {"open", "saved"}
  /\ UNCHANGED <<upload, client, value, choices>>

Uploading == Presigned \/ Put \/ Confirmed \/ Poll \/ CallFails \/ Hangs

CoverNext ==
  \/ SelectFile \/ Remove \/ ManualConfirm
  \/ Uploading
  \/ \E c \in Choices : Settle(c)
  \/ Save \/ Saved

\* A call of the client ends, well or not, unless it is silent; nothing is asked
\* of the worker.
CoverSpec ==
  CoverInit /\ [][CoverNext]_coverVars /\ WF_coverVars(Presigned \/ Put \/ Confirmed) /\ WF_coverVars(Poll)

-----------------------------------------------------------------------------
\* A URL taken from an upload is that of an image the worker has processed.
UrlIsProcessed == value.url = "upload" => upload[value.choice].ever

\* A row that is processed has been; what the field shows is no later than the
\* last choice; an upload under way comes after what the field shows, and has
\* attempts left.
RowInv   == \A c \in Choices : upload[c].status = "processed" => upload[c].ever
FieldInv == value.choice <= choices /\ (value.url = "upload" => value.choice \in Choices)
ClientInv ==
  IsUploading =>
    /\ client.id \in value.choice..choices /\ client.id # NoUpload
    /\ client.attempt < MaxAttempts

\* What the run checks as one invariant; it is inductive.
CoverConsistent == CoverTypeOK /\ RowInv /\ FieldInv /\ ClientInv /\ UrlIsProcessed

\* The field shows the last thing the administrator did to it that had an end:
\* an upload that ends late never takes the place of a later upload, of an
\* external URL or of a removal, although the client cannot cancel an upload.
NewestWins == [][value'.choice >= value.choice]_coverVars

\* The administrator is not kept waiting by the worker, whatever becomes of it: the
\* attempts to poll end, and after a failure there is a button again, the
\* dropzone or the "Trocar" of a cover.  Only a call without an answer is waited
\* for for ever.
UploadEnds == IsUploading ~> (~IsUploading \/ client.silent)

\* A post is not saved without the cover that is being uploaded.
SavedWithCover == [][page = "open" /\ page' = "saving" => ~IsUploading]_coverVars
==============================================================================
