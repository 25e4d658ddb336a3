----------------------------- MODULE PostForm_proofs -----------------------------
(***************************************************************************)
(* Proofs about the page on which a post is written: its cover (module     *)
(* CoverField) and its assistant and form (module PostEditor), for every   *)
(* number of choices, polls, runs, topics and edits.                       *)
(***************************************************************************)
EXTENDS PostEditor, CoverField, SequenceTheorems, TLAPS

-----------------------------------------------------------------------------
(***************************************************************************)
(* The cover.  CoverConsistent is inductive as it is.                      *)
(***************************************************************************)

LEMMA CoverInitConsistent == CoverInit => CoverConsistent
BY CoverAssumption
   DEF CoverInit, CoverConsistent, CoverTypeOK, RowInv, FieldInv, ClientInv, UrlIsProcessed, Upload, Client,
       Value, Quiet, NoUpload, IsUploading, InProgress, Choices

-----------------------------------------------------------------------------
(***************************************************************************)
(* The administrator.                                                      *)
(***************************************************************************)

LEMMA ChoosesConsistent ==
  ASSUME CoverConsistent, SelectFile \/ Remove \/ ManualConfirm
  PROVE  CoverConsistent' /\ value'.choice >= value.choice
<1> USE CoverAssumption
<1>0. choices' = choices + 1 /\ choices' \in Choices /\ choices \in Nat /\ value \in Value
  BY DEF SelectFile, Remove, ManualConfirm, Choose, CoverConsistent, CoverTypeOK, Choices
<1>1. CASE SelectFile
  <2>1. client' = [stage |-> "presigning", id |-> choices + 1, attempt |-> 0, silent |-> FALSE]
        /\ UNCHANGED <<upload, value, page>>
    BY <1>0, <1>1 DEF SelectFile, Quiet
  <2> QED
    BY <1>0, <2>1
       DEF CoverConsistent, CoverTypeOK, RowInv, FieldInv, ClientInv, UrlIsProcessed, Client, Value,
           InProgress, IsUploading, NoUpload, Choices
<1>2. CASE Remove
  <2>1. client' = Quiet /\ value' = [url |-> "none", choice |-> choices + 1]
        /\ UNCHANGED <<upload, page>>
    BY <1>0, <1>2 DEF Remove
  <2> QED
    BY <1>0, <2>1
       DEF CoverConsistent, CoverTypeOK, RowInv, FieldInv, ClientInv, UrlIsProcessed, Client, Value,
           InProgress, IsUploading, NoUpload, Choices, Quiet
<1>3. CASE ManualConfirm
  <2>1. ~IsUploading /\ value' = [url |-> "external", choice |-> choices + 1]
        /\ UNCHANGED <<upload, client, page>>
    BY <1>0, <1>3 DEF ManualConfirm
  <2> QED
    BY <1>0, <2>1
       DEF CoverConsistent, CoverTypeOK, RowInv, FieldInv, ClientInv, UrlIsProcessed, Value,
           InProgress, IsUploading, Choices
<1> QED
  BY <1>1, <1>2, <1>3

-----------------------------------------------------------------------------
(***************************************************************************)
(* The hook.  Its steps move the stage or end in silence, and before the   *)
(* upload is confirmed they also write the row.                            *)
(***************************************************************************)

LEMMA UploadRowConsistent ==
  ASSUME CoverConsistent, IsUploading,
         client' \in Client, client'.id = client.id, client'.attempt = client.attempt,
         NEW status \in {"pending", "uploaded"},
         Row(status) \/ UNCHANGED upload, UNCHANGED <<value, choices, page>>
  PROVE  CoverConsistent' /\ value'.choice >= value.choice
<1> USE CoverAssumption
<1>1. client.id \in Choices /\ client \in Client /\ value \in Value /\ choices \in Nat
  BY DEF CoverConsistent, CoverTypeOK, ClientInv, NoUpload, Choices, Client
<1>2. client' \in Client /\ client'.id = client.id /\ client'.attempt = client.attempt
  OBVIOUS
<1>3. upload' \in [Choices -> Upload]
  BY <1>1 DEF Row, CoverConsistent, CoverTypeOK, Upload
<1>4. \A c \in Choices :
        upload'[c].ever = upload[c].ever /\ (upload'[c].status = "processed" => upload[c].status = "processed")
  BY <1>1 DEF Row, CoverConsistent, CoverTypeOK, Upload
<1>5. RowInv' /\ UrlIsProcessed'
  BY <1>4 DEF CoverConsistent, RowInv, UrlIsProcessed, FieldInv, Choices
<1>6. FieldInv' /\ ClientInv'
  BY <1>2 DEF CoverConsistent, FieldInv, ClientInv, IsUploading, Choices
<1>7. CoverTypeOK'
  BY <1>2, <1>3 DEF CoverConsistent, CoverTypeOK, Choices
<1> QED
  BY <1>1, <1>5, <1>6, <1>7 DEF CoverConsistent, Value

LEMMA PollConsistent ==
  ASSUME CoverConsistent, Poll
  PROVE  CoverConsistent' /\ value'.choice >= value.choice
<1> USE CoverAssumption
<1>1. client.id \in Choices /\ client \in Client /\ value \in Value /\ choices \in 0..MaxChoices
      /\ client.id >= value.choice /\ client.id <= choices /\ client.attempt < MaxAttempts
  BY DEF Poll, Awaits, IsUploading, InProgress, CoverConsistent, CoverTypeOK, ClientInv, NoUpload, Choices, Client, Value
<1>2. PICK stage \in {"done", "failed", "timeout", "processing"} :
        /\ client' = [client EXCEPT !.attempt = @ + 1, !.stage = stage]
        /\ stage = "processing" => client.attempt + 1 # MaxAttempts
  <2>1. CASE upload[client.id].status = "processed"
    BY <2>1 DEF Poll
  <2>2. CASE upload[client.id].status = "failed"
    BY <2>2 DEF Poll
  <2>3. CASE upload[client.id].status \notin {"processed", "failed"}
    BY <2>3 DEF Poll
  <2> QED
    BY <2>1, <2>2, <2>3
<1>3. client' \in Client /\ client'.id = client.id /\ client'.attempt = client.attempt + 1
      /\ (client'.stage \in InProgress => client'.attempt # MaxAttempts)
  <2>1. client.id \in Choices \cup {NoUpload} /\ client.attempt + 1 \in 0..MaxAttempts
        /\ client.silent \in BOOLEAN
    BY <1>1 DEF Client
  <2>2. client' = [stage |-> stage, id |-> client.id, attempt |-> client.attempt + 1,
                   silent |-> client.silent]
    BY <1>1, <1>2 DEF Client
  <2>3. client' \in Client
    BY <2>1, <2>2 DEF Client, InProgress, Retryable
  <2> QED
    BY <1>2, <2>2, <2>3 DEF InProgress
<1>4. \/ value' = value
      \/ value' = [url |-> "upload", choice |-> client.id] /\ upload[client.id].ever
  BY <1>1 DEF Poll, CoverConsistent, RowInv
<1>5. UNCHANGED <<upload, choices, page>>
  BY DEF Poll
<1>6. value' \in Value /\ value'.choice >= value.choice /\ value'.choice <= client.id
  BY <1>1, <1>4 DEF Value, Choices
<1>7. CoverTypeOK' /\ RowInv'
  BY <1>3, <1>5, <1>6 DEF CoverConsistent, CoverTypeOK, RowInv, Choices
<1>8. FieldInv' /\ UrlIsProcessed'
  BY <1>1, <1>4, <1>5 DEF CoverConsistent, FieldInv, UrlIsProcessed, Choices
<1>9. ClientInv'
  BY <1>1, <1>3, <1>5, <1>6 DEF ClientInv, IsUploading, NoUpload, Choices, Client, Value
<1> QED
  BY <1>6, <1>7, <1>8, <1>9 DEF CoverConsistent

LEMMA UploadingConsistent ==
  ASSUME CoverConsistent, Uploading
  PROVE  CoverConsistent' /\ value'.choice >= value.choice
<1> DEFINE Kept ==
      /\ client' \in Client
      /\ client'.id = client.id
      /\ client'.attempt = client.attempt
<1>0. client \in Client
  BY DEF CoverConsistent, CoverTypeOK
<1>1. ASSUME NEW stage \in InProgress \cup Retryable, Goes(stage)
      PROVE  Kept
  BY <1>0, <1>1 DEF Goes, Client
<1>2. CASE Presigned
  <2>1. Kept
    BY <1>1, <1>2 DEF Presigned, InProgress
  <2> QED
    BY <1>2, <2>1, UploadRowConsistent DEF Presigned, Awaits, IsUploading, InProgress
<1>3. CASE Put
  <2>1. Kept
    BY <1>1, <1>3 DEF Put, InProgress
  <2> QED
    BY <1>3, <2>1, UploadRowConsistent DEF Put, Awaits, IsUploading, InProgress
<1>4. CASE Confirmed
  <2>1. Kept
    BY <1>1, <1>4 DEF Confirmed, InProgress
  <2> QED
    BY <1>4, <2>1, UploadRowConsistent DEF Confirmed, Awaits, IsUploading, InProgress
<1>5. CASE CallFails
  <2>1. Kept
    BY <1>1, <1>5 DEF CallFails, Retryable
  <2> QED
    BY <1>5, <2>1, UploadRowConsistent DEF CallFails, DoneOrNot
<1>6. CASE Hangs
  <2>1. Kept
    BY <1>0, <1>6 DEF Hangs, Client
  <2> QED
    BY <1>6, <2>1, UploadRowConsistent DEF Hangs, DoneOrNot
<1>7. CASE Poll
  BY <1>7, PollConsistent
<1> QED
  BY <1>2, <1>3, <1>4, <1>5, <1>6, <1>7 DEF Uploading

-----------------------------------------------------------------------------
(***************************************************************************)
(* The worker and the form.                                                *)
(***************************************************************************)

LEMMA SettleConsistent ==
  ASSUME CoverConsistent, NEW c \in Choices, Settle(c)
  PROVE  CoverConsistent' /\ value' = value
<1> USE CoverAssumption
<1>1. PICK s \in Settled :
        upload' = [upload EXCEPT ![c] = [status |-> s, ever |-> @.ever \/ s = "processed"]]
  BY DEF Settle
<1>2. UNCHANGED <<client, value, choices, page>>
  BY DEF Settle
<1>3. upload' \in [Choices -> Upload]
  BY <1>1 DEF CoverConsistent, CoverTypeOK, Upload, Settled
<1>4. \A d \in Choices : upload[d].ever => upload'[d].ever
  BY <1>1 DEF CoverConsistent, CoverTypeOK, Upload
<1>5. RowInv'
  BY <1>1 DEF CoverConsistent, CoverTypeOK, RowInv, Upload, Choices
<1>6. UrlIsProcessed' /\ FieldInv' /\ ClientInv'
  BY <1>2, <1>4 DEF CoverConsistent, UrlIsProcessed, FieldInv, ClientInv, IsUploading, Choices
<1> QED
  BY <1>2, <1>3, <1>5, <1>6 DEF CoverConsistent, CoverTypeOK, Choices

LEMMA FieldFormConsistent ==
  ASSUME CoverConsistent, Save \/ Saved \/ UNCHANGED coverVars
  PROVE  CoverConsistent' /\ value' = value
<1>1. UNCHANGED <<upload, client, value, choices>> /\ page' \in {"open", "saving", "saved"}
  BY DEF Save, Saved, coverVars, CoverConsistent, CoverTypeOK
<1> QED
  BY <1>1 DEF CoverConsistent, CoverTypeOK, RowInv, FieldInv, ClientInv, UrlIsProcessed, IsUploading, Choices

LEMMA CoverNextConsistent ==
  ASSUME CoverConsistent, [CoverNext]_coverVars
  PROVE  CoverConsistent' /\ value'.choice >= value.choice
<1>1. value.choice \in Int
  BY DEF CoverConsistent, CoverTypeOK, Value
<1>2. CASE SelectFile \/ Remove \/ ManualConfirm
  BY <1>2, ChoosesConsistent
<1>3. CASE Uploading
  BY <1>3, UploadingConsistent
<1>4. CASE \E c \in Choices : Settle(c)
  BY <1>1, <1>4, SettleConsistent
<1>5. CASE Save \/ Saved \/ UNCHANGED coverVars
  BY <1>1, <1>5, FieldFormConsistent
<1> QED
  BY <1>2, <1>3, <1>4, <1>5 DEF CoverNext

\* The invariant, for every number of choices: in particular, a URL taken from
\* an upload is that of a processed image, and an upload under way is a later
\* choice than what the field shows.
THEOREM CoverConsistentAlways == CoverSpec => []CoverConsistent
<1>1. CoverConsistent /\ [CoverNext]_coverVars => CoverConsistent'
  BY CoverNextConsistent
<1> QED
  BY CoverInitConsistent, <1>1, PTL DEF CoverSpec

\* No upload that ends late takes the place of a later choice, however many
\* there were: Remove, the URL and the dropzone are not offered meanwhile.
THEOREM NewestWinsAlways == CoverSpec => NewestWins
<1>1. CoverConsistent /\ [CoverNext]_coverVars => [value'.choice >= value.choice]_coverVars
  BY CoverNextConsistent
<1> QED
  BY CoverConsistentAlways, <1>1, PTL DEF CoverSpec, NewestWins

-----------------------------------------------------------------------------
(***************************************************************************)
(* The assistant.  With RejectedIsTold, Consistent is inductive: it knows  *)
(* that a hook waits for the latest run only, and what the drafts since the *)
(* angles were cleared have become.                                        *)
(***************************************************************************)

EditorInv == Consistent /\ RejectedIsTold

LEMMA EditorTypes ==
  ASSUME EditorInv
  PROVE  /\ requests \in Seq(Body) /\ run \in Seq(Run) /\ Len(run) = Latest
         /\ Latest \in Nat /\ Latest <= MaxStarts
         /\ \A m \in 1..Latest : requests[m] \in Body /\ run[m] \in Run
         /\ wizard \in Wizard /\ told \in [Kinds -> SUBSET Topics] /\ hook \in [Kinds -> Hook]
<1>1. /\ requests \in Seq(Body) /\ run \in Seq(Run) /\ Len(run) = Len(requests) /\ Len(requests) \in 0..MaxStarts
      /\ wizard \in Wizard /\ told \in [Kinds -> SUBSET Topics] /\ hook \in [Kinds -> Hook]
  BY DEF EditorInv, Consistent, TypeOK, ClientTypeOK
<1>2. Len(requests) \in Nat /\ Len(requests) <= MaxStarts
  BY <1>1, LenProperties, ClientAssumption
<1>3. \A m \in 1..Len(requests) : requests[m] \in Body /\ run[m] \in Run
  BY <1>1, ElementOfSeq
<1> QED  BY <1>1, <1>2, <1>3 DEF Latest

LEMMA KindsAre == Kinds = {"topics", "draft"} /\ WaitingStep("topics") = "generatingTopics"
                  /\ WaitingStep("draft") = "generatingDraft"
BY DEF Kinds, WaitingStep

\* A page that waits for nothing has nothing under way.
LEMMA NothingPending ==
  ASSUME EditorInv, NEW k \in Kinds, wizard.step # WaitingStep(k)
  PROVE  /\ ~IsPending(k) /\ hook[k].creating = {}
         /\ ~(hook[k].runId # NoStart /\ hook[k].seen = "pending")
BY DEF EditorInv, Consistent, PendingInv, IsPending

\* What is done to the form alone.
LEMMA FormKeeps ==
  ASSUME EditorInv, UNCHANGED <<clientVars, wizardVars>>, form' \in Form,
         resolving' \in SUBSET [draft : Starts, field : {"tagIds", "all"}],
         saving' \in {"open", "saving", "left"}, edits' \in 0..MaxEdits
  PROVE  EditorInv'
<1> USE DEF clientVars, wizardVars, EditorInv, Consistent
<1>1. TypeOK'
  BY DEF TypeOK, ClientTypeOK
<1>2. ShownIsAsked' /\ PendingInv' /\ AskedInv' /\ SinceInv' /\ RejectedIsTold'
  BY DEF ShownIsAsked, PendingInv, AskedInv, SinceInv, RejectedIsTold, Latest, IsPending
<1> QED  BY <1>1, <1>2

\* What the service does: a run that has ended stays as it is.
LEMMA RunsKeep ==
  ASSUME EditorInv, UNCHANGED <<requests, wizardVars, formVars>>, hook' \in [Kinds -> Hook], PendingInv',
         hook'["draft"].onSettled = hook["draft"].onSettled, hook'["draft"].onError = hook["draft"].onError,
         run' \in Seq(Run), Len(run') = Len(run),
         \A m \in 1..Latest : run[m].status \in Ended => run'[m] = run[m]
  PROVE  EditorInv'
<1>1. UNCHANGED <<requests, wizard, category, told, since, resolving, form, saving, edits>> /\ Latest' = Latest
  BY DEF wizardVars, formVars, Latest
<1>2. TypeOK'
  BY <1>1 DEF EditorInv, Consistent, TypeOK, ClientTypeOK
<1>3. ShownIsAsked' /\ AskedInv'
  BY <1>1 DEF EditorInv, Consistent, ShownIsAsked, AskedInv
<1>4. SinceInv
  BY DEF EditorInv, Consistent
<1>5. SinceInv'
  BY <1>1, <1>4 DEF SinceInv
<1>6. RejectedIsTold'
  <2>1. SUFFICES ASSUME NEW m \in since, NEW n \in since, m < n, run'[m].status = "completed",
                        requests[m].topic = requests[n].topic
                 PROVE  requests[m].topic \in requests[n].told
    BY <1>1 DEF RejectedIsTold
  <2>2. m \in 1..Latest /\ n \in 1..Latest /\ Latest \in Nat
    BY <1>4, EditorTypes DEF SinceInv
  <2>3. m # Latest
    BY <2>1, <2>2
  <2>4. run'[m] = run[m]
    BY <1>4, <2>2, <2>3 DEF SinceInv
  <2> QED  BY <2>1, <2>4 DEF EditorInv, RejectedIsTold
<1> QED  BY <1>2, <1>3, <1>5, <1>6 DEF EditorInv, Consistent

LEMMA CreatedKeeps ==
  ASSUME EditorInv, UNCHANGED <<wizardVars, formVars>>, NEW n \in 1..Len(run), Created(n) \/ RunEnds(n)
  PROVE  EditorInv'
<1>1. run \in Seq(Run) /\ Len(run) = Latest /\ run[n] \in Run /\ UNCHANGED <<requests, hook>>
  BY EditorTypes DEF Created, RunEnds
<1>2. PICK e \in Run : run' = [run EXCEPT ![n] = e]
  <2>1. CASE Created(n)
    <3>1. [run[n] EXCEPT !.status = "active"] \in Run
      BY <1>1 DEF Run
    <3>2. run' = [run EXCEPT ![n] = [run[n] EXCEPT !.status = "active"]]
      BY <2>1 DEF Created
    <3> QED  BY <3>1, <3>2
  <2>2. CASE RunEnds(n)
    BY <2>2 DEF RunEnds, Run
  <2> QED  BY <2>1, <2>2
<1>3. run[n].status \notin Ended
  BY DEF Created, RunEnds, Ended
<1>4. run' \in Seq(Run) /\ Len(run') = Len(run) /\ \A m \in 1..Len(run) : run'[m] = IF m = n THEN e ELSE run[m]
  BY <1>1, <1>2, ExceptSeq
<1>5. hook' \in [Kinds -> Hook] /\ PendingInv'
  BY <1>1, EditorTypes DEF EditorInv, Consistent, PendingInv, IsPending, Latest, wizardVars
<1> QED  BY <1>1, <1>3, <1>4, <1>5, RunsKeep

LEMMA AnsweredKeeps ==
  ASSUME EditorInv, UNCHANGED <<wizardVars, formVars>>, NEW k \in Kinds, Answered(k)
  PROVE  EditorInv'
<1>1. PICK n \in hook[k].creating :
        /\ hook' = [hook EXCEPT ![k].creating = @ \ {n}, ![k].runId = n, ![k].seen = "pending"]
        /\ UNCHANGED <<requests, run>>
  BY DEF Answered
<1>2. hook[k].creating = {n} /\ n = Latest /\ wizard.step = WaitingStep(k)
  BY <1>1 DEF EditorInv, Consistent, PendingInv, IsPending
<1>3. hook \in [Kinds -> Hook] /\ n \in Starts
  BY <1>1, EditorTypes DEF Hook
<1>4. /\ hook' \in [Kinds -> Hook]
      /\ hook'[k].creating = {} /\ hook'[k].runId = n
      /\ \A j \in Kinds : hook'[j].onSettled = hook[j].onSettled /\ hook'[j].onError = hook[j].onError
      /\ \A j \in Kinds \ {k} : hook'[j] = hook[j]
  <2> DEFINE h == [hook[k] EXCEPT !.creating = @ \ {n}, !.runId = n, !.seen = "pending"]
  <2>1. hook[k] \in Hook
    BY <1>3
  <2>2. h \in Hook /\ h.creating = {} /\ h.runId = n
        /\ h.onSettled = hook[k].onSettled /\ h.onError = hook[k].onError
    BY <1>2, <1>3, <2>1 DEF Hook
  <2>3. hook' = [hook EXCEPT ![k] = h]
    BY <1>1, <1>3, <2>1 DEF Hook
  <2> HIDE DEF h
  <2> QED
    BY <1>3, <2>2, <2>3
<1>5. Latest' = Latest /\ wizard' = wizard
  BY <1>1 DEF Latest, wizardVars
<1>6. PendingInv'
  BY <1>2, <1>4, <1>5 DEF EditorInv, Consistent, PendingInv, IsPending
<1>7. run' \in Seq(Run)
  BY <1>1, EditorTypes
<1> QED  BY <1>1, <1>4, <1>6, <1>7, KindsAre, RunsKeep

LEMMA RejectedKeeps ==
  ASSUME EditorInv, UNCHANGED <<wizardVars, formVars>>, NEW k \in Kinds, Rejected(k)
  PROVE  EditorInv'
<1>1. PICK n \in hook[k].creating :
        /\ hook' = [hook EXCEPT ![k].creating = @ \ {n}]
        /\ run' = IF run[n].status = "sent" THEN [run EXCEPT ![n].status = "never"] ELSE run
        /\ UNCHANGED requests
  BY DEF Rejected
<1>2. hook[k].creating = {n} /\ n = Latest /\ wizard.step = WaitingStep(k)
  BY <1>1 DEF EditorInv, Consistent, PendingInv, IsPending
<1>3. hook \in [Kinds -> Hook] /\ n \in Starts
  BY <1>1, EditorTypes DEF Hook
<1>4. /\ hook' \in [Kinds -> Hook]
      /\ hook'[k].creating = {} /\ hook'[k].runId = hook[k].runId /\ hook'[k].seen = hook[k].seen
      /\ \A j \in Kinds : hook'[j].onSettled = hook[j].onSettled /\ hook'[j].onError = hook[j].onError
      /\ \A j \in Kinds \ {k} : hook'[j] = hook[j]
  <2> DEFINE h == [hook[k] EXCEPT !.creating = @ \ {n}]
  <2>1. hook[k] \in Hook
    BY <1>3
  <2>2. h \in Hook /\ h.creating = {} /\ h.runId = hook[k].runId /\ h.seen = hook[k].seen
        /\ h.onSettled = hook[k].onSettled /\ h.onError = hook[k].onError
    BY <1>2, <1>3, <2>1 DEF Hook
  <2>3. hook' = [hook EXCEPT ![k] = h]
    BY <1>1, <1>3, <2>1 DEF Hook
  <2> HIDE DEF h
  <2> QED
    BY <1>3, <2>2, <2>3
<1>5. Latest' = Latest /\ wizard' = wizard
  BY <1>1 DEF Latest, wizardVars
<1>6. PendingInv'
  BY <1>2, <1>4, <1>5 DEF EditorInv, Consistent, PendingInv, IsPending
<1>7. n \in 1..Len(run) /\ run \in Seq(Run) /\ run[n] \in Run
  BY <1>2, <1>3, EditorTypes DEF Starts
<1>8. /\ run' \in Seq(Run) /\ Len(run') = Len(run)
      /\ \A m \in 1..Latest : run[m].status \in Ended => run'[m] = run[m]
  <2>1. CASE run[n].status = "sent"
    <3> DEFINE e == [run[n] EXCEPT !.status = "never"]
    <3>1. e \in Run
      BY <1>7 DEF Run
    <3>2. run' = [run EXCEPT ![n] = e]
      BY <1>1, <2>1
    <3> HIDE DEF e
    <3>3. /\ run' \in Seq(Run) /\ Len(run') = Len(run)
          /\ \A m \in 1..Len(run) : run'[m] = IF m = n THEN e ELSE run[m]
      BY <1>7, <3>1, <3>2, ExceptSeq
    <3>4. "sent" \notin Ended /\ Len(run) = Latest
      BY EditorTypes DEF Ended
    <3> QED  BY <2>1, <3>3, <3>4
  <2>2. CASE run[n].status # "sent"
    BY <1>1, <1>7, <2>2
  <2> QED  BY <2>1, <2>2
<1> QED  BY <1>1, <1>4, <1>6, <1>8, KindsAre, RunsKeep

\* A start while nothing is under way.
LEMMA StartFacts ==
  ASSUME EditorInv, NEW k \in Kinds, NEW body \in Body, Start(k, body),
         \A j \in Kinds : wizard.step # WaitingStep(j), wizard'.step = WaitingStep(k)
  PROVE  /\ Latest' = Latest + 1 /\ Latest' \in Starts /\ ClientTypeOK' /\ requests' \in Seq(Body)
         /\ \A m \in 1..Latest : requests'[m] = requests[m] /\ run'[m] = run[m]
         /\ requests'[Latest'] = body
         /\ hook'[k].onSettled = Latest' /\ hook'[k].onError = Latest'
         /\ PendingInv'
<1> DEFINE n == Latest + 1
           sent == [status |-> "sent", topics |-> {}]
<1>1. /\ n \in Starts /\ requests' = Append(requests, body) /\ run' = Append(run, sent)
      /\ hook' = [hook EXCEPT ![k].creating = @ \cup {n}, ![k].onSettled = n, ![k].onError = n]
  BY DEF Start, Latest
<1>2. /\ requests \in Seq(Body) /\ run \in Seq(Run) /\ Len(run) = Latest /\ Len(requests) = Latest
      /\ Latest \in Nat /\ hook \in [Kinds -> Hook]
  BY EditorTypes DEF Latest
<1>3. sent \in Run
  BY DEF Run
<1>4. /\ requests' \in Seq(Body) /\ Len(requests') = n /\ requests'[n] = body
      /\ \A m \in 1..Latest : requests'[m] = requests[m]
  BY <1>1, <1>2
<1> HIDE DEF sent
<1>5. /\ run' \in Seq(Run) /\ Len(run') = n
      /\ \A m \in 1..Latest : run'[m] = run[m]
  BY <1>1, <1>2, <1>3
<1>6. \A j \in Kinds : ~IsPending(j) /\ hook[j].creating = {}
                       /\ ~(hook[j].runId # NoStart /\ hook[j].seen = "pending")
  BY NothingPending
<1>7. /\ hook' \in [Kinds -> Hook] /\ hook'[k].creating = {n}
      /\ hook'[k].runId = hook[k].runId /\ hook'[k].seen = hook[k].seen
      /\ hook'[k].onSettled = n /\ hook'[k].onError = n
      /\ \A j \in Kinds \ {k} : hook'[j] = hook[j]
  <2> DEFINE h == [hook[k] EXCEPT !.creating = @ \cup {n}, !.onSettled = n, !.onError = n]
  <2>1. hook[k] \in Hook
    BY <1>2
  <2>2. /\ h \in Hook /\ h.creating = {n} /\ h.runId = hook[k].runId /\ h.seen = hook[k].seen
        /\ h.onSettled = n /\ h.onError = n
    BY <1>1, <1>6, <2>1 DEF Hook
  <2>3. hook' = [hook EXCEPT ![k] = h]
    BY <1>1, <1>2, <2>1 DEF Hook
  <2> HIDE DEF h
  <2> QED
    BY <1>2, <2>2, <2>3
<1>8. n \in 0..MaxStarts
  BY <1>1, ClientAssumption DEF Starts
<1>9. ClientTypeOK'
  BY <1>4, <1>5, <1>7, <1>8 DEF ClientTypeOK
<1>10. Latest' = n
  BY <1>4 DEF Latest
<1>11. PendingInv'
  BY <1>6, <1>7, <1>10 DEF PendingInv, IsPending
<1> QED  BY <1>1, <1>4, <1>5, <1>7, <1>9, <1>10, <1>11

\* Topics are asked for from a page that shows no draft and waits for none.
LEMMA AskTopicsKeeps ==
  ASSUME EditorInv, NEW excluded \in SUBSET Topics, AskForTopics(excluded),
         wizard.step \notin {"generatingTopics", "generatingDraft", "draftReady"},
         told' \in [Kinds -> SUBSET Topics], told'["draft"] = told["draft"]
  PROVE  EditorInv'
<1> DEFINE body == [kind |-> "topics", topic |-> NoTopic, told |-> excluded]
<1>1. body \in Body
  BY DEF Body, Kinds
<1>2. /\ wizard' = [Idle EXCEPT !.step = "generatingTopics"] /\ Start("topics", body)
      /\ UNCHANGED <<category, since, formVars>>
  BY DEF AskForTopics
<1> HIDE DEF body
<1>3. wizard' \in Wizard /\ wizard'.step = "generatingTopics"
  BY <1>2 DEF Wizard, Idle, Steps
<1>4. "topics" \in Kinds /\ \A j \in Kinds : wizard.step # WaitingStep(j)
  BY KindsAre
<1>5. /\ Latest' = Latest + 1 /\ Latest' \in Starts /\ ClientTypeOK' /\ requests' \in Seq(Body)
      /\ \A m \in 1..Latest : requests'[m] = requests[m] /\ run'[m] = run[m]
      /\ PendingInv'
  BY <1>1, <1>2, <1>3, <1>4, KindsAre, StartFacts
<1>6. TypeOK'
  BY <1>2, <1>3, <1>5 DEF TypeOK, formVars, EditorInv, Consistent
<1>7. ShownIsAsked' /\ AskedInv'
  BY <1>3 DEF ShownIsAsked, AskedInv
<1>8. since' = since /\ Latest \in Nat /\ SinceInv
  BY <1>2, EditorTypes DEF EditorInv, Consistent
<1>9. SinceInv'
  BY <1>5, <1>8 DEF SinceInv
<1>10. RejectedIsTold'
  BY <1>5, <1>8 DEF SinceInv, RejectedIsTold, EditorInv
<1> QED  BY <1>5, <1>6, <1>7, <1>9, <1>10 DEF EditorInv, Consistent

\* A draft is asked for with every angle that is to be told.
LEMMA AskDraftKeeps ==
  ASSUME EditorInv, NEW topic \in Topics, NEW rejected \in SUBSET Topics, AskForDraft(topic, rejected),
         wizard.step \notin {"generatingTopics", "generatingDraft"},
         told' \in [Kinds -> SUBSET Topics], told'["draft"] = rejected,
         \A m \in since : run[m].status = "completed" => requests[m].topic \in rejected
  PROVE  EditorInv'
<1> DEFINE body == [kind |-> "draft", topic |-> topic, told |-> rejected]
<1>1. body \in Body /\ body.topic = topic /\ body.told = rejected
  BY DEF Body, Kinds
<1>2. /\ wizard' = [wizard EXCEPT !.step = "generatingDraft", !.selected = topic, !.draft = NoStart]
      /\ Start("draft", body) /\ since' = since \cup {Latest'}
      /\ UNCHANGED <<category, formVars>>
  BY DEF AskForDraft, Latest
<1> HIDE DEF body
<1>3. wizard' \in Wizard /\ wizard'.step = "generatingDraft"
  BY <1>2, EditorTypes DEF Wizard, Steps
<1>4. "draft" \in Kinds /\ \A j \in Kinds : wizard.step # WaitingStep(j)
  BY KindsAre
<1>5. /\ Latest' = Latest + 1 /\ Latest' \in Starts /\ ClientTypeOK' /\ requests' \in Seq(Body)
      /\ \A m \in 1..Latest : requests'[m] = requests[m] /\ run'[m] = run[m]
      /\ requests'[Latest'] = body
      /\ hook'["draft"].onSettled = Latest' /\ hook'["draft"].onError = Latest'
      /\ PendingInv'
  BY <1>1, <1>2, <1>3, <1>4, KindsAre, StartFacts
<1>6. Latest \in Nat /\ SinceInv /\ since \subseteq 1..Latest
  BY EditorTypes DEF EditorInv, Consistent, SinceInv
<1>7. Latest' \in Starts /\ since' \in SUBSET Starts
  BY <1>2, <1>5 DEF EditorInv, Consistent, TypeOK
<1>8. TypeOK'
  BY <1>2, <1>3, <1>5, <1>7 DEF TypeOK, formVars, EditorInv, Consistent
<1>9. ShownIsAsked' /\ AskedInv'
  BY <1>1, <1>2, <1>3, <1>5, EditorAssumption DEF ShownIsAsked, AskedInv
<1>10. SinceInv'
  <2>1. since' \subseteq 1..Latest'
    BY <1>2, <1>5, <1>6
  <2>2. ASSUME NEW m \in since, m # Latest'
        PROVE  run'[m].status \in Ended
               /\ (run'[m].status # "completed" \/ requests'[m].topic \in told'["draft"])
    BY <1>5, <1>6, <2>2 DEF SinceInv
  <2> QED  BY <1>2, <1>3, <2>1, <2>2 DEF SinceInv
<1>11. RejectedIsTold'
  <2>1. SUFFICES ASSUME NEW m \in since', NEW n \in since', m < n, run'[m].status = "completed",
                        requests'[m].topic = requests'[n].topic
                 PROVE  requests'[m].topic \in requests'[n].told
    BY DEF RejectedIsTold
  <2>2. m \in since /\ m \in 1..Latest
    BY <1>2, <1>5, <1>6, <2>1
  <2>3. CASE n = Latest'
    BY <1>1, <1>5, <2>1, <2>2, <2>3
  <2>4. CASE n \in since
    BY <1>5, <1>6, <2>1, <2>2, <2>4 DEF EditorInv, RejectedIsTold
  <2> QED  BY <1>2, <2>3, <2>4
<1> QED  BY <1>5, <1>8, <1>9, <1>10, <1>11 DEF EditorInv, Consistent

\* A poll that answers is one of the latest run.
LEMMA PollFacts ==
  ASSUME EditorInv, NEW k \in Kinds, CanPoll(k), Polled(k), UNCHANGED requests
  PROVE  /\ wizard.step = WaitingStep(k) /\ hook[k].runId = Latest /\ Latest \in 1..Latest
         /\ run[Latest].status \in Ended /\ Latest \in Starts
         /\ hook' \in [Kinds -> Hook] /\ PendingInv'
<1>1. hook[k].runId = Latest /\ hook[k].creating = {} /\ wizard.step = WaitingStep(k)
      /\ Latest # NoStart /\ run[Latest].status \in Ended
  BY DEF CanPoll, EditorInv, Consistent, PendingInv, IsPending
<1>2. hook \in [Kinds -> Hook] /\ Latest \in Nat
  BY EditorTypes
<1>3. Latest \in Starts /\ Latest \in 1..Latest
  BY <1>1, <1>2 DEF Hook, NoStart
<1> DEFINE seen == Status(k)
           onSettled == IF Status(k) = "failed" THEN hook[k].onSettled ELSE NoStart
           onError == IF Status(k) = "failed" THEN NoStart ELSE hook[k].onError
<1>4. hook' = [hook EXCEPT ![k].seen = seen, ![k].onSettled = onSettled, ![k].onError = onError]
  BY <1>2 DEF Polled, Hook
<1>5. seen \in Ended /\ onSettled \in Starts \cup {NoStart} /\ onError \in Starts \cup {NoStart}
  BY <1>1, <1>2 DEF Status, Hook
<1> HIDE DEF seen, onSettled, onError
<1>6. /\ hook' \in [Kinds -> Hook] /\ hook'[k].creating = {} /\ hook'[k].seen = seen
      /\ \A j \in Kinds \ {k} : hook'[j] = hook[j]
  <2> DEFINE h == [hook[k] EXCEPT !.seen = seen, !.onSettled = onSettled, !.onError = onError]
  <2>1. hook[k] \in Hook
    BY <1>2
  <2>2. h \in Hook /\ h.creating = {} /\ h.seen = seen
    BY <1>1, <1>5, <2>1 DEF Hook
  <2>3. hook' = [hook EXCEPT ![k] = h]
    BY <1>2, <1>4, <2>1 DEF Hook
  <2> HIDE DEF h
  <2> QED
    BY <1>2, <2>2, <2>3
<1>7. seen # "pending"
  BY <1>5 DEF Ended
<1>8. \A j \in Kinds \ {k} : hook[j].creating = {} /\ ~(hook[j].runId # NoStart /\ hook[j].seen = "pending")
  BY <1>1, KindsAre, NothingPending
<1>9. PendingInv'
  BY <1>6, <1>7, <1>8 DEF PendingInv, IsPending
<1> QED  BY <1>1, <1>3, <1>6, <1>9

LEMMA TopicsEndKeeps ==
  ASSUME EditorInv, TopicsEnd
  PROVE  EditorInv'
<1>1. /\ CanPoll("topics") /\ Polled("topics") /\ ShowTopics /\ "topics" \in Kinds
      /\ UNCHANGED <<requests, run, category, told, since, formVars>>
  BY KindsAre DEF TopicsEnd
<1>2. /\ wizard.step = "generatingTopics" /\ hook["topics"].runId = Latest /\ Latest \in 1..Latest
      /\ hook' \in [Kinds -> Hook] /\ PendingInv'
  BY <1>1, KindsAre, PollFacts
<1>3. wizard' \in Wizard /\ wizard'.step \in {"generatingTopics", "topicsReady", "error"}
  <2>1. run[Latest].topics \subseteq Topics /\ wizard \in Wizard
    BY <1>2, EditorTypes DEF Run
  <2>2. [Idle EXCEPT !.step = "error"] \in Wizard /\ [Idle EXCEPT !.step = "error"].step = "error"
    BY DEF Wizard, Idle, Steps
  <2> DEFINE ready == [Idle EXCEPT !.step = "topicsReady", !.topics = run[hook["topics"].runId].topics,
                                   !.category = category]
  <2>3. ready \in Wizard /\ ready.step = "topicsReady"
    BY <1>2, <2>1 DEF Wizard, Idle, Steps, EditorInv, Consistent, TypeOK
  <2>4. wizard' = wizard \/ wizard' = ready \/ wizard' = [Idle EXCEPT !.step = "error"]
    BY <1>1 DEF ShowTopics
  <2> HIDE DEF ready
  <2> QED  BY <1>2, <2>1, <2>2, <2>3, <2>4
<1>4. TypeOK'
  BY <1>1, <1>2, <1>3 DEF TypeOK, ClientTypeOK, formVars, EditorInv, Consistent
<1>5. ShownIsAsked' /\ AskedInv'
  BY <1>3 DEF ShownIsAsked, AskedInv
<1>6. Latest' = Latest
  BY <1>1 DEF Latest
<1>7. SinceInv' /\ RejectedIsTold'
  BY <1>1, <1>2, <1>3, <1>6 DEF SinceInv, RejectedIsTold, EditorInv, Consistent
<1> QED  BY <1>2, <1>4, <1>5, <1>7 DEF EditorInv, Consistent

LEMMA DraftEndsKeeps ==
  ASSUME EditorInv, DraftEnds
  PROVE  EditorInv'
<1>1. /\ CanPoll("draft") /\ Polled("draft") /\ ShowDraft /\ "draft" \in Kinds
      /\ UNCHANGED <<requests, run, category, told, since, formVars>>
  BY KindsAre DEF DraftEnds
<1>2. /\ wizard.step = "generatingDraft" /\ hook["draft"].runId = Latest /\ Latest \in 1..Latest
      /\ Latest \in Starts /\ run[Latest].status \in Ended
      /\ hook' \in [Kinds -> Hook] /\ PendingInv'
  BY <1>1, KindsAre, PollFacts
<1>3. Callback("draft") = Latest /\ Status("draft") = run[Latest].status /\ Latest # NoStart
      /\ requests[Latest].topic # NoTopic
  BY <1>2 DEF Callback, Status, EditorInv, Consistent, AskedInv, Starts, NoStart
<1>4. requests[Latest].topic \in Topics /\ wizard \in Wizard /\ Latest \in Nat
  BY <1>2, <1>3, EditorTypes DEF Body
<1> DEFINE ready == [wizard EXCEPT !.step = "draftReady", !.selected = requests[Latest].topic, !.draft = Latest]
           wrong == [wizard EXCEPT !.step = "error", !.draft = NoStart, !.selected = requests[Latest].topic]
<1>5. /\ ready \in Wizard /\ ready.step = "draftReady" /\ ready.selected = requests[Latest].topic
      /\ ready.draft = Latest /\ wrong \in Wizard /\ wrong.step = "error"
  BY <1>2, <1>4 DEF Wizard, Steps
<1>6. wizard' = ready \/ wizard' = wrong
  BY <1>1, <1>2, <1>3 DEF ShowDraft
<1> HIDE DEF ready, wrong
<1>7. Latest' = Latest /\ UNCHANGED <<requests, run, told, since>>
  BY <1>1 DEF Latest
<1>8. TypeOK'
  BY <1>1, <1>2, <1>5, <1>6 DEF TypeOK, ClientTypeOK, formVars, EditorInv, Consistent
<1>9. ShownIsAsked' /\ AskedInv'
  <2>1. CASE wizard' = wrong
    BY <1>5, <2>1 DEF ShownIsAsked, AskedInv
  <2>2. CASE wizard' = ready
    <3>1. AskedInv'
      BY <1>3, <1>5, <1>7, <2>2 DEF AskedInv
    <3>2. ShownIsAsked'
      BY <1>4, <1>5, <1>7, <2>2 DEF ShownIsAsked, Latest
    <3> QED  BY <3>1, <3>2
  <2> QED  BY <1>6, <2>1, <2>2
<1>10. SinceInv'
  <2>1. ASSUME NEW m \in since, m # Latest
        PROVE  run[m].status \in Ended /\ (run[m].status # "completed" \/ requests[m].topic \in told["draft"])
    BY <1>2, <2>1 DEF EditorInv, Consistent, SinceInv
  <2>2. since \subseteq 1..Latest
    BY DEF EditorInv, Consistent, SinceInv
  <2>3. CASE wizard' = ready
    BY <1>2, <1>5, <1>7, <2>1, <2>2, <2>3 DEF SinceInv
  <2>4. CASE wizard' = wrong
    <3>1. run[Latest].status # "completed"
      <4>1. ready # wrong
        BY <1>5
      <4> QED  BY <1>1, <1>2, <1>3, <2>4, <4>1 DEF ShowDraft, ready
    <3> QED  BY <1>2, <1>5, <1>7, <2>1, <2>2, <2>4, <3>1 DEF SinceInv
  <2> QED  BY <1>6, <2>3, <2>4
<1>11. RejectedIsTold'
  BY <1>7 DEF RejectedIsTold, EditorInv
<1> QED  BY <1>2, <1>8, <1>9, <1>10, <1>11 DEF EditorInv, Consistent

\* Nothing that was sent back is forgotten where no draft is waited for or shown.
LEMMA AllTold ==
  ASSUME EditorInv, wizard.step \notin {"generatingDraft", "draftReady"}
  PROVE  /\ told["draft"] \in SUBSET Topics
         /\ \A m \in since : run[m].status = "completed" => requests[m].topic \in told["draft"]
BY EditorTypes, KindsAre DEF EditorInv, Consistent, SinceInv

\* Who clears the angles begins anew.
LEMMA ClearsKeep ==
  ASSUME EditorInv, UNCHANGED <<requests, run, formVars>>, hook' \in [Kinds -> Hook], PendingInv',
         wizard' \in Wizard, wizard'.step \notin {"generatingDraft", "draftReady"},
         category' \in Categories \cup {NoCategory}, told' \in [Kinds -> SUBSET Topics], since' = {}
  PROVE  EditorInv'
<1>1. TypeOK'
  BY DEF TypeOK, ClientTypeOK, formVars, EditorInv, Consistent
<1>2. ShownIsAsked' /\ AskedInv' /\ SinceInv' /\ RejectedIsTold'
  BY DEF ShownIsAsked, AskedInv, SinceInv, RejectedIsTold
<1> QED  BY <1>1, <1>2 DEF EditorInv, Consistent

LEMMA ChooseCategoryKeeps ==
  ASSUME EditorInv, NEW c \in Categories, ChooseCategory(c)
  PROVE  EditorInv'
<1>1. /\ wizard.step \in {"idle", "error"} /\ category' = c /\ wizard' = wizard
      /\ UNCHANGED <<requests, run, hook, formVars>>
  BY DEF ChooseCategory, clientVars
<1>2. PendingInv' /\ hook' \in [Kinds -> Hook] /\ wizard \in Wizard
  BY <1>1, EditorTypes DEF EditorInv, Consistent, PendingInv, IsPending, Latest
<1>3. CASE told' = [k \in Kinds |-> {}] /\ since' = {}
  <2>1. told' \in [Kinds -> SUBSET Topics]
    BY <1>3
  <2> QED  BY <1>1, <1>2, <1>3, <2>1, ClearsKeep
<1>4. CASE UNCHANGED <<told, since>>
  <2>1. TypeOK'
    BY <1>1, <1>4 DEF TypeOK, ClientTypeOK, formVars, EditorInv, Consistent
  <2>2. ShownIsAsked' /\ AskedInv' /\ SinceInv' /\ RejectedIsTold'
    BY <1>1, <1>4 DEF ShownIsAsked, AskedInv, SinceInv, RejectedIsTold, EditorInv, Consistent, Latest
  <2> QED  BY <1>2, <2>1, <2>2 DEF EditorInv, Consistent
<1> QED  BY <1>3, <1>4 DEF ChooseCategory

LEMMA TopicsKeep ==
  ASSUME EditorInv, SuggestTopics \/ OtherTopics
  PROVE  EditorInv'
<1>1. told \in [Kinds -> SUBSET Topics] /\ wizard \in Wizard
  BY EditorTypes
<1>2. CASE SuggestTopics
  <2>1. told["topics"] \in SUBSET Topics
    BY <1>1, KindsAre
  <2> QED  BY <1>1, <1>2, <2>1, AskTopicsKeeps DEF SuggestTopics
<1>3. CASE OtherTopics
  <2> DEFINE ideas == IF wizard.step = "topicsReady" THEN told["topics"] \cup wizard.topics ELSE told["topics"]
  <2>1. ideas \in SUBSET Topics
    BY <1>1, KindsAre DEF Wizard
  <2>2. told' = [told EXCEPT !["topics"] = ideas]
    BY <1>1, <1>3, KindsAre DEF OtherTopics
  <2> HIDE DEF ideas
  <2>3. told' \in [Kinds -> SUBSET Topics] /\ told'["topics"] = ideas /\ told'["draft"] = told["draft"]
    BY <1>1, <2>1, <2>2, KindsAre
  <2>4. AskForTopics(ideas)
    BY <1>3, <2>3 DEF OtherTopics
  <2>5. wizard.step \in {"topicsReady", "error"}
    BY <1>3 DEF OtherTopics, TopicsShown
  <2> QED  BY <2>1, <2>3, <2>4, <2>5, AskTopicsKeeps
<1> QED  BY <1>2, <1>3

LEMMA DraftsKeep ==
  ASSUME EditorInv, (\E t \in Topics : SelectTopic(t)) \/ RetryTopic
  PROVE  EditorInv'
<1>1. told \in [Kinds -> SUBSET Topics] /\ wizard \in Wizard
  BY EditorTypes
<1>2. ASSUME NEW t \in Topics, SelectTopic(t) PROVE EditorInv'
  <2>1. AskForDraft(t, told["draft"]) /\ told' = told /\ wizard.step = "topicsReady"
    BY <1>2 DEF SelectTopic
  <2> QED  BY <1>1, <2>1, AllTold, AskDraftKeeps
<1>3. CASE RetryTopic
  <2>1. AskForDraft(wizard.selected, told["draft"]) /\ told' = told /\ wizard.step = "error"
        /\ wizard.selected \in Topics
    BY <1>1, <1>3 DEF RetryTopic, Wizard
  <2> QED  BY <1>1, <2>1, AllTold, AskDraftKeeps
<1> QED  BY <1>2, <1>3

LEMMA RegenerateKeeps ==
  ASSUME EditorInv, Regenerate
  PROVE  EditorInv'
<1> DEFINE rejected == told["draft"] \cup {wizard.selected}
<1>1. /\ wizard.step = "draftReady" /\ told' = [told EXCEPT !["draft"] = rejected]
      /\ AskForDraft(wizard.selected, rejected)
  BY EditorTypes, KindsAre DEF Regenerate
<1>2. told \in [Kinds -> SUBSET Topics] /\ wizard.selected \in Topics
  BY <1>1, EditorTypes DEF Wizard, EditorInv, Consistent, AskedInv
<1>3. rejected \in SUBSET Topics
  BY <1>2, KindsAre
<1>4. told' \in [Kinds -> SUBSET Topics] /\ told'["draft"] = rejected
  <2> HIDE DEF rejected
  <2> QED  BY <1>1, <1>2, <1>3, KindsAre
<1>5. \A m \in since : run[m].status = "completed" => requests[m].topic \in rejected
  BY <1>1 DEF EditorInv, Consistent, SinceInv, ShownIsAsked
<1> HIDE DEF rejected
<1> QED  BY <1>1, <1>2, <1>3, <1>4, <1>5, AskDraftKeeps

LEMMA LeavesKeep ==
  ASSUME EditorInv, BackToTopics \/ Reset
  PROVE  EditorInv'
<1>1. wizard \in Wizard /\ told \in [Kinds -> SUBSET Topics] /\ hook \in [Kinds -> Hook]
  BY EditorTypes
<1>2. category \in Categories \cup {NoCategory}
  BY DEF EditorInv, Consistent, TypeOK
<1>3. CASE BackToTopics
  <2>1. /\ told' = [told EXCEPT !["draft"] = {}] /\ since' = {} /\ category' = category
        /\ wizard' = [wizard EXCEPT !.step = "topicsReady", !.selected = NoTopic, !.draft = NoStart]
        /\ UNCHANGED <<requests, run, hook, formVars>> /\ wizard.step \in {"draftReady", "error"}
    BY <1>3 DEF BackToTopics, RestoreTopics, clientVars
  <2>2. told' \in [Kinds -> SUBSET Topics] /\ wizard' \in Wizard /\ wizard'.step = "topicsReady"
    BY <1>1, <2>1 DEF Wizard, Steps
  <2>3. \A k \in Kinds : ~IsPending(k)
    BY <2>1, KindsAre, NothingPending
  <2>4. PendingInv'
    BY <2>1, <2>3 DEF EditorInv, Consistent, PendingInv, IsPending, Latest
  <2> QED  BY <1>1, <1>2, <2>1, <2>2, <2>4, ClearsKeep
<1>4. CASE Reset
  <2>1. /\ told' = [k \in Kinds |-> {}] /\ since' = {} /\ category' = category /\ wizard' = Idle
        /\ hook' = [k \in Kinds |-> ResetHook(hook[k])]
        /\ UNCHANGED <<requests, run, formVars>> /\ wizard.step \in {"topicsReady", "error", "draftReady"}
    BY <1>4 DEF Reset, TopicsShown
  <2>2. told' \in [Kinds -> SUBSET Topics] /\ wizard' \in Wizard /\ wizard'.step = "idle"
    BY <2>1 DEF Wizard, Idle, Steps
  <2>3. \A k \in Kinds : hook[k].creating = {}
    BY <2>1, KindsAre, NothingPending
  <2>4. \A k \in Kinds : hook'[k] = IdleHook
    BY <2>1, <2>3 DEF ResetHook, IdleHook
  <2>5. IdleHook \in Hook /\ IdleHook.creating = {} /\ IdleHook.runId = NoStart
    BY DEF IdleHook, Hook
  <2>6. hook' \in [Kinds -> Hook]
    BY <2>1, <2>4, <2>5
  <2>7. PendingInv'
    BY <2>4, <2>5 DEF PendingInv, IsPending
  <2> QED  BY <1>2, <2>1, <2>2, <2>6, <2>7, ClearsKeep
<1> QED  BY <1>3, <1>4

-----------------------------------------------------------------------------
(***************************************************************************)
(* The review, the form and the service.                                   *)
(***************************************************************************)

LEMMA TextTypes ==
  /\ \A n \in Starts : OfDraft(n) \in Text
  /\ Typed \in Text /\ Empty \in Text
  /\ \A t \in Text, generated \in BOOLEAN : [generated |-> generated, from |-> t] \in Slug
BY DEF OfDraft, Typed, Empty, Text, Slug

LEMMA WrittenType ==
  ASSUME EditorInv, NEW field, NEW n \in Starts
  PROVE  Written(field, n) \in Form
<1>1. form \in Form
  BY DEF EditorInv, Consistent, TypeOK
<1> QED  BY <1>1, TextTypes DEF Written, Form

LEMMA ReviewKeeps ==
  ASSUME EditorInv, Review
  PROVE  EditorInv'
<1>1. /\ form \in Form /\ resolving \in SUBSET [draft : Starts, field : {"tagIds", "all"}]
      /\ saving \in {"open", "saving", "left"} /\ edits \in 0..MaxEdits
  BY DEF EditorInv, Consistent, TypeOK
<1>2. ASSUME NEW field \in Fields, Apply(field) \/ ApplyWithNewTags(field) PROVE EditorInv'
  <2>1. wizard.draft \in Starts
    <3>1. wizard.step = "draftReady" /\ wizard \in Wizard
      BY <1>2, EditorTypes DEF Apply, ApplyWithNewTags, CanApply
    <3> QED  BY <3>1 DEF Wizard, EditorInv, Consistent, AskedInv
  <2>2. edits' \in 0..MaxEdits
    BY <1>1, <1>2, EditorAssumption DEF Apply, ApplyWithNewTags, Edit
  <2>3. CASE Apply(field)
    BY <1>1, <2>1, <2>2, <2>3, WrittenType, FormKeeps DEF Apply
  <2>4. CASE ApplyWithNewTags(field)
    <3>1. [draft |-> wizard.draft, field |-> field] \in [draft : Starts, field : {"tagIds", "all"}]
      BY <2>1, <2>4 DEF ApplyWithNewTags
    <3> QED  BY <1>1, <2>2, <2>4, <3>1, FormKeeps DEF ApplyWithNewTags
  <2> QED  BY <1>2, <2>3, <2>4
<1>3. ASSUME NEW p \in resolving, NEW ok \in BOOLEAN, TagsResolved(p, ok) PROVE EditorInv'
  <2>1. p.draft \in Starts
    BY <1>1
  <2>2. form' \in Form
    BY <1>1, <1>3, <2>1, WrittenType DEF TagsResolved
  <2> QED  BY <1>1, <1>3, <2>2, FormKeeps DEF TagsResolved
<1> QED  BY <1>2, <1>3 DEF Review

LEMMA WritingKeeps ==
  ASSUME EditorInv, Writing
  PROVE  EditorInv'
<1>1. /\ form \in Form /\ resolving \in SUBSET [draft : Starts, field : {"tagIds", "all"}]
      /\ saving \in {"open", "saving", "left"} /\ edits \in 0..MaxEdits
  BY DEF EditorInv, Consistent, TypeOK
<1>2. CASE TypeTitle \/ TypeSlug \/ PickTags \/ ToggleAutoSlug
  <2>1. edits' \in 0..MaxEdits /\ UNCHANGED <<clientVars, wizardVars, resolving, saving>>
    BY <1>1, <1>2, EditorAssumption DEF TypeTitle, TypeSlug, PickTags, ToggleAutoSlug, Edit
  <2>2. form' \in Form
    BY <1>1, <1>2, TextTypes DEF TypeTitle, TypeSlug, PickTags, ToggleAutoSlug, Form, SlugOf
  <2> QED  BY <1>1, <2>1, <2>2, FormKeeps
<1>3. CASE Submit \/ Submitted
  BY <1>1, <1>3, FormKeeps DEF Submit, Submitted
<1> QED  BY <1>2, <1>3 DEF Writing

LEMMA EditorInvInit == Init => EditorInv
<1> SUFFICES ASSUME Init PROVE EditorInv
  OBVIOUS
<1> USE DEF Init, ClientInit
<1>1. Len(requests) = 0 /\ requests \in Seq(Body) /\ run \in Seq(Run) /\ Len(run) = 0
  OBVIOUS
<1>2. IdleHook \in Hook /\ IdleHook.creating = {} /\ IdleHook.runId = NoStart
  BY DEF IdleHook, Hook
<1>3. ClientTypeOK
  BY <1>1, <1>2, ClientAssumption DEF ClientTypeOK
<1>4. wizard \in Wizard /\ wizard.step = "idle"
  BY DEF Idle, Wizard, Steps
<1>5. form \in Form
  BY TextTypes DEF Form, SlugOf
<1>6. TypeOK
  BY <1>1, <1>3, <1>4, <1>5, EditorAssumption DEF TypeOK
<1>7. PendingInv
  BY <1>2 DEF PendingInv, IsPending
<1>8. ShownIsAsked /\ AskedInv /\ SinceInv /\ RejectedIsTold
  BY <1>4 DEF ShownIsAsked, AskedInv, SinceInv, RejectedIsTold
<1> QED  BY <1>6, <1>7, <1>8 DEF EditorInv, Consistent

LEMMA EditorInvNext == EditorInv /\ [Next]_vars => EditorInv'
<1>1. ASSUME EditorInv, UNCHANGED vars PROVE EditorInv'
  <2>1. UNCHANGED <<clientVars, wizardVars>> /\ UNCHANGED <<resolving, form, saving, edits>>
    BY <1>1 DEF vars, formVars
  <2> QED  BY <1>1, <2>1, FormKeeps DEF EditorInv, Consistent, TypeOK
<1>2. ASSUME EditorInv, Assistant PROVE EditorInv'
  BY <1>2, ChooseCategoryKeeps, TopicsKeep, DraftsKeep, RegenerateKeeps, LeavesKeep DEF Assistant
<1>3. ASSUME EditorInv, Service PROVE EditorInv'
  BY <1>3, CreatedKeeps, AnsweredKeeps, RejectedKeeps DEF Service
<1>4. ASSUME EditorInv, Polls PROVE EditorInv'
  BY <1>4, TopicsEndKeeps, DraftEndsKeeps DEF Polls
<1> QED  BY <1>1, <1>2, <1>3, <1>4, ReviewKeeps, WritingKeeps DEF Next

LEMMA EditorInvAlways == SafeSpec => []EditorInv
BY EditorInvInit, EditorInvNext, PTL DEF SafeSpec

-----------------------------------------------------------------------------
\* The draft under review is that of the topic named with it and of the last run
\* that was asked for, whatever ends late, is refused or is asked for again: a
\* hook waits for the latest run only (useGeneratePostDraftRun, start()).
THEOREM ConsistentAlways == SafeSpec => []Consistent
<1>1. EditorInv => Consistent
  BY DEF EditorInv
<1> QED  BY <1>1, EditorInvAlways, PTL

\* What the administrator sent back is told to the model in every later request for
\* the topic, through errors, retries and other topics, until the angles are
\* cleared (handleRegenerateDraft(), handleSelectTopic(), restoreTopics()).
THEOREM RejectedIsToldAlways == SafeSpec => []RejectedIsTold
<1>1. EditorInv => RejectedIsTold
  BY DEF EditorInv
<1> QED  BY <1>1, EditorInvAlways, PTL

==============================================================================
