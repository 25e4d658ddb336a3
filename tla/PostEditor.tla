------------------------------ MODULE PostEditor ------------------------------
(***************************************************************************)
(* The page on which the administrator writes a new post:                  *)
(*   the assistant  PostGenerationAssistant, which asks for topics, then   *)
(*                  for a draft of one of them (module GenerationClient)   *)
(*   the review     PostDraftReview, which copies a draft into the form,   *)
(*                  creating the tags it suggests first                    *)
(*   the form       PostForm, which makes the slug out of the title        *)
(* Buttons are actions: one that is not rendered or is disabled is a guard. *)
(* Excerpt and content, status, order, date and cover are fields like the  *)
(* title that nothing else reads, and are left out.                        *)
(***************************************************************************)
EXTENDS GenerationClient

CONSTANTS
  Categories,  \* AI_POST_REQUESTED_CATEGORIES
  NoTopic,
  NoCategory,
  MaxEdits     \* bound on what is done to the form

ASSUME EditorAssumption ==
  /\ NoTopic \notin Topics /\ NoCategory \notin Categories
  /\ MaxEdits \in Nat

VARIABLES
  wizard,     \* the AssistantState
  category,   \* the category that is chosen
  told,       \* excludedIdeas (topics) and rejectedAngles (draft)
  since,      \* history: the drafts asked for since rejectedAngles was cleared
  resolving,  \* the calls of resolveAiTags under way
  form,       \* the form's fields and the switch of the automatic slug
  saving,     \* isSubmitting: "open", "saving", and "left" for /admin/posts
  edits

wizardVars == <<wizard, category, told, since>>
formVars == <<resolving, form, saving, edits>>
vars == <<clientVars, wizardVars, formVars>>

-----------------------------------------------------------------------------
Steps == {"idle", "generatingTopics", "topicsReady", "generatingDraft",
          "draftReady", "error"}

\* What is not in a state of the union is empty.
Wizard == [step : Steps, topics : SUBSET Topics, category : Categories \cup {NoCategory},
           selected : Topics \cup {NoTopic}, draft : Starts \cup {NoStart}]

\* Whose text a field holds.
Text == [by : {"nobody", "admin", "draft"}, draft : Starts \cup {NoStart}]

Empty  == [by |-> "nobody", draft |-> NoStart]
Typed  == [by |-> "admin",  draft |-> NoStart]
OfDraft(n) == [by |-> "draft", draft |-> n]

\* generateSlug() of a title, or a slug of its own.
Slug == [generated : BOOLEAN, from : Text]

SlugOf(title) == [generated |-> TRUE, from |-> title]

Form == [title : Text, slug : Slug, tags : Text, auto : BOOLEAN]

Fields == {"title", "slug", "tagIds", "all"}

\* What start() posts: a run of topics is told ideas, one of a draft angles.
Body == [kind : Kinds, topic : Topics \cup {NoTopic}, told : SUBSET Topics]

TypeOK ==
  /\ ClientTypeOK /\ requests \in Seq(Body)
  /\ wizard \in Wizard
  /\ category \in Categories \cup {NoCategory}
  /\ told \in [Kinds -> SUBSET Topics]
  /\ since \in SUBSET Starts
  /\ resolving \in SUBSET [draft : Starts, field : {"tagIds", "all"}]
  /\ form \in Form
  /\ saving \in {"open", "saving", "left"}
  /\ edits \in 0..MaxEdits

Idle == [step |-> "idle", topics |-> {}, category |-> NoCategory,
         selected |-> NoTopic, draft |-> NoStart]

Init ==
  /\ ClientInit
  /\ wizard = Idle
  /\ category = NoCategory
  /\ told = [k \in Kinds |-> {}]
  /\ since = {}
  /\ resolving = {}
  /\ form = [title |-> Empty, slug |-> SlugOf(Empty), tags |-> Empty, auto |-> TRUE]
  /\ saving = "open"
  /\ edits = 0

OnPage == saving # "left"

-----------------------------------------------------------------------------
\* The assistant.

\* handleCategoryChange()
ChooseCategory(c) ==
  /\ OnPage /\ wizard.step \in {"idle", "error"} /\ c # category
  /\ category' = c
  /\ IF category # NoCategory
       THEN told' = [k \in Kinds |-> {}] /\ since' = {}
       ELSE UNCHANGED <<told, since>>
  /\ UNCHANGED <<clientVars, wizard, formVars>>

\* handleGenerateTopics(): start() is not awaited.
AskForTopics(excluded) ==
  /\ category # NoCategory
  /\ wizard' = [Idle EXCEPT !.step = "generatingTopics"]
  /\ Start("topics", [kind |-> "topics", topic |-> NoTopic, told |-> excluded])
  /\ UNCHANGED <<category, since, formVars>>

\* "Sugerir temas"
SuggestTopics ==
  /\ OnPage /\ wizard.step \in {"idle", "error"}
  /\ AskForTopics(told["topics"])
  /\ UNCHANGED told

\* A list of topics is rendered when they are ready, and with the error of a
\* draft.
TopicsShown ==
  \/ wizard.step = "topicsReady"
  \/ wizard.step = "error" /\ wizard.category # NoCategory

\* "Outros temas", handleRegenerateTopics()
OtherTopics ==
  /\ OnPage /\ TopicsShown
  /\ told' = [told EXCEPT !["topics"] =
                IF wizard.step = "topicsReady" THEN @ \cup wizard.topics ELSE @]
  /\ AskForTopics(told'["topics"])

\* Mutant: an answer without suggestions rejects nothing.
ShowTopics_NothingShown ==
  LET n == Callback("topics")  k == "topics" IN
  wizard' = CASE n # NoStart /\ Status(k) = "completed" ->
                   [Idle EXCEPT !.step = "topicsReady",
                                !.topics = run[hook[k].runId].topics,
                                !.category = category]
              [] n # NoStart /\ Status(k) = "failed" -> [Idle EXCEPT !.step = "error"]
              [] OTHER -> wizard

\* What follows the end of a run of topics.  An error keeps no topics.
ShowTopics ==
  LET n == Callback("topics")  k == "topics" IN
  wizard' = CASE n = NoStart -> wizard
              [] n # NoStart /\ Status(k) = "completed" ->
                   [Idle EXCEPT !.step = "topicsReady",
                                !.topics = run[hook[k].runId].topics,
                                !.category = category]
              [] OTHER -> [Idle EXCEPT !.step = "error"]

TopicsEnd ==
  /\ OnPage /\ CanPoll("topics")
  /\ Polled("topics")
  /\ ShowTopics
  /\ UNCHANGED <<requests, run, category, told, since, formVars>>

\* runDraftGeneration(): start() is not awaited here either.
AskForDraft(topic, rejected) ==
  /\ wizard' = [wizard EXCEPT !.step = "generatingDraft", !.selected = topic,
                              !.draft = NoStart]
  /\ Start("draft", [kind |-> "draft", topic |-> topic, told |-> rejected])
  /\ since' = since \cup {Len(requests')}
  /\ UNCHANGED <<category, formVars>>

\* handleSelectTopic(): the list shown with an error is not listened to.
SelectTopic(topic) ==
  /\ OnPage /\ TopicsShown /\ topic \in wizard.topics
  /\ wizard.step = "topicsReady"
  /\ AskForDraft(topic, told["draft"])
  /\ UNCHANGED told

\* "Tentar novamente com este tema", handleRetrySelectedTopic()
RetryTopic ==
  /\ OnPage /\ wizard.step = "error" /\ wizard.selected # NoTopic
  /\ AskForDraft(wizard.selected, told["draft"])
  /\ UNCHANGED told

\* Mutant: the angles are those of the last render.
Regenerate_StaleAngles ==
  /\ OnPage /\ wizard.step = "draftReady" /\ ~IsPending("draft")
  /\ told' = [told EXCEPT !["draft"] = @ \cup {wizard.selected}]
  /\ AskForDraft(wizard.selected, told["draft"])

\* "Regenerar", handleRegenerateDraft(): the state set before the call is not
\* the state its closure reads.  A topic stands for its angle.
Regenerate ==
  /\ OnPage /\ wizard.step = "draftReady" /\ ~IsPending("draft")
  /\ told' = [told EXCEPT !["draft"] = @ \cup {wizard.selected}]
  /\ AskForDraft(wizard.selected, told["draft"] \cup {wizard.selected})

\* The end of a draft run: onCompleted is heard while one is being generated,
\* an error always.
ShowDraft ==
  LET n == Callback("draft")  k == "draft" IN
  wizard' = CASE n = NoStart -> wizard
              [] n # NoStart /\ Status(k) = "completed" ->
                   IF wizard.step = "generatingDraft"
                     THEN [wizard EXCEPT !.step = "draftReady",
                                         !.selected = requests[n].topic,
                                         !.draft = hook[k].runId]
                     ELSE wizard
              [] OTHER -> [wizard EXCEPT !.step = "error", !.draft = NoStart,
                                         !.selected = requests[n].topic]

DraftEnds ==
  /\ OnPage /\ CanPoll("draft")
  /\ Polled("draft")
  /\ ShowDraft
  /\ UNCHANGED <<requests, run, category, told, since, formVars>>

\* restoreTopics()
RestoreTopics ==
  /\ told' = [told EXCEPT !["draft"] = {}]
  /\ since' = {}
  /\ wizard' = [wizard EXCEPT !.step = "topicsReady", !.selected = NoTopic,
                              !.draft = NoStart]
  /\ UNCHANGED <<clientVars, category, formVars>>

\* Mutant: the waiting step has the button, too.
BackToTopics_WhileGenerating ==
  /\ OnPage
  /\ \/ wizard.step \in {"draftReady", "generatingDraft"}
     \/ wizard.step = "error" /\ wizard.topics # {} /\ wizard.category # NoCategory
  /\ RestoreTopics

\* "Temas" of the review, and "Voltar para temas" of an error.
\* handleBackToTopics() would do it while a draft is generated, but no button
\* is rendered then.
BackToTopics ==
  /\ OnPage
  /\ \/ wizard.step = "draftReady"
     \/ wizard.step = "error" /\ wizard.topics # {} /\ wizard.category # NoCategory
  /\ RestoreTopics

\* "Voltar" of the list and "Descartar" of the review, handleReset()
Reset ==
  /\ OnPage /\ (TopicsShown \/ wizard.step = "draftReady")
  /\ wizard' = Idle
  /\ told' = [k \in Kinds |-> {}]
  /\ since' = {}
  /\ hook' = [k \in Kinds |-> ResetHook(hook[k])]
  /\ UNCHANGED <<requests, run, category, formVars>>

-----------------------------------------------------------------------------
\* The review.

CanApply(field) ==
  /\ OnPage /\ wizard.step = "draftReady" /\ ~IsPending("draft")
  /\ field \in {"all", "tagIds"} => \A p \in resolving : p.draft # wizard.draft

\* onApplyAll() and onApplyField(): setValue() does not ask for the switch.
Written(field, n) ==
  [title |-> IF field \in {"title", "all"} THEN OfDraft(n) ELSE form.title,
   slug  |-> IF field \in {"slug", "all"}
               THEN [generated |-> FALSE, from |-> OfDraft(n)] ELSE form.slug,
   tags  |-> IF field \in {"tagIds", "all"} THEN OfDraft(n) ELSE form.tags,
   auto  |-> form.auto]

Edit == OnPage /\ edits < MaxEdits /\ edits' = edits + 1

\* A draft all of whose tags exist, or a field of text, is written at once.
Apply(field) ==
  /\ CanApply(field) /\ Edit
  /\ form' = Written(field, wizard.draft)
  /\ UNCHANGED <<clientVars, wizardVars, resolving, saving>>

\* Tags that do not exist are created first: resolveAllTagIds() awaits the API.
ApplyWithNewTags(field) ==
  /\ field \in {"all", "tagIds"} /\ CanApply(field) /\ Edit
  /\ resolving' = resolving \cup {[draft |-> wizard.draft, field |-> field]}
  /\ UNCHANGED <<clientVars, wizardVars, form, saving>>

\* The answer is written whatever the page shows by then; an error, which is
\* told by a toast, writes nothing.
TagsResolved(p, ok) ==
  /\ OnPage /\ p \in resolving
  /\ resolving' = resolving \ {p}
  /\ form' = IF ok THEN Written(p.field, p.draft) ELSE form
  /\ UNCHANGED <<clientVars, wizardVars, saving, edits>>

-----------------------------------------------------------------------------
\* The form.

\* syncAutoSlug(), with the switch as it was when the page was rendered.
TypeTitle ==
  /\ Edit
  /\ form' = [form EXCEPT !.title = Typed,
                          !.slug = IF form.auto THEN SlugOf(Typed) ELSE @]
  /\ UNCHANGED <<clientVars, wizardVars, resolving, saving>>

\* The field is read-only while the slug is automatic.
TypeSlug ==
  /\ Edit /\ ~form.auto
  /\ form' = [form EXCEPT !.slug = [generated |-> FALSE, from |-> Typed]]
  /\ UNCHANGED <<clientVars, wizardVars, resolving, saving>>

\* The chips, and handleTagCreated()
PickTags ==
  /\ Edit
  /\ form' = [form EXCEPT !.tags = Typed]
  /\ UNCHANGED <<clientVars, wizardVars, resolving, saving>>

\* toggleAutoSlug(): syncAutoSlug() is the closure of the render in which the
\* switch is still off, and returns at once.
ToggleAutoSlug ==
  /\ Edit
  /\ form' = [form EXCEPT !.auto = ~@]
  /\ UNCHANGED <<clientVars, wizardVars, resolving, saving>>

\* handleSubmit(): the resolver asks for a title.
Submit ==
  /\ saving = "open" /\ form.title # Empty
  /\ saving' = "saving"
  /\ UNCHANGED <<clientVars, wizardVars, resolving, form, edits>>

\* An error leaves the page as it is.
Submitted ==
  /\ saving = "saving"
  /\ saving' \in {"left", "open"}
  /\ UNCHANGED <<clientVars, wizardVars, resolving, form, edits>>

-----------------------------------------------------------------------------
Assistant ==
  \/ \E c \in Categories : ChooseCategory(c)
  \/ SuggestTopics
  \/ OtherTopics
  \/ \E t \in Topics : SelectTopic(t)
  \/ RetryTopic
  \/ Regenerate
  \/ BackToTopics
  \/ Reset

Review ==
  \/ \E field \in Fields : Apply(field) \/ ApplyWithNewTags(field)
  \/ \E p \in resolving, ok \in BOOLEAN : TagsResolved(p, ok)

Writing == TypeTitle \/ TypeSlug \/ PickTags \/ ToggleAutoSlug \/ Submit \/ Submitted

Service ==
  /\ OnPage
  /\ \/ \E n \in 1..Len(run) : Created(n) \/ RunEnds(n)
     \/ \E k \in Kinds : Answered(k) \/ Rejected(k)
  /\ UNCHANGED <<wizardVars, formVars>>

Polls == TopicsEnd \/ DraftEnds

Next == Assistant \/ Review \/ Writing \/ Service \/ Polls

SafeSpec == Init /\ [][Next]_vars

\* Polling goes on, and one poll after the end of the run is answered.  Nothing is
\* asked of the API and the worker: a run may stay active for ever (AiRun).
Fairness == WF_vars(Polls)

Spec == SafeSpec /\ Fairness

\* An API that answers every POST or refuses it, and a worker that ends every run.
ServedSpec == Spec /\ WF_vars(Service)

-----------------------------------------------------------------------------
\* The run that was asked for last.
Latest == Len(requests)

WaitingStep(k) == IF k = "topics" THEN "generatingTopics" ELSE "generatingDraft"

\* A hook has something under way only while the page waits for it, and then it
\* is what was asked for last.
PendingInv ==
  \A k \in Kinds :
    /\ hook[k].creating \subseteq {Latest}
    /\ hook[k].runId # NoStart /\ hook[k].seen = "pending" =>
         hook[k].runId = Latest /\ hook[k].creating = {}
    /\ IsPending(k) => wizard.step = WaitingStep(k)

\* The draft that is waited for has both callbacks and is among those that
\* must be told; the one under review is the latest run.
AskedInv ==
  /\ wizard.step = "generatingDraft" =>
       /\ Latest \in since /\ requests[Latest].topic # NoTopic
       /\ hook["draft"].onSettled = Latest /\ hook["draft"].onError = Latest
  /\ wizard.step = "draftReady" =>
       /\ wizard.draft = Latest /\ wizard.draft # NoStart
       /\ wizard.selected # NoTopic

\* Every draft since the angles were cleared, but for the one that is waited for,
\* has ended; its angle will be told, unless it failed or is under review.
SinceInv ==
  /\ since \subseteq 1..Latest
  /\ \A m \in since :
       \/ wizard.step = "generatingDraft" /\ m = Latest
       \/ /\ run[m].status \in Ended
          /\ \/ run[m].status # "completed"
             \/ requests[m].topic \in told["draft"]
             \/ wizard.step = "draftReady" /\ wizard.draft = m

\* The draft under review was written for the topic that is named with it, by
\* the last run that was asked for: a run that ends late, or after another was
\* started, is never taken for the other one, because the page offers no way
\* out of the waiting step although handleBackToTopics() knows one.
ShownIsAsked ==
  wizard.step = "draftReady" =>
    /\ requests[wizard.draft].topic = wizard.selected
    /\ \A n \in (wizard.draft + 1)..Len(requests) : requests[n].kind # "draft"

\* A draft the administrator sent back is not asked for again: every later
\* request for the same topic tells the model of its angle, also after errors
\* and retries, until the list of topics is gone back to.
RejectedIsTold ==
  \A m, n \in since :
    m < n /\ run[m].status = "completed" /\ requests[m].topic = requests[n].topic
      => requests[m].topic \in requests[n].told

\* What the runs check as one invariant.
Consistent == TypeOK /\ ShownIsAsked /\ PendingInv /\ AskedInv /\ SinceInv

Generating == wizard.step \in {"generatingTopics", "generatingDraft"}

\* The page waits for the run that was asked for last, and it has ended.
Over ==
  \E k \in Kinds :
    /\ wizard.step = WaitingStep(k) /\ hook[k].runId = Latest
    /\ run[Latest].status \in Ended

\* The assistant never waits for a run that is over, however it ended: with
\* topics or a draft, with nothing, or with an error; and whichever callbacks
\* the runs before it used up or left behind.
Settles == Over ~> (~Generating \/ ~OnPage)

\* "shows error message when topics generation fails"
\* (PostGenerationAssistant.test.tsx:439): a generation that fails is told to
\* the administrator.  The promise that start() rejects is nobody's, so the page
\* may wait for ever although every POST is answered and every run ends.
FailureIsShown == Generating ~> (~Generating \/ ~OnPage)

\* "After re-enabling, toggleAutoSlug() calls syncAutoSlug with current title
\* value" (PostForm.test.tsx:418): switched on again, the slug is the title's.
AutoSlugSyncs ==
  [][~form.auto /\ form'.auto => form'.slug = SlugOf(form'.title)]_vars

\* What comes into the form from a draft is the draft that is on the page: one
\* that was discarded or replaced while its tags were created is not written.
AppliedIsShown ==
  [][\A n \in Starts :
       form'.title = OfDraft(n) /\ form.title # OfDraft(n)
         => wizard.step = "draftReady" /\ wizard.draft = n]_vars
==============================================================================
