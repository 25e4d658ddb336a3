# Verification of gustavo-sotero.dev

TLA+ models of the parts of this repository where several actors share state:
the API (Hono on Bun), PostgreSQL, Redis, BullMQ, the worker and the clients
that poll. Each module follows the source line by line in its control and
abstracts the data; `PROJECT.json` maps every definition to the lines it
translates. TLC checks the modules on small instances, and TLAPS proves the most
important invariants for every value of the constants.

- [The system](#the-system)
- [Plan](#plan)
- [How the modules correspond to the code](#how-the-modules-correspond-to-the-code)
- [Runs](#runs)
- [Where the code departs from what is said about it](#where-the-code-departs-from-what-is-said-about-it)
- [Fairness](#fairness)
- [Proofs](#proofs)
- [What is not modelled](#what-is-not-modelled)
- [Running the checks](#running-the-checks)

## The system

A portfolio and blog. `apps/api` serves public reads, comments and the admin's
writes. Whatever must happen later or takes long (publishing at a time, encoding
images, generating drafts) is written to an **outbox** table in the transaction
that decides it. `apps/worker` polls the outbox and turns each row into a
**BullMQ** job with a deterministic id, and runs the jobs. `apps/web` (Next.js)
renders, uploads images directly to S3 and polls for results.

```
 admin ── API ── PostgreSQL: rows + outbox
           │            │
           │      worker: relay (poll) ──► Redis: BullMQ jobs ──► processors
           │            ▲                        ▲                    │
           └── cancel, read-through cache ───────┘     rows ◄─────────┘
```

### Inventory

| Component | State it keeps | Operations | What is hard | What makes it correct | Modules |
|---|---|---|---|---|---|
| Scheduled posts (`posts.service.ts`, `outbox-relay.ts`, `postPublish.ts`, `queues.ts`) | `posts` row, outbox rows, job `post-publish-{id}` | create, update, delete, cancel; relay upserts the job; the processor publishes | decisions from a row read before the transaction; relay against active jobs; two clocks; replayed events | a due post is published, never early, never over a later decision; a scheduled post always has somebody who carries it | `PostLifecycle`, `ScheduledPublish` |
| Image uploads (`uploads.service.ts`, `outbox-relay.ts`, `imageOptimize.ts`) | `uploads` row, S3 object, outbox row, job | presign, PUT, confirm, relay, reconcile, encode | concurrent confirmations, a replaced object, reconciliation against a live job, failures outside `try` | confirmed once; a confirmed upload ends processed (with variants) or failed | `UploadLifecycle`, `ImagePipeline` |
| AI generation runs (`ai-post-*-runs`, `ai-post-*-generation.ts`) | run row, outbox row, job and its lock | create, relay, claim, provider, validate, save, retry, fail | lost locks and second deliveries, crashes behind the claim, lost answers, retries that cost money | one worker at a time; bounded number of claims; the error explains the status; a run ends, or its event failed | `RunLifecycle`, `AiRun` |
| Read-through cache (`api/lib/cache.ts`, `worker/lib/cache.ts`) | entries with a TTL, NX locks | `cached`, `invalidatePattern`, `invalidateGroup` | a fill racing an invalidation, expiring locks, best-effort deletes | staleness ends with the TTL; no request hangs | `BoundedRead`, `ReadThroughCache` |
| Worker process: relay loop (`outbox-relay.ts`, `-poll-guard.ts`, `index.ts`), dead-letter queues (`worker-registry.ts`), Telegram notifications | batch, attempts, poll guard; jobs and their copies | poll, add, mark, give up; take, send, fail, copy; start, signal, exit, die | overlapping cycles, giving up, events that fill the batch, a best-effort copy, shutdown | each event that can be published is, or its failure is recorded; a job that is given up leaves a trace | `WorkerProcess` |
| Retention (`retention.ts`) | old rows, the scheduler | three cleanups in batches, daily | one step of several failing, crashes, a missed day | every step runs, the failure is reported, old rows go | `Retention` |
| Comments (`comments.service.ts`, `comments.admin.service.ts`, `CommentsSection.tsx`) | comment rows, a cooldown with two stores, cached details, the visitor's pages | submit, reply, moderate, edit, remove; render, load more | writes by id after a separate read; the old status decides the invalidation; preview and pages cut differently | a rejected comment leaves the cache; no public comment is skipped | `Comments`, `CommentsSection` |
| Tags and skills (`tags.service.ts`, `skills.service.ts`) | rows, pivots | CRUD, `resolveAiSuggestedTags`, highlights | the cap, uniqueness and slug are checked before the write; two acceptances creating one tag | at most two highlights per category; a suggestion is resolved whatever is created meanwhile | `Catalogue` |
| Projects, experience and education | rows, pivots | CRUD | an update validated against the row as read, defaults of the schema | dates make sense; row and links change together | `Career` |
| Generation client and post editor (`use-post-generation.ts`, `PostGenerationAssistant.tsx`, `PostDraftReview.tsx`, `PostForm.tsx`) | run ids, callbacks in refs, the wizard, the form | start, poll, settle; choose, send back, apply; type, save | a result that arrives for another request; closures over old state; refused POSTs | the draft shown is that of its topic; what was sent back is told; nobody waits for a run that is over | `GenerationClient`, `PostEditor` |
| Upload client (`use-admin-uploads.ts`, `CoverMediaField.tsx`) | upload id, poll loop, the field | presign, PUT, confirm, poll, remove, external URL, save | a timeout racing a late result, saving meanwhile | the last choice is shown; uploading ends | `CoverField` |
| Rate limits (`rateLimit.ts`) | Redis sorted sets, local fallback | count, cool down | fallback and recovery | no more than the limit in a window | (cooldown: `Comments`) |
| AI model catalogue and settings | cached list, settings row | load, validate, save, resolve | the list changes between saving and use | a resolved model is eligible | |
| Admin authentication (`routes/admin/auth.ts`) | OAuth state, cookies | login, callback, logout | replayed or expired state | a session exists only for the admin | |
| Analytics | event rows | insert | best effort | | |
| Public reads, text processing, schemas, UI, deployment | none of their own | | | | |

The hazards of each, with the line where it bites and the properties that would
catch it, are listed in `PROJECT.json`.

## Plan

1. **The pipelines through the outbox (done)**, each with an abstract
   specification of what it promises and proofs: `ScheduledPublish`,
   `ImagePipeline`, `AiRun`. They come first because they cross process
   boundaries, survive crashes and carry the operations that cannot be undone.
   Then the mechanism every public read goes through: `ReadThroughCache`.
2. **The worker as a process (done)**: `WorkerProcess` composed with `Retention`.
3. **What administrators and visitors write at once (done)**: `Catalogue` with
   `Career`, `Comments` with `CommentsSection`.
4. **The browser's side of the pipelines (done)**: `GenerationClient` with
   `PostEditor`, `CoverField`.
5. **Proofs (done)**: the inductive invariant of each component and every safety
   property that a run checks. To add: `PublishedIsVisible` and
   `ScheduleNeverLost` under conditions on overlaps instead of on constants.
6. **Left to model**: `UploadDropzone` over the hook of `CoverField`, the local
   fallback of the sliding window, and caches filled from other caches.

Modules that compose extend the one they compose with; each of the pipelines is
checked on its own, because they share only mechanisms (the outbox, BullMQ) whose
behaviour each module contains.

## How the modules correspond to the code

A step of a model is what the code does between two `await`s; a database
transaction is one step, at its commit. A call that fails may or may not have
taken effect ("its answer is lost"): the UPDATE that marks an event, a confirmation's
or an update's transaction, the publisher's UPDATE, `add`. A crash ends the worker's loops and
processors; rows and Redis survive. BullMQ is not in this repository and is
modelled from how the code uses it: `add` ignores a known id, one delivery at a
time while the lock holds, `attempts`, `UnrecoverableError`, a stalled-job check
that redelivers a job nobody holds and fails it after `maxStalledCount`.

### `PostLifecycle`, `ScheduledPublish`

`PostLifecycle` is the promise: administrators decide, the system publishes a
scheduled post when it is due and does nothing else, deleted rows never change.

| State | Code |
|---|---|
| `post` | the `posts` row: status, `scheduled_at`, `published_at`, `deleted_at` |
| `req[r]` | one admin request: what it read before its transaction, the patch it computed, the start of its transaction |
| `outbox[r]` | the outbox row the request inserted; `createdAt` is `now()` of its transaction's **start** |
| `relay` | `processOutboxEvents`: the batch, the event in hand, the job state `upsertScheduledPostPublishJob` saw |
| `job` | the BullMQ job `post-publish-{postId}` |
| `proc` | `processPostPublish`: fetch, re-delay, the conditional UPDATE |
| `now` | the database's clock; the worker's, with which it also stamps what it publishes (`postPublish.ts:116`), is `now + Skew`; the API's is taken to be the database's |

The actions are the handlers' steps: `Create`, read / begin / `CommitUpdate`,
`Delete`, the cancellation that runs after a commit (`CancelRemove`), the relay's
select / upsert / add / mark / catch, the processor's steps, and BullMQ's. One
post is enough: every row, event and job is keyed by its id.

### `UploadLifecycle`, `ImagePipeline`

`UploadLifecycle`: confirmed once, then settled for good, and settled at last.
`ImagePipeline` follows `confirmUpload` (fetch, HEAD, magic bytes, the
transaction with its conditional UPDATE and outbox row), the relay's image
branch with `queuePublishSucceeded` and the reconciliation, and
`processImageOptimize`, whose first query is outside its `try`. An image is
reduced to whether the object matches its row ("good") or not ("bad"); a second
PUT to the same URL may replace it at any time.

### `RunLifecycle`, `AiRun`

`RunLifecycle`: claimed only when queued, a bounded number of times; a stored
result stays; a run ends. `AiRun` follows `createDraftRun` and `createTopicRun`
(the two differ in table and payload only), the relay's AI branches, and the
processor on each of the worker's slots: the claim (`claimQueuedAiRun`), the
stages up to the provider's answer, validation, save, and the catch block with
`resolveAiJobFailure`. Stages within `running` or `validating` are taken
together: only the UI reads them. `proc[s].made` is the slot's own copy of
`attemptsMade`, which is what `shouldRetryProviderFailure` reads; `job.holder` is
BullMQ's lock, which may expire while a slot works on (`LoseLock`).
`loadAiProviderRoutingConfig` catches its own errors and is part of `Claim`.

### `BoundedRead`, `ReadThroughCache`

`BoundedRead`: an answer is a version of the data that was current less than
`Bound` ago. `ReadThroughCache` follows one key through `cached` (get, lock, one
retry, fetch, store, release in the `finally`) and `invalidatePattern` (SCAN, then
DEL), a command or a query at a time. The data is a version number, and `age[v]`
says how long ago version `v` was replaced. A reader slot takes one request after
the other. Time passes in units that are long against the 75 ms of the retry; a
fetch takes at most `MaxFetch` units. `docs/caching.md:7` calls this cache
"in-process"; it is in Redis, shared by the API's processes and the worker, and
is modelled so. A writer in `Uncovered` commits a change and has no pattern that
matches the key, as `postPublish.ts:149-154` does not match `developer:profile`.

### `WorkerProcess`, `Retention`

`proc` is the process: started by the container, polling, stopped by a signal
(`CloseQueues`, then `Exit`) or dead. `guard` is `relayInFlight` of the poll guard,
`cycles` are the calls of `processOutboxEvents` under way; two slots are enough
to see the guard fail to keep them apart. A cycle holds what it selected:
ids and the attempts it read, from which `Attempted` computes what it writes, by id
alone. So an event whose mark took effect and whose answer was lost has an attempt
counted, or is made a failed one, after it was processed: the cycle is `"unsure"` of it.
The order within a batch is that of `created_at` and no property depends on it,
so a batch is a set. `jobs` are the Telegram notifications, their `failed`
listener and the copy it adds to the dead-letter queue, which nothing awaits.
The numbers of attempts in the API's queue (`api/lib/queues.ts:37`) and in the
worker's listener (`worker/index.ts:62`) are two constants, because they are two
in the code.

`Retention` counts rows per table instead of naming them: `due` are those before
the cutoff of the latest job, `later` those that have become old since.
`upsertJobScheduler` at startup may replace a missed day's job. The job has no
`attempts`: a failed step is not tried again before the next day
(`retention.ts:11` speaks of a retry). Shutdown waits for jobs, but not for a
cycle of the relay. `load` selects one kind of work for each behaviour: the parts
share nothing but the process, and their product would only be larger.

### `Comments`, `CommentsSection`

One post. `row` are its comments in the order of `created_at`, `request` the
handlers of `comments.service.ts` and `comments.admin.service.ts` between awaits
(`read` is the status found before the write, which decides the invalidation),
`cooldown` the key in Redis and in the process's own store, `entry` the cached
detail, `page` the web server's `use cache` copy and `section` the state of
`CommentsSection.tsx`. A list and its count are two queries of one `Promise.all` and are
read in either order, with writes between them: in `fill[r]`, what a request that
missed the cache has read and not yet stored (`posts.service.ts:116`), and in `load`,
the page on its way to the browser (`comments.repo.ts:149`). An invalidation is a SCAN
and a DEL; either may fail, which is logged and forgotten, and a fill may store what it
read before. Of the lock of `cached` only that it does not keep fills apart for good is
used (`ReadThroughCache` has it). `buildCommentTree` makes a root of a reply
whose parent is absent, so that each row of a list is one node of its tree and a
list is a set. A preview of 30 and pages of 20 become 3 and 2: the page after the
preview begins within it in both.

### `Catalogue`, `Career`

A request is the list of steps it has still to take (`"name"`, `"slug"`, `"count"`,
`"insert"`, ...), in the order of the service's awaits; every step may fail. Names
are model values with two functions, `Lower` and `Base` (`generateSlug`), so that
C++ and C# share a slug and React and react differ in case. A violated constraint
is an error nobody catches (`Violated`): the drizzle-orm that is pinned, ^0.45.2, wraps
the driver's error in `cause`, and `postgresErrors.ts:18-24` looks at `error.code` only.
What a suggestion recovers from is the `ConflictError` of the check that comes before
the insert. `overlapped`, `stale` and `mixed` are histories
with which the invariants except requests that overlapped. `Career` is an
experience entry: `isCurrent` has a default in the schema that survives
`.partial()`, so that a PATCH without it writes `false` or is refused.

### `GenerationClient`, `PostEditor`

`hook[k]` is `useGeneratePostTopicsRun` or `useGeneratePostDraftRun`: POSTs under
way (`creating`), the run that is polled, what the last poll saw, and the two refs
with the callbacks of the latest `start()`. `run` is the outcome of each run, whose
flow is `AiRun`. `wizard` is the `AssistantState` union of
`PostGenerationAssistant.tsx`, `told` its `excludedIdeas` and `rejectedAngles`,
`resolving` the calls of `resolveAiTags` of `PostDraftReview.tsx`, and `form`
the fields of `PostForm.tsx`, reduced to whose text each holds, with the switch of
the automatic slug. A button that is not rendered or is disabled is a guard; a
handler that reads a closure's state takes the value of its render. A run need not
end: `AiRun_meant` shows accepted runs that stay queued or running, and those are
polled without a limit.

### `CoverField`

`client` is `useAdminUpload` (stage, upload, attempts, and whether the call it awaits is
one that is never answered), `value` what
`CoverMediaField` shows and the choice it comes from, `upload` the API's rows,
which the worker settles at any time, or twice, or never. The form can be saved
meanwhile: its button is not disabled.

The names in `CoverField` carry the prefix `Cover` where `PostEditor` has the same, so that
`PostForm_proofs` can extend both parts of the page. The `MC*` modules name the model
values and the symmetry set; the `_proofs` modules hold the theorems.

## Runs

Each `.cfg` says in its first line what it is about. All states of each passing
run are explored.

| Run | Configuration | Bounds | Shows |
|---|---|---|---|
| `sched_overlap` | `ScheduledPublish_overlap` | 3 requests, 2 at a time, 1 scheduling, 2 faults | `Consistent` (with `ScheduledHasTime`), `ScheduleNeverLost`, `LifecycleSafety` |
| `sched_serial` | `ScheduledPublish_serial` | 3 requests one by one, 2 schedulings, 3 instants, 1 fault | `PublishedIsVisible`, and `CarriedIsPublished` when outdated jobs fire |
| `image` | `ImagePipeline` | 2 confirmations, 2 PUTs, 4 faults, 3 attempts each | `Consistent` (with `ConfirmedOnce`, `ProcessedHasVariants`), `NeverStranded`, `LifecycleSafety`; `SettlesDespiteOneFault`, `EndsOnRecord` |
| `ai` | `AiRun` | 2 slots (the worker's concurrency), 4 faults of every kind | `Consistent` (with `OneWorker`, `ErrorExplainsStatus`), `QueuedIsCarried`, `LifecycleSafety`; `RunEnds` |
| `cache` | `ReadThroughCache` | 2 readers at a time, 2 writers, 1 fault | `Consistent`, `LockExclusive`, `BoundedStaleness`; `EveryRequestEnds`, `FreshAtLast` |
| `worker` | `WorkerProcess` | 3 events in batches of 2, 3 attempts; 2 notifications, concurrency 1, 2 attempts; 2 old rows per table in batches of 1; 3 faults, deaths and signals | `Consistent`, `DeadLettered`, `Cleaned`, `DoneIsDone`; `ValidIsPublished`, `NotificationEnds`, `Forgotten` |
| `comments` | `Comments` | 2 requests and 1 reader, 4 comments and one more, preview 3, pages of 2, 1 fault, 1 visit (`OneVisit`) | `Consistent` (with `CacheFollows`, `StillAhead`), `AllShown`, `CooldownHolds` |
| `catalogue` | `Catalogue` | 2 requests of any kind, 4 names of tags and 2 of skills, 3 rows, a cap of 1, 2 days | `Consistent` (with `KnowsInv`, `AcceptInv`, `DatesInv`), `SerialChecksHold`, `AcceptanceSurvives` |
| `editor` | `PostEditor` | 3 runs asked for, 2 edits of the form, 2 topics, 2 categories | `Consistent` (with `ShownIsAsked`, `SinceInv`), `RejectedIsTold`; `Settles` |
| `cover` | `CoverField` | 4 choices, 3 polls, calls that fail or are silent | `CoverConsistent` (with `UrlIsProcessed`), `NewestWins`; `UploadEnds` |

Why the bounds are enough. The interesting cases of a post need at most three
admin requests (schedule, withdraw, schedule again) of which two overlap, and
two times (before and after a reschedule). Faults are as many as attempts, so
that giving up happens, and one more, so that it happens after a crash or a lost
mark; for that the runs lower `OUTBOX_MAX_ATTEMPTS` from 5 to 2 or 3. In the
cache, two readers are a lock's holder and the request that falls through it,
which may come back as the next one to lock; a TTL of two units and a fetch of
one let an entry outlive a fetch and a lock expire. Three events are one more than
a batch, so that events which cannot be published may fill it before one that can;
two notifications at concurrency 1 are one in the worker's hands and one that
waits for it; two rows in batches of one make a cleanup take two batches and a
third that finds nothing. Four comments are a preview and a rest of a page, and the
request that adds a fifth begins another page. One reader is enough for a fill that is
overtaken by an invalidation; that several store one over the other is left to the
proof, which holds for any number. An open section asks neither the web server's page
nor the cache again and is asked nothing by them, so that it is followed (`OneVisit`)
with a page that is there, no entry and no fill: leaving their steps out removes only
interleavings with steps it does not see. Two requests are what a check before a
write can be overtaken by; a cap of one is reached by one of them. Three runs are a
draft, the one after it was sent back, and one more; four choices let an upload
begin, end and be outlived by two later ones. Requests to the API are
interchangeable: the runs without liveness use that symmetry.
`CHECK_DEADLOCK FALSE` is set where requests, instants or runs are bounded: when
they are used up and the work is done, the model rightly stops. `ReadThroughCache`
never stops, and is checked for deadlock.

Liveness is conditional in the property where faults are too many for the code
to cope: `SettlesDespiteOneFault` promises for at most one fault and an image
that can be decoded, `RunEnds` for fewer relay failures than relay attempts and no
other fault (an event that the relay gives up leaves its run queued for ever, and
`AiRun_meant` has the runs a crash leaves behind), `CarriedIsPublished` for a schedule
that has a carrier, `ValidIsPublished` for an event that can be published and fewer
faults than attempts, `Forgotten` for a table whose statement can succeed, `Settles`
for a run that is over, `UploadEnds` for calls that are answered. `QueuedIsCarried` is
claimed as long as no lock was lost, `CooldownHolds` as long as Redis answers,
`CacheFollows` as long as moderations of one comment do not overlap and no
invalidation fails or is over too early for a fill, `AllShown` as long as no comment is
withdrawn and none becomes public between a count and the rows read with it,
`SerialChecksHold` as long as no request overlaps, `AcceptanceSurvives` as long as no tag
is written between the check of a name and its insert, `PublishedIsVisible` as long as
requests do not overlap and the worker's clock is not ahead. Each exception
is shown to be needed by a configuration of the next section, except that of silent
calls, which is the absence of a timeout: `putToS3` sets none on its request
(`use-admin-uploads.ts:119-146`), nor does `fetch` in `lib/api.ts:99`.

Every property of a passing run has a mutant, an operator beside the one it
replaces (`AfterFailure_Silent`, `Claimable_AnyStatus`, `Releases_Always`, ...)
with which TLC finds the property violated.

## Where the code departs from what is said about it

Two runs expect a counterexample; `PROJECT.json` quotes the sentence each refutes.

| Run | What happens |
|---|---|
| `sched_active_kept` | An event relayed while the old job is active is marked processed, but the processor may already have read the row: the rescheduled post is left without event and job and is never published. |
| `image_reconcile` | The relay marks an upload failed although its job was enqueued in an earlier cycle. |

Further configurations show other departures, and what the conditions of the
properties above are there for. Each property they name is violated; those with
several report them all under TLC's `-continue`.

| Configuration | Property | What happens |
|---|---|---|
| `ScheduledPublish_raced` | `CancelSparesSchedules` | A cancellation decided from the row read before the transaction removes the job of a later request's schedule. |
| | `PublishedIsVisible` | Overlapping updates leave a published post without `published_at`, which no public list shows. |
| `ScheduledPublish_patch` | `OmittedStatusIsKept` | A PATCH without a status makes the post a draft: a Zod default survives `.partial()`. |
| | `DraftHasNoTimestamps` | "clear both timestamps" (`posts.service.ts:258`) clears one. |
| `ScheduledPublish_clock_skew` | `CasMissMeansHandled` | The processor compares with `Date.now()`, its UPDATE with the database's `now()`: with a fast worker clock the UPDATE matches nothing, and the job is done. |
| | `PublishedIsVisible` | The publisher stamps its own clock's time: published before the database's clock has come to it, the post is hidden until then. |
| `ScheduledPublish_stale_reschedule` | `RescheduleTakesEffect` | A failed older event, retried after a newer one, moves the job to the older time. |
| `ImagePipeline_unsettled` | `EndedJobSettles` | The processor's first query is outside its `try`: the job ends and the upload stays `uploaded`. |
| `AiRun_meant` | `ClaimMissIsHandled` | After a crash behind the claim the redelivered job takes the run for somebody else's: it stays `running`. |
| | `TerminalIsPersisted` | The terminal state is written as best effort, but the job is given up regardless. |
| | `CompletedIsFinal` | The save took effect and only its answer is lost: the catch block turns `completed` into `failed`. |
| `ReadThroughCache_refill` | `InvalidationClears` | A fetch that began before a change is stored after the invalidation, and stays for a whole TTL ("clears all post-related entries", `docs/caching.md:15`). |
| `WorkerProcess_meant` | `HoldsAllFailed` | A job that fails by stalling, or whose process ends under the listener, has no copy in the dead-letter queue. |
| | `ForgottenAnyway` | The scheduler's registration fails at startup, is logged and not tried again: nothing is cleaned until the next start. |
| `Comments_meant` | `TransitionsInvalidate` | A rejection decided on a pending comment, and so without an invalidation, is written after another request approved it and the cache was filled: the cache keeps a rejected comment. |
| | `PageFollows` | The web server's page is not revalidated by the API but by the admin's own hooks; `docs/caching.md:47` says that the API calls `/_internal/revalidate`. |
| | `NothingSkipped` | A comment withdrawn between two pages moves the next ones up by one. |
| | `NothingCutShort` | An older comment approved between the count and the rows of one read moves the last one to a page that the count says does not exist. |
| | `CooldownSurvives` | A key written while Redis answered is unknown to the local store, and the other way round. |
| `Catalogue_meant` | `CapAlways`, `NeverTwins`, `DatesAlways` | Overlapping requests pass the highlight cap, create names that differ in case only, and leave an entry that ends before it starts. |
| | `SuggestionMeant` | A suggestion whose slug another name has (C# with C++) is resolved to that tag. |
| | `RacesAreHandled` | A tag written between the check and the insert of a suggestion violates the constraint. The violation comes wrapped and is not recognised: the recovery written for it is not reached, and the acceptance fails (`tags.service.ts:173`). |
| `PostEditor_rejected` | `FailureIsShown` | A POST that is refused rejects a promise nobody awaits: the assistant waits on, although the API answers and every run ends (`ServedSpec`). |
| `PostEditor_meant` | `AutoSlugSyncs` | Switched on again, the automatic slug is not the title's until the title changes. |
| | `AppliedIsShown` | A draft discarded while its tags are created is written into the form all the same. |
| `CoverField_saved` | `SavedWithCover` | The form is saved while its cover is uploaded, and the post has none. |

## Fairness

Weak fairness only, and only of what the code's scheduling provides:

- the relay, because `index.ts` polls the outbox on an interval for as long as
  the worker lives, and each of its steps is an `await` that returns;
- BullMQ's own steps (handing out a waiting job, promoting a due one, the
  stalled-job check), which it runs on timers;
- the processors, because every call they make returns or fails: the provider
  within `AI_POSTS_TIMEOUT_MS`, the others by their client's timeouts;
- the clock, and in `ReadThroughCache` the steps of a request or an
  invalidation that has begun: each awaits one call that returns or rejects;
- in `WorkerProcess`, the start of a process that is down (`restart:` of the compose
  files), the poll timer, the daily scheduler, and the steps a cycle, a listener
  or a shutdown has begun. Telegram owes nobody an answer: only the timeout of
  the call is fair;
- in `PostEditor`, the polling only, which React Query repeats while a component is
  mounted, after an error too: one of the polls that follow a run's end is taken to be
  answered. Nothing is asked of the API and the worker; `ServedSpec`, in which they
  answer every POST and end every run, serves only to refute `FailureIsShown`;
- in `CoverField`, the client's own calls and polls as long as none is silent, and
  nothing of the worker.

Administrators, visitors and their requests, PUTs, confirmations, arriving
readers, writers, signals and faults are never fair. Faults are bounded: the code
retries a bounded number of times and then gives up by design, so nothing must
happen if everything fails. `Comments`, `CommentsSection`, `Catalogue` and `Career`
state no liveness: a request there ends because each of its calls does.

## Proofs

`tlapm` checks every leaf. The assumptions are the named ones of each module:
finite sets of requests, confirmations and slots, naturals for bounds, positive
attempt limits and TTLs, and of the names in `Catalogue` that `Lower` and `Base` map
names to names and that names which differ in case only have one slug, as
`generateSlug` begins with `toLowerCase`. Nothing is assumed of how many faults
happen or when.

| Theorem | Says |
|---|---|
| `ScheduledPublish_proofs!ConsistentAlways` | the inductive invariant, for any clock skew |
| `ScheduledPublish_proofs!ScheduledHasTimeAlways` | `status = scheduled` exactly when `scheduled_at` is set |
| `ScheduledPublish_proofs!PublishedIsVisibleAlways` | a published post has a publication time that has come, if administrators act one at a time (`MaxInFlight = 1`) and the worker's clock is not ahead (`Skew <= 0`) |
| `ScheduledPublish_proofs!ScheduleNeverLostAlways` | a post that is scheduled once keeps a carrier or the failure is on record (`MaxSchedules <= 1`, `Skew <= 0`) |
| `ScheduledPublish_proofs!LifecycleSafe` | every step is a step of `PostLifecycle` or a stutter |
| `ImagePipeline_proofs!ConsistentAlways`, `ConfirmedOnceAlways`, `NeverStrandedAlways` | one confirmation takes effect; an unsettled upload is carried or its failure is on record |
| `ImagePipeline_proofs!LifecycleSafe` | every step is a step of `UploadLifecycle` or a stutter |
| `AiRun_proofs!ConsistentAlways`, `OneWorkerAlways`, `ErrorExplainsStatusAlways` | one slot works; error and status agree |
| `AiRun_proofs!QueuedIsCarriedAlways` | a run that waits to be claimed is carried, or the failure is on record, while no slot loses its lock |
| `AiRun_proofs!LifecycleSafe` | every step is a step of `RunLifecycle`, so claims never exceed attempts plus stalls |
| `ReadThroughCache_proofs!ConsistentAlways`, `LockExclusiveAlways` | one request at most fetches under the lock, where the lock outlives a fetch |
| `ReadThroughCache_proofs!BoundedStalenessAlways` | every step is a step of `BoundedRead` or a stutter: no answer is staler than the TTL and one fetch |
| `WorkerProcess_proofs!ConsistentAlways`, `DoneIsDoneAlways` | one cycle at a time, which knows its events as they are but for one whose mark had its answer lost; an event that is done is never pending again, and is written to in that case only |
| `WorkerProcess_proofs!DeadLetteredAlways` | only jobs that are over are in the dead-letter queue, and each that used up its attempts unless its copy was lost |
| `WorkerProcess_proofs!CleanedAlways` | a complete retention job left nothing from before its cutoff, a failed one nothing in the tables it does not name |
| `PostForm_proofs!CoverConsistentAlways`, `NewestWinsAlways` | the cover field never goes back to an earlier choice |
| `PostForm_proofs!ConsistentAlways`, `RejectedIsToldAlways` | the draft under review is the one asked for last; what was sent back is told in every later request for its topic |
| `CommentsSection_proofs!CacheFollowsAlways` | the cached detail shows the public comments as they are, once moderation is done, unless moderations of one comment overlapped, or an invalidation failed or was over before the fill stored what it had begun to read |
| `CommentsSection_proofs!CooldownHoldsAlways` | no second comment of an address passes the check within the cooldown, while Redis answers |
| `CommentsSection_proofs!ConsistentAlways`, `AllShownAlways` | a visitor who loads all pages sees every comment that was public when the page was rendered, unless one was withdrawn, or became public between a count and the rows read with it |
| `Career_proofs!ConsistentAlways`, `SerialChecksHoldAlways` | the cap, the names and the dates hold as long as no request overlaps another one about the same table |
| `Career_proofs!AcceptanceSurvivesAlways` | an acceptance of suggestions fails only if a tag was written between the check of a name and its insert, or was renamed or deleted |

The argument is the same in each module: `Consistent`, or `Consistent` with the
properties themselves, is inductive. Two theorems about `ScheduledPublish` state a
further hypothesis, since without it the property is false of the code: the
configurations that refute it are named below. Two about `WorkerProcess` assume that two
constants agree.

- *ScheduledPublish.* What a request holds between its read and its commit must be
  consistent in itself (`RequestInv`: the status it will write is `scheduled`
  exactly when it will write a time), since the commit overwrites the row
  whatever happened in between; the publisher's UPDATE clears `scheduled_at` with
  the status. That the publisher is never early needs nothing more: its UPDATE
  repeats the condition. `PublishedIsVisible` is refuted by overlapping updates
  (`ScheduledPublish_raced`), hence `MaxInFlight = 1`, and by a worker clock that is ahead
  (`ScheduledPublish_clock_skew`), hence `Skew <= 0`: the processor stamps its own. What is left to show is that a
  patch which keeps the publication time, because it saw a published post, still
  finds one at its commit, while the worker may publish in between (`StampInv`).
  `ScheduleNeverLost` is refuted for a second scheduling (`sched_active_kept`) and for
  a worker clock that is ahead (`ScheduledPublish_clock_skew`), hence the bounds on
  `MaxSchedules` and `Skew`. For one scheduling, `OnceInv` follows the one event
  through the relay and the queue: until it is marked processed there is an event,
  from then on a job, and a job that is over did its work or left the failure.
- *ImagePipeline.* `ConfirmedOnce` ties the row, the event and the answers
  together: the conditional UPDATE and the event are one step. `NeverStranded`
  needs that an event marked processed has a job (`JobInv`), that a run which
  ended well has settled the row (`RunInv`), and that a pending event has
  attempts left (`RelayInv`), or it would never be selected again. A mark whose answer
  was lost leaves the relay with a processed event in its `catch`: then the job was
  added in this cycle (`relay.published`), so that nothing is reconciled.
- *AiRun.* `OneWorker` needs that a slot at work implies a run that is not queued
  (`WorkInv`), since only a queued run is claimed; the catch block, which writes
  without a condition, must find its slot the only one. The bound on claims is a
  count (`ClaimInv`): claims plus undecided deliveries never exceed attempts
  plus stalls, plus one while the job is active or completed. `QueuedIsCarried`
  follows from `CarryInv`: while locks hold, the one slot with work is the holder of
  the job, so that the job cannot be completed when the run is put back to queued.
- *ReadThroughCache.* `EntryInv` adds the age of the stored version to the time
  the entry has left: a tick moves both by one, a store starts with what the
  fetch took (`FetchInv`), so that the sum never exceeds TTL plus fetch. That the
  release deletes a lock without asking whose it is does no harm because the
  lock's time left and the age of its holder's fetch add up to the lock's TTL
  (`LockInv`).
- *WorkerProcess.* `RelayInv` says that the guard admits one cycle, and that this
  cycle's copies are the events as they are, since nobody else writes them, except
  the event in hand after a mark whose answer was lost: that one is processed, and the
  `catch` counts an attempt on it. Hence what `DoneIsDone` allows, and no more: no
  event comes back, and no cycle writes to a processed one from an old copy. `JobInv` lets
  `DeadLettered` count: a job that is not given up has attempts left. `ConsistentAlways`
  and `DeadLetteredAlways` assume `AttemptsAgree`, that the listener's `maxAttempts`
  is the queue's `attempts`, which the code keeps in two places (5 and 5); the
  other two do without. `RunInv` says of a retention job at step *i* that
  the tables before *i* are clean or named among its errors.
- *CoverField.* `ClientInv`: an upload under way is of a choice no earlier than the
  one the field shows, because every choice that changes the field without an
  upload is unavailable while there is one.
- *PostEditor.* The page offers nothing that asks for a run while it waits for one,
  so that a hook waits for the latest run only (`PendingInv`) and its end reaches
  the callbacks of that run (`AskedInv`). `RejectedIsTold` needs to know what has
  become of every draft since the angles were cleared (`SinceInv`): it has ended,
  except the one that is waited for, and if it completed its angle is in
  `rejectedAngles`, except that of the one under review, which `Regenerate` adds.
- *CommentsSection.* `CacheFollows` needs the same of the fills on their way
  (`FillsFollow`). A write that is followed by no invalidation changes nothing that is
  public (`QuietWrite`), because the status it found is the one that was read, or `raced`
  records it; while one is followed by an invalidation neither is claimed (`Quiet`), and
  when it is over the entry is deleted or absent, or `missed` is set, as it is of
  every fill that had begun to read. `AimInv` says that a rejection writes `rejected`. `CooldownHolds` needs `ReservedFirst`: without a fault,
  a request about to insert has its key in Redis, and the key outlasts the insert.
  `AllShown` rests on the places of comments in the list (`Place`, the number of public
  rows up to a row): approvals only append behind, so that while nothing is withdrawn
  what was public and is not loaded lies on the page that is being read or on those
  still to be asked for (`StillAhead`), and the total read with a page counts them unless it
  was read before an approval (`short`).
- *Catalogue, Career.* What a request found out holds until another one writes its table
  (`KnowsInv`: the name is not taken, there is room under the cap, the columns it
  leaves alone are as it read them); a write marks those requests stale, so that one
  that is not stale keeps the promise when it writes, and one that is stale puts its
  table among the `overlapped`. For the dates of an entry `DatesInv` is the same.
  That an acceptance survives has another reason, which does hold under overlaps:
  while no tag is renamed or deleted tags only accumulate, so that what a check met
  is still there to be found (`Resolvable`), and the names that are
  left differ in their slugs from all tags that are resolved to (`Apart`), so that it
  was not resolved to before. A constraint that is met at the insert is not recovered
  from, so a request whose check is older than another one's write is excepted
  (`RacesAreHandled`, without the exception, is refuted by `Catalogue_meant`).

Only model-checked: liveness under fairness (`CarriedIsPublished`,
`SettlesDespiteOneFault`, `EndsOnRecord`, `RunEnds`, `EveryRequestEnds`,
`FreshAtLast`, `ValidIsPublished`, `NotificationEnds`, `Forgotten`, `Settles`,
`UploadEnds`), which needs ENABLED. Every safety property of a passing run is proved,
four of them under the hypotheses named above.

## What is not modelled

Components:

- *The sliding window of the rate limiter*: one MULTI of Redis for each request,
  numbered by the one process's clock, so that its count is Redis's atomicity.
  Its local fallback is not modelled; the cooldown with its fallback is.
- *AI model catalogue and settings*: one row that is upserted whole. A model that
  disappears between saving and use is a failing call to the provider in `AiRun`.
- *Synchronous generation*: one call within one request, without a row.
- *Admin authentication*: the login's state is one key of Redis that one atomic
  command consumes, a session is a signed cookie; there is no order of steps.
- *Analytics*: inserts whose failure is ignored by design.
- *Public reads, text processing, schemas, the user interface beyond the parts
  named above, OpenAPI descriptions, seeds, icons, deployment*: renderings, tables
  of data and functions of text, without state whose steps could interleave. They
  are most of the repository's lines.

Within the modelled ones: the content of posts, images and drafts; slugs, tags and
caches of the post service; time in `ImagePipeline` and `AiRun` (a backoff ends at
some point); a run without a model id, which the API never creates; the expiry of
presigned URLs; the relay's batch size in `ImagePipeline` and `AiRun`, where one
event is followed (`ScheduledPublish` and `WorkerProcess` have it); corrupted cache
entries, which nothing writes; `resume:aggregate`, whose fetcher reads other cached
lists, so that its staleness adds to theirs; the category of a tag and the icons;
`UploadDropzone`, the second user of the upload hook; the periodic snapshots of the
queues and listeners that only log; the fields of the post form that nothing else
reads. A second address in `Comments` would share nothing with the first.

Two worker processes are not modelled: the compose files run one. Two relays would
select the same rows (the query takes no lock), and only the deterministic job ids
would keep their deliveries apart.

## Running the checks

```
tlc -workers 2 -config ImagePipeline.cfg MCImagePipeline
tlapm ImagePipeline_proofs.tla
```

Every module parses on its own; `PROJECT.json` lists runs, mutants, findings,
hazards and theorems.
