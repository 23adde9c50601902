# Riviso: a TLA+ specification

Riviso plans, writes and publishes SEO articles. A user schedules articles; the
program generates text and images with a language model and posts them to
WordPress (or Shopify, or LinkedIn) at the chosen time; plans are paid through
Razorpay. This directory specifies the parts of the program whose correctness
depends on what several processes, browser pages or late answers do to the same
documents, and one algorithm of the browser whose arithmetic is hard to test. TLC
checks the specifications on small instances; TLAPS proves the most important
results for every instance.

Line numbers refer to the files of the repository as they were when the modules
were written. `PROJECT.json` maps every definition to the lines it models.

## 1. Inventory

### 1.1 Processes

`Procfile` and `docker-compose.yml` start three kinds of process: `web` (FastAPI
handlers), `worker` (the generation worker) and `scheduler`; without their
settings, `config.py:126-135` runs all three in one process. They share MongoDB
(through `storage.py`) and a Redis queue. The deployment runs exactly one scheduler
(`Procfile:7`, `backend/docs/RIVISO_DEPLOYMENT_GUIDE.md`); any number of requests
and several tasks of the worker run at a time. Inside a process the code is
cooperative: it can only be interrupted at an `await`, and nearly every `await` is
a call of the store, of Redis, of the model or of a remote site. Calls of the store
run in threads of their own. The lock of `storage.py` is one of the process and
orders nothing between processes. The browser is a process as well: its pages poll,
and what they show may be older than what is stored.

### 1.2 Components

| Component | State | Operations | Hard behaviour | What makes it correct |
|---|---|---|---|---|
| Scheduled publishing (`scheduler.py`, `scheduled_jobs.py`, `schedule_timing.py`, `wordpress_publish.py`, publish and schedule routes of `articles.py`) | `scheduled_jobs` rows, post id of each article, posts on the site | schedule, edit, reschedule, retry, cancel, clear, heal, claim, prepare, publish, Post Now, publish request | three publishers; rows rewritten from stale reads; crashes between post and record; lost replies | one post per article; a post is recorded; "posted" is true; every due row settles |
| Generation queue and worker (`generation_queue.py`, `generation_worker.py`) | Redis list, dedup keys, account slots, running tasks | enqueue, pop, run, clear key | pop before work; keys that expire; restarts | no preparation is lost for good; one of the button's runs of an article at a time |
| Article pipeline (`article_pipeline.py`) and generation in the browser (`api.ts`, the editor page) | the article's text, status, time and error; what each page waits for and shows | generate, charge, save, refund; poll, load, give up | dropped duplicates, overlapping runs of four callers that share neither key nor lock, failures that must be heard of | a page shows the text it asked for; no older text over a newer one; a published article stays published |
| Payments and renewal reminders (`payments.py`, `subscription_reconcile_service.py`) | `payments`, `webhook_events_seen`, `subscriptions`, plan of the user | open an order, verify, webhook, sweep, remind | three confirmations of one payment; repeated and lost webhooks; late failures; lists written back | only captured orders are granted; every one is, once recorded or found; no reminder twice |
| Plan gates and usage counters (`plan_gatekeeper.py`, `storage.py` consume/refund) | counters in the user document | charge, refund, count tokens, roll over | read and replace of a whole document; a check minutes before the count; midnight | never above the limit; failed work is given back; no plan undone |
| Storage (`storage.py`, `database.py`, `storage_db.py`) | documents, one lock per process | update, patch, claim, insert, delete | two commands per update; retries that do not know what happened | every call takes effect in one step |
| Bulk schedule form (`bulkScheduleDates.ts`, `useBulkScheduleForm.ts`, `BulkScheduleForm.tsx`) | the form, the clock it last saw | open, edit, submit | prompts that arrive late, a clock that is stale, months too short for the plan | apart, on the chosen days, within the number, in the future |
| LinkedIn autopost | LinkedIn rows | schedule after a publish | check, then insert | one share per article |
| SEO crawl, AI citation checks, research jobs | status documents | start, progress, cancel, finish | cancel against progress; worker restart | a run ends in a final state |
| Accounts, collaboration, trial reminders | codes, invitations, memberships | issue, use, accept, remind | use of one code twice; acceptance after withdrawal | used once |
| Everything else: site clients, imports, indexing, text tools, forms, the rest of the frontend | documents of one writer | | network and model I/O | not a matter of interleaving |

`PROJECT.json` lists these parts one by one with their status, and under
`hazards` the places in the code where something can go wrong that a test would
hardly reach.

### 1.3 How they interact

* A request handler writes a row and enqueues an entry; a worker task pops it and
  rewrites the row; the scheduler polls and claims the row and rewrites it again.
  The only atomic test-and-write among all these is
  `claim_scheduled_job_for_posting` (`storage.py:5933`).
* A row and its article have one name: the id of the row is a digest of project
  and article (`articles.py`, `_persist_schedule_row`), so scheduling an article again
  overwrites the row that others may be working on.
* A generation is asked for by a page, queued by the `web` process, run by the worker
  and seen by pages that poll a small status document; on its way the worker charges
  the account's counters.
* Every one of these reads and writes is a call of `storage.py`, most of them through
  `call_storage`, which comes again after a transient error.
* The sweep of the payments runs in the scheduler process every 15 minutes
  (`scheduler.py:1667-1679`); `/verify` and the webhook run in the web process.
* The store outlives every process, the queue outlives the worker, and a popped
  entry does not.

## 2. Modules

| Module | Contents |
|---|---|
| `PublishOnce` | abstract specification: an article gets one post and then records it for good |
| `ScheduledPublishing` | rows, queue, dedup keys, scheduler, worker tasks, requests, site; composes the publishing component with the queue and worker it depends on |
| `MCScheduledPublishing` | the editing requests, for the configurations |
| `ScheduledPublishingProofs` | type correctness |
| `ScheduledPublishingSafety` | safety theorems, who owns a row that is being posted, and the refinement |
| `Payments` | orders, Razorpay, three confirmations, sweep, reminders |
| `MCPayments` | one buyer, for the configurations |
| `PaymentsProofs` | type correctness and three safety theorems |
| `ArticleGeneration` | one article and all the runs that write it, from the button to the text on the screen: pages, queue, worker, preparations, clusters |
| `MCArticleGeneration` | pages of one account |
| `ArticleGenerationProofs` | type correctness and four safety theorems |
| `UsageQuota` | the counters of an account, charged, given back and rolled over |
| `MCUsageQuota` | one account with two plans |
| `UsageQuotaProofs`, `UsageQuotaBooks` | type correctness and plans; the books, the limits and the budget |
| `RowCalls` | the calls of the store about a row, and what each does to it |
| `AtomicRow` | abstract specification: every call takes effect in one step |
| `RowStore` | the calls as `storage.py` makes them: lock, two commands, retries |
| `MCRowStore` | seven calls that the program makes |
| `RowStoreProofs` | type correctness, the claim, and that `RowStore` implements `AtomicRow` |
| `BulkSchedule` | the calendar, the cadences and the form |
| `MCBulkSchedule` | a calendar from November 2026 |
| `BulkScheduleProofs` | numbers, calendar and slots; type correctness and the five promises of the cadences |

`ScheduledPublishing` takes a call of the store for one step on the fields it names;
`RowStore` says how `storage.py` makes it so, and `StoreIsAtomic` proves that it does
when the callers share a process, or when none of them uses the read-and-replace
form of a write. `ArticleGeneration` and `UsageQuota` are two
views of the same worker task: its article and its account.

Operators named as mutants in comments (`RowHasPost`, `PayFirstPeriod`, ...) are
not part of any specification. Each is an altered form of the definition that
follows it, of the kind an editing mistake would make, and each property below is
known to fail when the definition is replaced by that form.

### 2.1 ScheduledPublishing

*State.* `job[j]` is a row: `state` (the eight states of the code and `none` for no
row), `wp` (the row holds a post id), `attempts`, `retry` (the error message is one
the scheduler retries by itself) and `age` (`updated_at` compared with three and
with 45 minutes). `phase[j]` compares `run_at` with the clock: before the
preparation window, inside it, due. `art[j]` is the article: what there is of its
body and image, and whether it holds a post id. `posts[j]` counts the posts that
really exist on the site. `queue` and `dedup` are the Redis list and keys.
`act[a]` is where each actor is: the scheduler, each worker task, each request.
It also keeps what the actor read and has yet to use, which is what makes stale
decisions possible. `tick[s]` is what the current poll read.

*Actors.* One action per stretch of code between two awaits.

| Code | Actions |
|---|---|
| `scheduler_loop`: reads, heals, dispatches | `Poll`, `Scan`, `HealStalled`, `Dispatch`, `HealFailed` |
| `scheduler_loop`: one row | `Claim`, `LoadArticle`, `Prepare`, `Generated`, `GenerationFails`, `Reload`, `MarkPosted`, `Hold`, `Publish`, `ReplyLost`, `PublishFails`, `RecordJob`, `RecordArticle`, `RecordFails`, `Fail`, `FailIsLost`, `EndTick` |
| worker, `_handle_scheduled_prep` | `Dequeue`, `StartPrep`, `DeferPrep`, `MarkGenerating`, `MarkReady`, `ClearDedup` and the shared preparation |
| worker, `_handle_scheduled_post_now` | `StartPostNow`, `AwaitPrep`, `PostNowArticle` and the shared publishing |
| routes on rows | `Receive`, then `Schedule`, `Reschedule`, `Edit`, `RetryPreparation`, `StartPreparation`, `Put`, `Cancel`, `ClearAll`, `HealStalePosting`, `PostNow` |
| publish request | `PublishRows`, `PublishClaim`, `PublishCheck` and the shared publishing |
| clock and failures | `Advance`, `Age`, `ExpireDedup`, `WorkerStops`, `SchedulerStops` |

Preparing and publishing are written once and shared by the three publishers, as
in the code; where the publishers differ (who saves the row first, who looks again
before failing a row) the action distinguishes them.

*Faults* are chosen by a constant: generation fails, publishing fails, a generation
mismatch that is retried, the quota is exhausted, a reply is lost after the post was
created, the store refuses a write, a preparation takes more than 45 minutes, the
worker or the scheduler crashes.

### 2.2 Payments

*State.* `razorpay[o]` is Razorpay's own record of an order, `pending` the webhook
events it has not seen acknowledged, `payment[o]` the record in the store (its
status and whether it is older than 15 minutes), `seen` the deduplication collection,
`sub[u]` and `plan[u]` what the user has been given, `elapsed[u]` how many reminders
of the billing period have fallen due. `granted`, `sent` and `cut` are history: the orders
that extended a period, the notifications inserted in the current period, and the orders one
of whose handlers was cut short between recording the payment and extending the period.

*Actors.* `Verify`, `Reject` (`/verify`); `Deliver`, `HookMismatched`, `HookFailed`
(the webhook); `StartSweep`, `Fetch`, `Expire` (`reconcile_pending_payments`);
`StartReminders`, `ReadSubscription`, `Remind`, `SaveReminders`, `EndSweep`
(`check_renewal_milestones`); `Look`, `Pay`, `Extend`, `Assign`
(`_mark_payment_paid`, run by all three); `CreateOrder`, `Capture`, `Misfire`,
`LoseEvent`, `GrowOld`, `PeriodElapses` (users, Razorpay, the clock);
`Interrupted` (an exception, or the end of a process).

Razorpay is external. It is modelled by what the code relies on: an open order may
be captured once, after any number of declined attempts (one event stands for
them); an event is delivered until it is acknowledged, possibly to several handlers
at a time; with the fault `lost` it may be given up.

### 2.3 ArticleGeneration

*State.* `article` holds what generation touches: whether there is a body, when it
was written (`text`), the stored `generated_at` (`genAt`, in seconds, as in the code), whether an
error is recorded, the status, and whether it is live on a site. `key` is the dedup key of the
button's jobs. `job[j]` is a run that writes the article, with its `kind`, the account that asked, the
status it will fall back to and the time of the text it holds. `tab[t]` is an editor page: what it
waits for, when it asked and what it shows. `overtaken`, `expired`, `mixed` and `tab[t].ignored` are
history; `mixed` says that a preparation was at its text while another run was.

*Four callers* run `execute_article_generation` for an article. They share neither a key nor a
lock, and `POST /generate` refuses none of them:

| Kind | Caller | Dedup key | Account's slot |
|---|---|---|---|
| `generate` | the button's job in the worker | `gen:pid:aid` | from the decision to write until the text is saved and applied |
| `cluster` | `generate_all` of a topic cluster, for the article it has just inserted | none of the article | yes, of its owner |
| `prep` | `prepare_article_for_scheduled_job` for a scheduled preparation or Post Now, in the worker | `prep:` or `postnow:` (that of the row; no matter here) | no |
| `inline` | the same function, in the scheduler process | none | no |

| Code | Actions |
|---|---|
| `POST /generate` | `Generate`, `Put`, `Answer` |
| worker and pipeline | `ReadRow`, `ClearError`, `TakeSlot`, `Draft`, `Save`, `Apply`, `RecordError`, `Free` |
| cluster | starts in `Init`, then `Draft`, `Save`, `Apply`, or `Abandon` |
| preparation | `StartPrep` (reads the article and decides), `Draft`, `Save`, `Abandon`, `AddImages` |
| page (`api.ts` polling, `ArticleGenerationProgress.tsx`) | `Poll`, `GiveUp`, `Load`, `Watch`, `HearError`, `Reload` |
| elsewhere | `GoLive` (someone publishes), `Crash` (the worker or the scheduler, abruptly or in good order), `ExpireKey`, `Tick` |

A preparation of an article that has a body writes no new text: it adds inner images to the body
it read and saves that body (`AddImages`), minutes later and without `generated_at`. One that has
none generates a text and then does the same. The queue is a set, since the worker starts every
job it pops as a task of its own. Whether a page accepts a text is decided from timestamps of
one-second resolution.

### 2.4 UsageQuota

*State.* `doc` is the user document: the plan and three counters with the day or month
each was last written in. `actor[a]` is a generation, a publish request or a payment, with
its copy of the document between reading and replacing. `today` is the day;
`bought` and `late` are history.

*Actions.* `Load`, `Check` and `Generate` are the pipeline's; `Publish` and `Pay` the
requests'. Each calls one of four operations (charge, refund, tokens, assign), which
share `Read`, `Refuse`, `Replace` and `WriteFails`: `storage.py` reads the document under
the lock of the process, changes the copy and replaces the whole. The day is stamped
before the lock is awaited, as in the code. `Crash` and `Midnight` complete the picture.

### 2.5 RowStore

*State.* `row` is a `scheduled_jobs` document, `lock[p]` the lock of a process, `call[c]` what
a caller has under way and the copy it read. `claimed` is history.

*Actions.* `Ask` (a handler calls), `Command` (patch, claim, insert and delete: one
command to MongoDB), `Read` and `Replace` (`update_scheduled_job_fields`: two), `Refused`
(a command fails before it is carried out), `LoseReply` (it was carried out and the
connection broke: `run_with_retry` comes again), `GiveUp` (last attempt), `Return`, `Stop`
(the process ends, and with it its calls and lock).

The calls are records of a kind, the fields they write and the states they ask for; the
module takes any set of them. Articles have the same two forms
(`update_article_fields`, `patch_article_fields`).

### 2.6 BulkSchedule

*Calendar and cadences.* Days are numbers, month lengths a constant sequence; `Weekday`,
`MonthOf`, `MondayOf` and their like are the date arithmetic of `bulkScheduleDates.ts`.
`Slots` (which appends a `NextSlot` for each article), `Candidate` (weekly or monthly) and
`Spread` (which puts each moment where it is `Alone`) are its functions. A loop that builds a
list is a recursive function; a loop that searches is `Least(n, Good)`, the first number up to
`n` that is good. The code's own bounds are 400 days or none (`while (true)`); the
bounds here are seven days for a posting day and the number of articles for the rest, and
section 4 shows that the searches always succeed within them.

*Form.* `Open`, `PromptsArrive` (the effect that refills the form), `SetMode`, `ToggleDay`,
`SetPer`, `SetPreferred`, `SetStart`, `RefreshMin` (twice a minute), `Submit`, `Cancel`, `Tick`.
That nothing is submitted for the past is the doing of one guard, `Valid` in `Submit`, and no
property repeats it.

## 3. What is checked

Every passing run but one also checks for deadlock: the system cannot stop there. In
`UsageQuota` each run, request and payment happens once, and the instance ends with them.

| Run | Instance | Properties | Shows |
|---|---|---|---|
| `SingleScheduler` | 1 row, scheduler, worker task, request; 2 editing requests; generation and publishing fail, slow preparation | `TypeOK`, `AtMostOnePost`, `EveryPostIsKnown`, `PostedHasPost`, `PostingHasOwner`, `PublishesOnce` | with the deployed single scheduler no interleaving of edits and preparations posts twice, forgets a post or strands a row |
| `SchedulerProgress` | no requests; worker crash, retries; fairness | `DueJobsSettle`, `PreparationEnds`, `FailedPostIsHealed`, `RecordsItsPosts` | due rows settle, lost preparations heal, a failed row with a post is corrected, every post is recorded |
| `Publishers` | scheduler, Post Now and publish request; lost replies, refused writes, both crashes | `PostedHasPost`, `PublishesBody` | what still holds when these publishers and all faults meet |
| `Payments` | 2 orders of a user, 2 reminders, declined attempts; fairness | `PaidIsGranted`, `RemindedOnce`, `CapturedIsGranted`, `DueRemindersSettle` | renewals, failures, webhook and sweep in any order |
| `PaymentFaults` | 1 order, all faults, all three confirmations, two webhook handlers | `TypeOK`, `OnlyCapturedIsGranted`, `PaidIsGranted` | nothing is given away, whatever fails; a paid order loses its period only to a handler cut short between the two writes |
| `SafetyNet` | 1 order, webhooks lost, no obligation to call `/verify`; fairness | `PromptlyCapturedIsGranted` | the sweep alone suffices for an order paid within 15 minutes |
| `Generation` | 2 pages of an account, 2 runs of any kind, 2 seconds, all faults | `TypeOK`, `ShownIsAsked`, `OneRunAtATime`, `PublishedIsNotDemoted`, `TextsAreSavedInOrder` | whatever preparations and clusters do: one of the button's jobs at a time, and no published article demoted. Unless a preparation is at its text while another run is: no page with a text older than its request, no older text over a newer one |
| `UsageQuota` | 2 generations with the account's slot, a preparation without it, a publish request, a payment; 3 days, failing generations and writes, a crash | `TypeOK`, `BooksBalance`, `NotOverdrawn`, `BudgetHolds`, `PlanIsKept` | the counters say what was charged; limits hold; the token budget is exceeded only by runs without the slot; a plan is not undone |
| `RowStore` | 3 callers of a process, 7 calls, all faults | `TypeOK`, `ClaimHolds`, `OnlyNamedFieldsChange`, `TakesEffectAtOnce` | every call takes effect in one step, whatever is refused, repeated or stopped |
| `BulkSchedule` | a Wednesday in November 2026, up to 5 articles, 4 weekdays, 2 hours, 4 start dates, every number of posts | `TypeOK`, `ApartAndAfterStart`, `WeeklyOnPostingDays`, `EveryPeriod`, `WeeklyQuota`, `MonthlyPlan` | what the form proposes is apart, on its days and within its number |

Two runs show where the code does not do what its comments say. Each checks one such
sentence, which `findings` in `PROJECT.json` quotes:

| Run | Violated | In short |
|---|---|---|
| `ManualPublish` | `AtMostOnePost` | a publish request that finds the row already `posting` claims nothing and posts beside the scheduler |
| `UnreportedFailure` | `FailureIsReported` | the status document leaves out the recorded error, so the page of a failed run polls until its deadline |

Other sentences of the repository turned out not to hold while the modules were
written. Where the sentence is a formula, it stays in its module, and an instance like
those above refutes it; no configuration is kept for it.

* The claim "is what prevents duplicate WordPress posts" (`scheduler.py:1289-1292`), but a
  publisher that has it sends a publish that timed out after the post was created again, to
  the next endpoint (`wordpress_publish.py:134`; `AtMostOnePost` with lost replies).
* A row moved to a later time after the poll is posted at its old time: the claim
  (`scheduler.py:1297`) compares the state and not `run_at`, while the docstring (1158-1159)
  speaks of due items (`PublishesDueItems`).
* `DELETE` of a row decides from the row it read. Posted in between, the row ends up
  cancelled, against the route's own message (`scheduled_jobs.py:746-747`,
  `PostedIsNotCancelled`).
* A declined attempt makes the record of an order `failed`. If the confirmations of the
  second attempt are lost, the sweep does not look at the order (`storage.py:5418`), though
  `payments.py:7-9` and `storage.py:5412-5413` present it as the safety net
  (`PromptlyCapturedIsGranted` with declined attempts).
* The same words, of Post Now: it claims nothing. The request writes `posting` over
  whatever the row has become since it was read (`scheduled_jobs.py:707`), and its task
  publishes with `already_claimed` (`AtMostOnePost` with Post Now beside the scheduler).
* "Whichever arrives first does the work; the other is a safe no-op" (`payments.py:4-8`, of
  `/verify` and the webhook). A handler that is cut short after it recorded the payment (210) and
  before it extended the period (214) leaves the other to find the order paid and to do nothing
  (196-197); the sweep looks for created and attempted orders only. The order is paid and has no period
  (`SecondIsSafeNoOp` with interrupted handlers).
* "UTC timestamp of the last successful generation — used by the frontend poll to detect when a
  regeneration has produced fresh content" (`schemas/articles.py:234`). A preparation reads
  the article, builds inner images for minutes and saves the body it read
  (`inner_images.py:400`) over a text that the button's run saved in between; that text
  is lost and its `generated_at` stays, beside the older one (`FreshAsStamped`). A text
  that is stamped (`article_pipeline.py:287`) and saved after its images (340) may be overtaken
  in the same way, since preparations do not take the account's slot (`generation_worker.py:104`).
* The sweep writes its list of reminders back over the one that a renewal has just
  cleared: the new period lists reminders of the old one and never sends them.
  `payments.py:221-222`: "Reset so the new cycle's own 7d/3d/1d/expired reminders can fire
  again" (`ListedRemindersWereSent`).
* A unit charged before midnight and given back after it lowers the counter of the new
  day if that day has counted something; `storage.py:898-900` calls the refund a no-op
  (`RefundAfterMidnightIsNoOp`).
* "First article publishes on the first posting day on or after this date."
  (`BulkScheduleForm.tsx:111`): not when that day's hour is past (`StartsOnFirstPostingDay`).
  "Posts rotate across selected days each month.": not when the rest of the month lacks
  the day (`MonthlyOnPostingDays`). Prompts that arrive while the form is open refill it and
  discard what was entered.
* "Returns True only if this caller won the race", "so only one caller succeeds"
  (`claim_scheduled_job_for_posting`): where `web`, `worker` and `scheduler` are processes of
  their own, an update that read the row before the claim and replaces it after puts the
  old state back, and a second claim succeeds (`ClaimHolds` with two processes fails
  within a few steps).
* "Returns False otherwise (already claimed by another worker ...)", same docstring: when the
  reply of a successful claim is lost, `call_storage` claims again, finds the row
  `posting`, and answers False to the caller that has won. Post Now claims through
  `call_storage` (`scheduler.py:849`); the scheduler loop does not (1298).
* An update that is retried is carried out again on the row as it then is, over what
  others wrote to the same field after its first time. `AtomicRow` allows it (`Retry`); no comment speaks of it.

### 3.1 Bounds, and why they are enough

* *One row* in `ScheduledPublishing`: actors meet on a row and its article. The only
  actions that touch several rows are the poll (which treats them one by one) and
  `ClearAll`; the claim, the queue entries and the keys are per row. One scheduler
  and one worker task that both prepare, with a request in between, are already the
  three parties of every stale write listed under `hazards`.
* *Two requests* (`MaxRequests`): enough for a request to undo what another set up
  (schedule after cancel, retry after edit). `Publishers` allows one Post Now or
  publish request, which then runs against the scheduler and a crash.
* `MaxPosts = 2`: the least at which a second post is seen. `PublishAttempts = 2` for
  the code's six: one retry is enough for a lost reply to matter.
* `MaxAttempts`: zero or one for the code's five; only "fewer than the maximum" is
  ever asked. `MaxCrashes = 1`: one crash at any place.
* `MaxQueued = 1`: a dedup key expires while at most this many entries of its item
  wait, so that the queue stays finite; an entry may thus be queued twice.
* `Payments`: two orders of one user are needed for a renewal (the second purchase
  clears what the first wrote); users share nothing. Two reminders show one sent and
  one due at once. `PaymentFaults` has two webhook handlers, so that a failed and a captured
  event of one order are worked on at a time; the runs with fairness have one. The
  theorems of section 4 hold for any number of each.
* `Generation`: two runs of any kinds meet: a page's own job is dropped or overtaken by the
  other page's, by a preparation or by a cluster. Two seconds tell a text of the second of its
  request from an older one. What three runs and longer times may do is covered by the theorems, which
  hold for any number of each. The pages are of one account, because between accounts no lock
  puts two texts in order (`OneRunAtATime` is proved for any accounts).
* `UsageQuota`: two runs with the slot, one without and a publish request are every pair of
  actors that read and replace; months of two days and three days have both kinds of
  midnight. The limits are at most 3, so that they are reached.
* `RowStore`: a reader, a writer in between and a third that sees the result. Two fields are one
  that a call names and one that it does not. The calls are those of the scheduler, the worker
  and the routes about the state and the post id. One process: see section 3;
  section 4 has any number of them.
* `BulkSchedule`: the calendar from November 2026 has months of 30, 31 and 28 days and begins
  on a Sunday; 1, 2, 3 and 5 articles leave periods half full and overfull; start
  dates lie in the same month, near its end and two months later; hours before and
  after the opening make the first day's slot past or not. One hour passes while the form is open.
* Each failed or mismatched event occurs once per order: events have ids, and a second
  event of the same kind does the same write.

### 3.2 Fairness

* `ScheduledPublishing`: weak fairness of each scheduler, worker task and request that
  is under way, of the clock and of the expiry of dedup keys. The scheduler and the
  worker are endless loops that catch exceptions, a restarted process starts its loop
  again, and Redis expires keys. Nothing is assumed of the users: `Receive` is not
  fair. Nothing is assumed of success either: a fair actor may always fail.
* `Payments`: weak fairness of running handlers, of the webhook as a whole (Razorpay
  delivers until it is answered), of the sweep (it comes round every 15 minutes) and of
  orders growing old. Paying, calling `/verify` and the passing of the billing
  period are not fair.

* `ArticleGeneration`, `UsageQuota`, `RowStore` and `BulkSchedule` state no fairness: they are
  specifications of safety. `FailureIsReported` is a state predicate, so that its
  counterexample needs none either.

## 4. What is proved

TLAPS checks every proof for arbitrary sets of rows, orders, users, pages, calls, processes
and requests, arbitrary calendars and numbers of articles, and arbitrary bounds, under the named assumptions of each module
(`ConstantsAssumption`, `CallAssumption`, `StoreAssumption`: the sets of actors are disjoint, the
bounds are naturals). Where a theorem needs more, it says so.

| Theorem | Statement | Hypothesis |
|---|---|---|
| `TypeCorrect` | `Spec => []TypeOK` (ScheduledPublishing) | |
| `PostedRowsHavePosts` | `Spec => []PostedHasPost` | |
| `SentArticlesHaveBodies` | `Spec => PublishesBody` | |
| `SchedulerPostsOnce` | `Spec => []AtMostOnePost` | `SoleScheduler` |
| `SchedulerKnowsItsPosts` | `Spec => []EveryPostIsKnown` | `SoleScheduler` |
| `PostingRowsHaveAnOwner` | `Spec => []PostingHasOwner` | `SoleScheduler` |
| `SchedulerImplementsPublishOnce` | `Spec => PublishesOnce` | `SoleScheduler` |
| `TypesCorrect` | `Spec => []TypeOK` (Payments) | |
| `OnlyCapturedOrdersAreGranted` | `Spec => []OnlyCapturedIsGranted` | |
| `PaidOrdersAreGranted` | `Spec => []PaidIsGranted` | |
| `RemindersAreSentOnce` | `Spec => []RemindedOnce` | `SoleSweeper` |
| `TypeCorrect` | `Spec => []TypeOK` (ArticleGeneration) | |
| `OneRun` | `Spec => []OneRunAtATime` | |
| `NotDemoted` | `Spec => []PublishedIsNotDemoted` | |
| `SavedInOrder` | `Spec => TextsAreSavedInOrder` | `OneAccountOnly` |
| `ShownWasAsked` | `Spec => []ShownIsAsked` | `OneAccountOnly` |
| `TypeCorrect` | `Spec => []TypeOK` (UsageQuota) | |
| `PlanKept` | `Spec => []PlanIsKept` | `OneProcess` |
| `BooksAreBalanced` | `Spec => []BooksBalance` | `OneProcess` |
| `NeverOverdrawn` | `Spec => []NotOverdrawn` | `OneProcess` |
| `BudgetIsHeld` | `Spec => []BudgetHolds` | `OneProcess` |
| `TypeCorrect` | `Spec => []TypeOK` (RowStore) | |
| `ClaimsHold` | `Spec => []ClaimHolds` | `Ordered` |
| `FieldsAreKept` | `Spec => OnlyNamedFieldsChange` | `Ordered` |
| `StoreIsAtomic` | `Spec => TakesEffectAtOnce` | `Ordered` |
| `TypeCorrect` | `Spec => []TypeOK` (BulkSchedule) | |
| `ApartAndAfterStartHolds` | `Spec => []ApartAndAfterStart` | |
| `WeeklyOnPostingDaysHolds` | `Spec => []WeeklyOnPostingDays` | |
| `WeeklyQuotaHolds` | `Spec => []WeeklyQuota` | |
| `MonthlyPlanHolds` | `Spec => []MonthlyPlan` | |
| `EveryPeriodHolds` | `Spec => []EveryPeriod` | |

`SoleScheduler` says: one scheduler, no Post Now or publish request, no lost
replies, refused writes or crashes of the scheduler. No part of it can be left out:
TLC finds a second post with two schedulers, with Post Now, with a lost reply, with a refused
write followed by a retry and with a crash followed by the board's reset, and the run
`ManualPublish` keeps a case that contradicts a comment of the code. Any number of
worker tasks and editing requests, worker crashes, slow and failing preparations
remain.

*PostedHasPost* is not inductive: rows become posted on the word of an article, of
a snapshot or of an actor on its way to record. The strengthening `KnowledgeIsTrue`
says that each of these places tells the truth: whoever claims a post id has one
behind it. Posts never disappear, so it is enough that each writer copies from a
place that is true.

*PublishesBody* rests on `BodyIsThere`: an actor that saw a body, or is past the place
where it is generated, finds it in the article, since no action removes a body.

*AtMostOnePost* rests on `OnePost`: workers and requests stay within preparing and
editing (`Confined`), a post exists exactly when the article holds its id or the
scheduler is recording it (`PostsAreKnown`), and a scheduler that is past its look at
the article found no post there (`NotYetPosted`). What is important here is that the
claim is *not* used. A late preparation may make a claimed row claimable again, and it
does no harm, because with one scheduler nobody else is there to claim it and the
article is looked at again before it is sent. With two schedulers, that last look
would no longer suffice.

*PostingHasOwner* is not inductive, because a row is in `posting` on account of where an
actor stands. `Owned` adds `Confined` and that the scheduler never stands in a preparation
task (`NoTaskKind`); then only the claim and the return from the preparation write
`posting`, and the scheduler does not leave the row before it has written another state.

*The refinement* maps `posts` to itself and `recorded` to the articles that hold an id.
`Publish` is `Create`, `RecordArticle` is `Record`, all else stutters; `OnePost` gives
the guards.

*OnlyCapturedIsGranted* rests on `Inv`: an actor on its way through `_mark_payment_paid`
works on an order that is captured (`Confirmed`), a "captured" event is about a
captured order (`HooksAreTrue`), and Razorpay never takes a capture back.

*PaidIsGranted* is inductive together with `Inv`: the actor that writes "paid" stands
before `Extend`, others do not move it, and it leaves by granting or by being cut short, which
`cut` records (`InterruptedPays`). So two confirmations at a time, a failure that arrives late, and
the sweep's giving up do not cost a buyer the period; the one thing that does is the end of
a handler between the two writes, and nothing in the code repairs it.

*RemindedOnce* rests on `Once`. A reminder that was sent in this period is on the
subscription's list or on the list the sweep is about to save (`SentIsListed`); and what a
sweep holds as due was not sent, while its list lacks nothing of the subscription's
(`SweepIsFresh`). A renewal clears both sides at once, which is why a list written back over
the clearing does no harm to *this* property. `SoleSweeper` says: one sweeper, which is
not cut short between sending and saving, and a store that can be reached.

*OneRunAtATime* is an invariant of the dedup key: at most one of the button's jobs is in the queue
or at work, and then the key is there (`KeyExcludes`); a stop that clears the key ends
that job as well. Preparations and clusters may be at the article too: they neither take nor clear
the key, and no run changes its kind (`Kinded`). No lock and no account is needed.

*TextsAreSavedInOrder and ShownIsAsked* must also hold once the key has run out.
Then the account's slot is what serialises two runs, hence `OneAccountOnly`; preparations do
not take it, hence `mixed` in both properties, which excludes exactly the case in which one was at
its text together with another run. (Without it both are false: section 3.) `Serial` says
that otherwise one run is at its text, that no text is newer than the clock, nor the stored
one than the one about to be saved, and that a preparation at its images holds the stored
text; `Awaited`, that a page which decided to load has
seen a text from after its request, and that text can only be replaced by a newer one.

*PublishedIsNotDemoted* rests on `Undemoted`: every status that a run has yet to write (what
it read when it began, or the mark of queueing) is no draft while the article is live (`Known`).
This holds of every caller, since each decides from the row it reads.

*The counters.* `PlanKept` needs that a copy which is about to replace the document is the
document (`CopyIsFresh`). That is what the lock gives if all actors share a process,
and `OneProcess` says so: it is the default configuration, and where `web` and `worker` run
apart the lock orders nothing between them. On top of it `Books` says, for each counter, that
its number lies between the standing charges and these less the units given back after midnight
(`Accounts`, `KeysAgree`, `InBalance`), and that the standing charges of each day and month are
within the limits (`WithinLimits`), which an upper bound on the counter alone would not give. `Budget` says that the runs in the slot leave room for what they have yet to count:
among them only one is between its check and its count.

*The store.* The invariant is `Fresh`: who has read the row holds the lock, the row is still there,
and the copy is the row. Two calls cannot both be in between, since they share the lock. From it
the mapping is direct: `Command` and `Replace` are `TakeEffect`, `Read` is a stutter (or
`TakeEffect`, when there is no row), `Refused` is a stutter, `LoseReply` is `Retry`,
`GiveUp` and `Stop` are `Fail`. It is `Replace` that needs `Fresh`: merging into the copy
is then merging into the row. `ClaimHolds` also needs that no claim asks for a row
in `posting`, which `CallAssumption` states and every caller respects.

`Ordered` says: all callers share a process, or every call is one command (patch, claim,
insert or delete; none is an update). With several processes and updates
TLC refutes `ClaimHolds`, so it cannot be left out; and its second half says what would
make the split deployment safe for rows, `patch_scheduled_job_fields` in
place of `update_scheduled_job_fields`, with no lock at all.

*The cadences.* Each promise is a function of the form alone, so `TypeOK` is the
whole inductive invariant: what has to be proved is what the loops compute, for every calendar
that `ConstantsAssumption` admits, any number of articles and every start.
The library's theorems about induction and recursive functions take an operator as their
parameter, so the module replaces them by facts about sets: every set of numbers that is not empty
has a least one (`LeastNumber`, from `WFMin`), hence `Induction`; and a step function has its
iterates (`Recursion`, `Growth`), which gives the recursive functions their equations.
The argument then follows the code.

1. *Calendar* (`MonthOfDay`, `OneMonth`, `DayOfWeek`). Months tile the days, and a day is its week's
   Monday and its weekday.
2. *The searches end.* A posting day lies within a week (`AnchorDay`); a weekday that is full
   has room a few periods on (`RoomOnADay`), since fewer articles than places were put there; a
   candidate that is too early moves by one week or month at most (`WeeklyCandidateIs`,
   `MonthlyCandidateIs`), which is why the `while (true)` of `computeMonthlyDates` ends; and
   a moment that is taken meets each earlier one once (`AloneSteps`).
3. *Slots* (`PlacesDiffer`, `PlaceInPeriod`, `OneSlotAPlace`). Two articles of one weekday and period
   have different turns on that day. A place, which is a weekday of the cadence and a turn, is numbered
   below `per`. The posts of a week have different places, because with the same place they
   would have the same moment; so they are at most `per` (`NoMoreThanPlaces`), wherever
   they were moved from. The months are counted in the same way (`OneArticleADate`).
4. *One post in each period* (`OnePostAWeek`, `OnePostAMonth`). If the first article is too early
   it takes the moment of the second, which then takes that of the third: `MovedAlong`
   shows that all move on together.
5. *Moments.* `Spread` leaves moments that differ as they are (`SpreadKeeps`), and whatever it does
   keeps them apart and only moves them later (`SpreadFacts`), by whole weeks in a weekly
   cadence (`AloneWeeks`).

### 4.1 Model-checked only

Liveness (`DueJobsSettle`, `PreparationEnds`, `FailedPostIsHealed`, `RecordsItsPosts`,
`CapturedIsGranted`, `PromptlyCapturedIsGranted`, `DueRemindersSettle`) is out of
reach of the installed provers. Every invariant and every action property of a passing run is
the subject of a theorem above.

## 5. What is not modelled, and why

* In the scheduler: the Shopify and LinkedIn branches (the shape of the WordPress one),
  the periodic reminder calls other than the payments sweep, the back-off of a poll that failed, and
  rows whose project or article is gone.
* In the publish request: the fallback that goes on without a claim when the
  store could not be read, and what follows after the article is recorded
  (autopost to LinkedIn, indexing).
* A fourth publisher: `apply_generate_wp_choice` (`articles.py:3286-3339`), at the end of one of the
  button's runs whose request asked to publish at once. It sends an article without a post id, claims
  no row and records the id on the article; `ArticleGeneration` has its place
  in the slot (`Apply`) and its effect on the status (`GoLive`), `ScheduledPublishing` does not have it.
  `PostedHasPost` does not depend on who publishes; `AtMostOnePost` is stated without requests that publish.
* In `ScheduledPublishing` some neighbouring reads are one step: of article and job when a
  preparation starts (`generation_worker.py:78-82`), of rows and articles in a poll
  (`scheduler.py:1182-1190`), of the article before the publish request records its post
  (`articles.py:3240-3265`). Which failures are retried, decided by their text (`scheduler.py:146-171`),
  is left open.
* In the queue: the other task kinds, the global generation slots, the in-process queue used
  when Redis is down, and an entry refused because that queue is full.
* `ScheduledPublishing` and `Payments` take a write of the store for one step on the fields it
  names. Of rows that is proved for callers of one process, and for any without updates
  (`StoreIsAtomic`), and
  `UsageQuota` models the read and replace of a user document. Where the
  processes run apart, they may undo each other's writes in ways that only
  `RowStore` shows; the hazards list the places.
* In the store: the JSON file that may stand in for MongoDB (there every call holds the lock from the
  read to the write), queries over many rows, normalisation, and a command that
  MongoDB carries out only after its caller has heard of an error.
* In `ArticleGeneration`: the stream of progress events, images other than as a rewriting of the
  body (so that the page's wait for an expected image, `api.ts:3485`, is not there), the generation
  inside the request when there is no queue (`articles.py:2240-2261`), and edits of the text by hand
  while a run is at work. In `UsageQuota`: unlimited plans, administrators and the
  counters of exports and research, which have the same shape.
* In `BulkSchedule`: moments typed in by hand, the choice of prompts, changes of the
  clock for daylight saving, and that the proposed rows may lag behind the form for a moment
  (`useDeferredValue`, `useBulkScheduleForm.ts:144-171`).
* The editor page's unsaved edits. The code was read, and these are the questions a
  module should settle: after a failed background run the remounted editor takes its present
  text for the stored one (`page.tsx:548-552` of the editor), so that the guard against leaving
  forgets the edits; a body that failed to load leaves no baseline, and "Save changes"
  may then store an empty one; the session cache (`articleEditorCache.ts`) is not
  rewritten by a save; two saves may cross.
* Payments: amounts and currencies (one event stands for a mismatch), e-mails,
  receipts, read-only routes, plans changed by administrators, a missing subscription
  document.
* The components listed as `not_modelled` in `PROJECT.json`, each with its reason.

## 6. Plan

What is left, in this order. A module is written so that it can be proved about, with
its parameters as constants and its invariants as conjunctions of named parts.

1. `ArticleEditor`: unsaved edits against late loads, background runs and the session
   cache (the questions of section 5).
2. `GenerationQueue`: the local fallback queue, and the account's slot taken before the global
   one. Properties: no deadlock of the slots, an entry is worked on or found again.
   It would replace the queue inside `ScheduledPublishing` by refinement.
3. `RowStore` composed into `ScheduledPublishing`, with `web`, `worker` and `scheduler` as processes of
   their own: which of its properties survive writes that undo each other.
4. `LinkedInAutopost`: check, then insert, of a row with a random id.
5. `AuditRuns`: the crawl and the citation checks, their cancel flags and restarts.
6. `Memberships` and one-time codes.
7. Two rows in `ScheduledPublishing`, for the order of a poll and `ClearAll`.
