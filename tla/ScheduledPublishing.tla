------------------------- MODULE ScheduledPublishing -------------------------
(***************************************************************************)
(* Scheduled publishing: the scheduled_jobs rows, the article they publish *)
(* and the processes that read and write both.  The scheduler polls the    *)
(* due rows, claims one, prepares the article and posts it to WordPress;   *)
(* tasks of the generation worker prepare articles ahead of time and run   *)
(* Post Now; HTTP request handlers schedule, edit, retry, cancel and       *)
(* publish.  Every await on the store, on the model or on WordPress ends   *)
(* an action, so what one actor read may be stale when it uses it.         *)
(*                                                                         *)
(* The id of a row is a digest of the project and the article, so a row    *)
(* and its article share one name here: an element of Jobs.                *)
(***************************************************************************)
EXTENDS Naturals, FiniteSets

CONSTANTS
  Jobs,         \* scheduled_jobs rows, one per article
  Schedulers,   \* processes running scheduler_loop
  Workers,      \* tasks the one generation worker may run at a time
  Clients,      \* HTTP requests in flight at a time
  Requests,     \* the kinds of request that clients send
  Faults,       \* the failures that may occur
  MaxRequests,  \* bound: requests sent in a behaviour
  MaxCrashes,   \* bound: crashes in a behaviour
  MaxAttempts,  \* automatic retries of a generation mismatch (5 in the code)
  PublishAttempts, \* requests one publish may send to WordPress (6 in the code)
  MaxPosts,     \* bound: posts of one article
  MaxQueued     \* bound: entries of one item beyond which no dedup key expires

RequestKinds == {"schedule", "reschedule", "edit", "retry", "cancel", "clear",
                 "board", "post_now", "publish"}
FaultKinds == {"generation", "publish", "mismatch", "quota", "lost_reply",
               "store", "slow", "worker_crash", "scheduler_crash"}

ASSUME ConstantsAssumption ==
  /\ Jobs # {}
  /\ Schedulers \cap Workers = {}
  /\ Schedulers \cap Clients = {}
  /\ Workers \cap Clients = {}
  /\ Requests \subseteq RequestKinds
  /\ Faults \subseteq FaultKinds
  /\ MaxRequests \in Nat /\ MaxCrashes \in Nat /\ MaxAttempts \in Nat
  /\ PublishAttempts \in Nat \ {0} /\ MaxQueued \in Nat
  /\ MaxPosts \in Nat

VARIABLES
  job,      \* [Jobs -> Row]: the scheduled_jobs collection
  phase,    \* [Jobs -> Phases]: run_at compared with the clock
  art,      \* [Jobs -> [content, wp]]: the article of each row
  posts,    \* [Jobs -> Nat]: posts that exist on the WordPress site
  queue,    \* [Items -> Nat]: entries of each kind in the generation queue
  dedup,    \* SUBSET Items: dedup keys set in Redis
  act,      \* [Actors -> Local]: control state of each actor
  tick,     \* [Schedulers -> Snapshot]: what the current poll still has to do
  requests, \* requests sent so far
  crashes   \* crashes so far

vars == <<job, phase, art, posts, queue, dedup, act, tick, requests, crashes>>

Actors == Schedulers \cup Workers \cup Clients

Claimable  == {"scheduled", "ready_to_post"}
Generating == {"content_generating", "image_generating"}
States     == Claimable \cup Generating
                \cup {"none", "posting", "posted", "failed", "cancelled"}
Phases     == {"early", "window", "due"}
Contents   == {"none", "text", "full"}   \* no body; body, image missing; both
Ages       == {"fresh", "stale", "stalled"}  \* updated_at: <= 3, > 3, > 45 min
Items      == {"prep", "postnow"} \X Jobs

Row   == [state : States, wp : BOOLEAN, attempts : 0..MaxAttempts,
          retry : BOOLEAN, age : Ages]
NoRow == [state |-> "none", wp |-> FALSE, attempts |-> 0, retry |-> FALSE,
          age |-> "fresh"]

PCs == {"idle", "scan", "heal", "dispatch", "heal_failed", "pick", "load",
        "prepare", "generating", "reload", "hold", "mark", "publish",
        "rec_job", "rec_art", "raise", "start", "unwind", "prep_mark",
        "defer", "ready", "wait", "art", "clear", "write", "rows", "claim", "check",
        "start_prep", "put"}

Local == [pc : PCs, kind : RequestKinds \cup {"", "prep", "postnow"},
          job : Jobs, seen : States \cup {"claimed"}, content : Contents,
          tries : 0..PublishAttempts]
Idle  == [pc |-> "idle", kind |-> "", job |-> CHOOSE j \in Jobs : TRUE,
          seen |-> "none", content |-> "none", tries |-> 0]

Snapshot == [due : SUBSET Jobs, retry : SUBSET Jobs, failed : SUBSET Jobs,
             recorded : SUBSET Jobs, stalled : SUBSET Jobs]
NoTick   == [due |-> {}, retry |-> {}, failed |-> {}, recorded |-> {},
             stalled |-> {}]

TypeOK ==
  /\ job \in [Jobs -> Row]
  /\ phase \in [Jobs -> Phases]
  /\ art \in [Jobs -> [content : Contents, wp : BOOLEAN]]
  /\ posts \in [Jobs -> Nat]
  /\ queue \in [Items -> Nat]
  /\ dedup \in SUBSET Items
  /\ act \in [Actors -> Local]
  /\ tick \in [Schedulers -> Snapshot]
  /\ requests \in 0..MaxRequests
  /\ crashes \in 0..MaxCrashes

Init ==
  /\ job \in [Jobs -> {[NoRow EXCEPT !.state = "scheduled"]}]
  /\ phase \in [Jobs -> {"early", "window"}]
  /\ art \in [Jobs -> [content : Contents, wp : {FALSE}]]
  /\ posts = [j \in Jobs |-> 0]
  /\ queue = [i \in Items |-> 0]
  /\ dedup = {}
  /\ act = [a \in Actors |-> Idle]
  /\ tick = [s \in Schedulers |-> NoTick]
  /\ requests = 0
  /\ crashes = 0

-----------------------------------------------------------------------------
(* The store and the queue.                                                *)

\* A write of state, last_error and updated_at.  The store matches by id and
\* never inserts, so a deleted row stays deleted.
SetState(j, s) ==
  job' = [job EXCEPT ![j] =
            IF @.state = "none" THEN @
            ELSE [@ EXCEPT !.state = s, !.retry = FALSE, !.age = "fresh"]]

\* The row records the WordPress post id together with the posted state.
SetPosted(j) ==
  job' = [job EXCEPT ![j] =
            IF @.state = "none" THEN @
            ELSE [@ EXCEPT !.state = "posted", !.wp = TRUE, !.retry = FALSE,
                           !.age = "fresh"]]

\* Mutant of SetFailed: another collection's name for the failed state.
SetError(j, mismatch) ==
  job' = [job EXCEPT ![j] =
            IF @.state = "none" THEN @
            ELSE [@ EXCEPT !.state = "error", !.retry = mismatch,
                           !.age = "fresh"]]

\* A failure; the message may be one the scheduler retries by itself.
SetFailed(j, mismatch) ==
  job' = [job EXCEPT ![j] =
            IF @.state = "none" THEN @
            ELSE [@ EXCEPT !.state = "failed", !.retry = mismatch,
                           !.age = "fresh"]]

\* Back into the queue with a fresh attempt counter.
Requeue(j, s) ==
  job' = [job EXCEPT ![j] =
            IF @.state = "none" THEN @
            ELSE [@ EXCEPT !.state = s, !.attempts = 0, !.retry = FALSE,
                           !.age = "fresh"]]

\* claim_scheduled_job_for_posting: one atomic find-and-update.
CanClaim(j, allowed) == job[j].state \in allowed

\* Only "fewer than MaxAttempts" is ever asked of the counter.
Attempted(n) == IF n < MaxAttempts THEN n + 1 ELSE n

SetClaimed(j) ==
  job' = [job EXCEPT ![j] =
            [@ EXCEPT !.state = "posting", !.retry = FALSE, !.age = "fresh",
                      !.attempts = Attempted(job[j].attempts)]]

\* enqueue: an item whose dedup key is set is dropped.
Enqueue(items) ==
  /\ queue' = [i \in Items |-> IF i \in items \ dedup THEN queue[i] + 1
                                                      ELSE queue[i]]
  /\ dedup' = dedup \cup items

Goto(a, pc) == act' = [act EXCEPT ![a].pc = pc]

\* What follows when an actor is done with its job: the scheduler takes the
\* next due row, a worker task runs its finally clause, a request returns.
Done(a) ==
  act' = [act EXCEPT ![a] =
            IF a \in Schedulers THEN [Idle EXCEPT !.pc = "pick"]
            ELSE IF a \in Workers THEN [@ EXCEPT !.pc = "clear"]
            ELSE Idle]

-----------------------------------------------------------------------------
(* Preparing and publishing, shared by the scheduler, the worker's tasks   *)
(* and the publish request.                                                *)

\* prepare_article_for_scheduled_job up to the generation call.  It decides
\* from the article the caller read, and returns that article unchanged when
\* nothing is missing.
Prepare(a) ==
  LET j == act[a].job IN
  /\ act[a].pc = "prepare"
  /\ \/ /\ act[a].content = "full"
        /\ Goto(a, IF act[a].kind = "prep" THEN "ready"
                   ELSE IF a \in Schedulers THEN "hold" ELSE "reload")
        /\ UNCHANGED job
     \/ /\ act[a].content = "none"
        /\ SetState(j, "content_generating")
        /\ Goto(a, "generating")
     \/ /\ act[a].content = "text"
        /\ SetState(j, "image_generating")
        /\ Goto(a, "generating")
     \/ /\ "generation" \in Faults   \* the site is not connected
        /\ Goto(a, "raise")
        /\ UNCHANGED job
  /\ UNCHANGED <<phase, art, posts, queue, dedup, tick, requests, crashes>>

\* The pipeline saved the article.  A body may come back without its image.
Generated(a) ==
  LET j == act[a].job IN
  /\ act[a].pc = "generating"
  /\ \E c \in IF act[a].content = "none" /\ art[j].content # "full"
              THEN {"text", "full"} ELSE {"full"} :
       art' = [art EXCEPT ![j].content = c]
  /\ Goto(a, IF act[a].kind = "prep" THEN "ready" ELSE "reload")
  /\ UNCHANGED <<job, phase, posts, queue, dedup, tick, requests, crashes>>

\* An HTTPException marks the row failed before it is raised again; any other
\* exception is raised as it is.
GenerationFails(a) ==
  /\ "generation" \in Faults
  /\ act[a].pc = "generating"
  /\ \/ SetFailed(act[a].job, FALSE) /\ Goto(a, "raise")
     \/ UNCHANGED job /\ Goto(a, "raise")
     \/ "mismatch" \in Faults /\ UNCHANGED job /\ Goto(a, "unwind")
  /\ UNCHANGED <<phase, art, posts, queue, dedup, tick, requests, crashes>>

\* Mutant of HasPost: look for the id in the row, which a user can delete.
RowHasPost(j) == job[j].wp

\* The article holds the id of its post.
HasPost(j) == art[j].wp

\* The article is read again after generation: another actor may have
\* published it meanwhile.
Reload(a) ==
  LET j == act[a].job IN
  /\ act[a].pc = "reload"
  /\ Goto(a, IF HasPost(j) THEN "mark"
             ELSE IF a \in Schedulers THEN "hold" ELSE "publish")
  /\ UNCHANGED <<job, phase, art, posts, queue, dedup, tick, requests, crashes>>

\* The article already has a post id: record it on the row, post nothing.
MarkPosted(a) ==
  /\ act[a].pc = "mark"
  /\ SetPosted(act[a].job)
  /\ Done(a)
  /\ UNCHANGED <<phase, art, posts, queue, dedup, tick, requests, crashes>>

\* WordPress created the post.  The request handler saves the article first,
\* the scheduler and Post Now save the row first.
Publish(a) ==
  /\ act[a].pc = "publish"
  /\ posts[act[a].job] < MaxPosts
  /\ posts' = [posts EXCEPT ![act[a].job] = @ + 1]
  /\ Goto(a, IF a \in Clients THEN "rec_art" ELSE "rec_job")
  /\ UNCHANGED <<job, phase, art, queue, dedup, tick, requests, crashes>>

\* The post was created but the reply never came (a time-out): the loop over
\* the attempts goes on to its next endpoint after any exception.
ReplyLost(a) ==
  /\ "lost_reply" \in Faults
  /\ act[a].pc = "publish"
  /\ posts[act[a].job] < MaxPosts
  /\ posts' = [posts EXCEPT ![act[a].job] = @ + 1]
  /\ IF act[a].tries + 1 < PublishAttempts
     THEN act' = [act EXCEPT ![a].tries = @ + 1]
     ELSE Goto(a, "raise")
  /\ UNCHANGED <<job, phase, art, queue, dedup, tick, requests, crashes>>

\* Mutant of PublishFails: the failure is logged and the job given up.
GiveUpSilently(a) ==
  /\ "publish" \in Faults
  /\ act[a].pc = "publish"
  /\ Done(a)
  /\ UNCHANGED <<job, phase, art, posts, queue, dedup, tick, requests, crashes>>

\* Every remaining attempt was refused, or the site was not ready.
PublishFails(a) ==
  /\ "publish" \in Faults
  /\ act[a].pc = "publish"
  /\ Goto(a, "raise")
  /\ UNCHANGED <<job, phase, art, posts, queue, dedup, tick, requests, crashes>>

\* Mutant of RecordJob: the article never learns its post id.
RecordJobOnly(a) ==
  /\ act[a].pc = "rec_job"
  /\ SetPosted(act[a].job)
  /\ Done(a)
  /\ UNCHANGED <<phase, art, posts, queue, dedup, tick, requests, crashes>>

\* The row is marked posted.  The publish request touches it only when the
\* row is still open.
RecordJob(a) ==
  LET j == act[a].job IN
  /\ act[a].pc = "rec_job"
  /\ IF a \in Clients
     THEN /\ IF job[j].state \in {"posted", "cancelled"} THEN UNCHANGED job
             ELSE SetPosted(j)
          /\ Done(a)
     ELSE /\ SetPosted(j)
          /\ Goto(a, "rec_art")
  /\ UNCHANGED <<phase, art, posts, queue, dedup, tick, requests, crashes>>

\* The store refuses a write after the post was created; the request handler
\* has no except clause for that.
RecordFails(a) ==
  /\ "store" \in Faults
  /\ act[a].pc \in {"rec_job", "rec_art"}
  /\ IF a \in Clients THEN Done(a) ELSE Goto(a, "raise")
  /\ UNCHANGED <<job, phase, art, posts, queue, dedup, tick, requests, crashes>>

RecordArticle(a) ==
  /\ act[a].pc = "rec_art"
  /\ art' = [art EXCEPT ![act[a].job].wp = TRUE]
  /\ IF a \in Clients THEN Goto(a, "rec_job") ELSE Done(a)
  /\ UNCHANGED <<job, phase, posts, queue, dedup, tick, requests, crashes>>

\* Mutant of PostExists: a finished article is taken for a published one.
ArticleIsFinished(s, j) == art[j].content = "full"

\* The scheduler's second look: the article, or the row as it was polled.
PostExists(s, j) == art[j].wp \/ j \in tick[s].recorded

\* The except clauses.  The scheduler first looks whether the article, or the
\* row it polled, has a post id after all; a worker task and a request that
\* holds the claim just fail the row.
Fail(a) ==
  LET j == act[a].job IN
  /\ act[a].pc \in {"raise", "unwind"}
  /\ IF a \in Schedulers /\ PostExists(a, j)
     THEN SetPosted(j)
     ELSE IF a \in Clients /\ act[a].seen # "claimed" THEN UNCHANGED job
     ELSE SetFailed(j, act[a].pc = "unwind")
  /\ Done(a)
  /\ UNCHANGED <<phase, art, posts, queue, dedup, tick, requests, crashes>>

\* The store refuses the write of the except clause as well, which ends the
\* scheduler's poll.
FailIsLost(a) ==
  /\ "store" \in Faults
  /\ act[a].pc \in {"raise", "unwind"}
  /\ IF a \in Schedulers
     THEN /\ act' = [act EXCEPT ![a] = Idle]
          /\ tick' = [tick EXCEPT ![a] = NoTick]
     ELSE Done(a) /\ UNCHANGED tick
  /\ UNCHANGED <<job, phase, art, posts, queue, dedup, requests, crashes>>

PublishingStep(a) ==
  \/ Prepare(a) \/ Generated(a) \/ GenerationFails(a) \/ Reload(a)
  \/ MarkPosted(a) \/ Publish(a) \/ ReplyLost(a) \/ PublishFails(a)
  \/ RecordJob(a) \/ RecordFails(a) \/ RecordArticle(a)
  \/ Fail(a) \/ FailIsLost(a)

-----------------------------------------------------------------------------
(* scheduler_loop.                                                         *)

SkipOthers == UNCHANGED <<art, posts, phase, requests, crashes>>

\* Mutant of Poll: of the failures, read only what can be retried.
PollRetryable(s) ==
  LET Due == {j \in Jobs : phase[j] = "due"}
      Retryable == {j \in Due : job[j].state = "failed" /\ job[j].retry
                                /\ job[j].attempts < MaxAttempts}
  IN
  /\ act[s].pc = "idle"
  /\ tick' = [tick EXCEPT ![s] =
       [due |-> {j \in Due : job[j].state \in Claimable},
        retry |-> Retryable, failed |-> Retryable,
        recorded |-> {j \in Jobs : job[j].wp}, stalled |-> {}]]
  /\ Goto(s, "scan")
  /\ UNCHANGED <<job, queue, dedup>> /\ SkipOthers

\* The poll reads the due rows and the recent failures.
Poll(s) ==
  LET Due == {j \in Jobs : phase[j] = "due"}
      FailedRows == {j \in Jobs : job[j].state = "failed"}
  IN
  /\ act[s].pc = "idle"
  /\ tick' = [tick EXCEPT ![s] =
       [due |-> {j \in Due : job[j].state \in Claimable},
        retry |-> {j \in Due \cap FailedRows :
                     job[j].retry /\ job[j].attempts < MaxAttempts},
        failed |-> FailedRows,
        recorded |-> {j \in Jobs : job[j].wp},
        stalled |-> {}]]
  /\ Goto(s, "scan")
  /\ UNCHANGED <<job, queue, dedup>> /\ SkipOthers

\* Mutants of Scan: only rows that are too early; only rows that are both.
ScanEarly(s) ==
  /\ act[s].pc = "scan"
  /\ tick' = [tick EXCEPT ![s].stalled =
       {j \in Jobs : job[j].state \in Generating /\ phase[j] = "early"}]
  /\ Goto(s, "heal")
  /\ UNCHANGED <<job, queue, dedup>> /\ SkipOthers

ScanEarlyAndStalled(s) ==
  /\ act[s].pc = "scan"
  /\ tick' = [tick EXCEPT ![s].stalled =
       {j \in Jobs : /\ job[j].state \in Generating
                     /\ phase[j] = "early" /\ job[j].age = "stalled"}]
  /\ Goto(s, "heal")
  /\ UNCHANGED <<job, queue, dedup>> /\ SkipOthers

\* _heal_premature_generating_jobs reads the rows, then rewrites the ones whose
\* preparation is too early or has not been heard of for 45 minutes.
Scan(s) ==
  /\ act[s].pc = "scan"
  /\ tick' = [tick EXCEPT ![s].stalled =
       {j \in Jobs : /\ job[j].state \in Generating
                     /\ phase[j] = "early" \/ job[j].age = "stalled"}]
  /\ Goto(s, "heal")
  /\ UNCHANGED <<job, queue, dedup>> /\ SkipOthers

HealStalled(s) ==
  /\ act[s].pc = "heal"
  /\ \/ \E j \in tick[s].stalled :
          /\ SetState(j, "scheduled")
          /\ tick' = [tick EXCEPT ![s].stalled = @ \ {j}]
          /\ UNCHANGED act
     \/ /\ tick[s].stalled = {}
        /\ Goto(s, "dispatch")
        /\ UNCHANGED <<job, tick>>
  /\ UNCHANGED <<queue, dedup>> /\ SkipOthers

\* _dispatch_due_prep_jobs leaves the rows as they are.
Dispatch(s) ==
  /\ act[s].pc = "dispatch"
  /\ Enqueue({"prep"} \X {j \in Jobs : /\ job[j].state = "scheduled"
                                       /\ phase[j] # "early"})
  /\ Goto(s, "heal_failed")
  /\ UNCHANGED <<job, tick>> /\ SkipOthers

\* A failed row whose post exists after all becomes posted.
HealFailed(s) ==
  /\ act[s].pc = "heal_failed"
  /\ \/ \E j \in tick[s].failed :
          /\ IF PostExists(s, j) THEN SetPosted(j)
             ELSE UNCHANGED job
          /\ tick' = [tick EXCEPT ![s].failed = @ \ {j}]
          /\ UNCHANGED act
     \/ /\ tick[s].failed = {}
        /\ Goto(s, "pick")
        /\ UNCHANGED <<job, tick>>
  /\ UNCHANGED <<queue, dedup>> /\ SkipOthers

\* Claim the next due row of the snapshot, or skip it.
Claim(s) ==
  /\ act[s].pc = "pick"
  /\ \E j \in tick[s].due \cup tick[s].retry :
       /\ tick' = [tick EXCEPT ![s].due = @ \ {j}, ![s].retry = @ \ {j}]
       /\ IF CanClaim(j, Claimable \cup
                         (IF j \in tick[s].retry THEN {"failed"} ELSE {}))
          THEN /\ SetClaimed(j)
               /\ act' = [act EXCEPT ![s].pc = "load", ![s].job = j]
          ELSE UNCHANGED <<job, act>>
  /\ UNCHANGED <<queue, dedup>> /\ SkipOthers

EndTick(s) ==
  /\ act[s].pc = "pick"
  /\ tick[s].due \cup tick[s].retry = {}
  /\ act' = [act EXCEPT ![s] = Idle]
  /\ tick' = [tick EXCEPT ![s] = NoTick]
  /\ UNCHANGED <<job, queue, dedup>> /\ SkipOthers

\* The claimed row's article is read; one that has a post id is not posted.
LoadArticle(s) ==
  LET j == act[s].job IN
  /\ act[s].pc = "load"
  /\ act' = [act EXCEPT ![s].content = art[j].content,
                        ![s].pc = IF HasPost(j) THEN "mark" ELSE "prepare"]
  /\ UNCHANGED <<job, tick, queue, dedup>> /\ SkipOthers

\* Mutant of Hold: the article is marked before WordPress has answered.
HoldAndMark(s) ==
  /\ act[s].pc = "hold"
  /\ SetState(act[s].job, "posting")
  /\ art' = [art EXCEPT ![act[s].job].wp = TRUE]
  /\ Goto(s, "publish")
  /\ UNCHANGED <<tick, queue, dedup, posts, phase, requests, crashes>>

\* Back to posting after preparation, so that nobody claims the row again.
Hold(s) ==
  /\ act[s].pc = "hold"
  /\ job' = [job EXCEPT ![act[s].job] =
               IF @.state = "none" THEN @
               ELSE [@ EXCEPT !.state = "posting", !.age = "fresh"]]
  /\ Goto(s, "publish")
  /\ UNCHANGED <<tick, queue, dedup>> /\ SkipOthers

SchedulerStep(s) ==
  \/ Poll(s) \/ Scan(s) \/ HealStalled(s) \/ Dispatch(s) \/ HealFailed(s)
  \/ Claim(s) \/ EndTick(s) \/ LoadArticle(s) \/ Hold(s)
  \/ PublishingStep(s)

-----------------------------------------------------------------------------
(* The generation worker: it pops an entry and runs it as a task.          *)

Dequeue(w) ==
  /\ act[w].pc = "idle"
  /\ \E i \in Items :
       /\ queue[i] > 0
       /\ queue' = [queue EXCEPT ![i] = @ - 1]
       /\ act' = [act EXCEPT ![w] = [Idle EXCEPT !.pc = "start",
                                                !.kind = i[1], !.job = i[2]]]
  /\ UNCHANGED <<job, tick, dedup>> /\ SkipOthers

\* _handle_scheduled_prep reads the row and the article.  A row that is ready,
\* being posted or posted needs nothing; one that is still too early goes back.
StartPrep(w) ==
  LET j == act[w].job IN
  /\ act[w].pc = "start" /\ act[w].kind = "prep"
  /\ act' = [act EXCEPT
       ![w].content = art[j].content,
       ![w].pc = IF job[j].state \in {"ready_to_post", "posted", "posting"}
                 THEN "clear"
                 ELSE IF job[j].state # "none" /\ phase[j] = "early"
                 THEN IF job[j].state \in Generating THEN "defer" ELSE "clear"
                 ELSE "prep_mark"]
  /\ UNCHANGED <<job, tick, queue, dedup>> /\ SkipOthers

DeferPrep(w) ==
  /\ act[w].pc = "defer"
  /\ SetState(act[w].job, "scheduled")
  /\ Goto(w, "clear")
  /\ UNCHANGED <<tick, queue, dedup>> /\ SkipOthers

MarkGenerating(w) ==
  /\ act[w].pc = "prep_mark"
  /\ SetState(act[w].job, "content_generating")
  /\ Goto(w, "prepare")
  /\ UNCHANGED <<tick, queue, dedup>> /\ SkipOthers

MarkReady(w) ==
  /\ act[w].pc = "ready"
  /\ SetState(act[w].job, "ready_to_post")
  /\ Goto(w, "clear")
  /\ UNCHANGED <<tick, queue, dedup>> /\ SkipOthers

\* _handle_scheduled_post_now reads the row.
StartPostNow(w) ==
  LET state == job[act[w].job].state IN
  /\ act[w].pc = "start" /\ act[w].kind = "postnow"
  /\ act' = [act EXCEPT
       ![w].seen = IF state = "failed" THEN state ELSE @,
       ![w].pc = IF state = "none" THEN "raise"
                 ELSE IF state \in {"posted", "cancelled"} THEN "clear"
                 ELSE IF state \in Generating THEN "wait" ELSE "art"]
  /\ UNCHANGED <<job, tick, queue, dedup>> /\ SkipOthers

\* _wait_for_scheduled_job_prep: poll the row until it leaves the generating
\* states; give up after five minutes.
AwaitPrep(w) ==
  LET state == job[act[w].job].state IN
  /\ act[w].pc = "wait"
  /\ \/ /\ state \in Claimable \cup {"posted"}
        /\ Goto(w, "art")
     \/ /\ state \notin Claimable \cup {"posted"}
        /\ Goto(w, "raise")
  /\ UNCHANGED <<job, tick, queue, dedup>> /\ SkipOthers

\* execute_scheduled_job_post_now reads the article; it prepares only a missing
\* body or a row that had failed.
PostNowArticle(w) ==
  LET j == act[w].job IN
  /\ act[w].pc = "art"
  /\ act' = [act EXCEPT
       ![w].content = art[j].content,
       ![w].pc = IF HasPost(j) THEN "mark"
                 ELSE IF art[j].content = "none" \/ act[w].seen = "failed"
                 THEN "prepare" ELSE "publish"]
  /\ UNCHANGED <<job, tick, queue, dedup>> /\ SkipOthers

\* The finally clause of both handlers.
ClearDedup(w) ==
  /\ act[w].pc = "clear"
  /\ dedup' = dedup \ {<<act[w].kind, act[w].job>>}
  /\ act' = [act EXCEPT ![w] = Idle]
  /\ UNCHANGED <<job, tick, queue>> /\ SkipOthers

WorkerStep(w) ==
  \/ Dequeue(w) \/ StartPrep(w) \/ DeferPrep(w) \/ MarkGenerating(w)
  \/ MarkReady(w)
  \/ StartPostNow(w) \/ AwaitPrep(w) \/ PostNowArticle(w) \/ ClearDedup(w)
  \/ PublishingStep(w)

-----------------------------------------------------------------------------
(* Request handlers: read the row, check it, then write.                   *)

\* What a handler read and still uses when it writes is kept with the request.
\* What it answers with an error, or does nothing about, is no step.
Accepts(k, j) ==
  CASE k \in {"reschedule", "edit", "retry", "cancel"} ->
         job[j].state \notin {"none", "posted", "cancelled"}
    [] k = "post_now" -> /\ job[j].state # "none"
                         /\ job[j].state = "posting" => job[j].age # "fresh"
    [] k = "board"    -> /\ job[j].state = "posting" /\ ~job[j].wp
                         /\ job[j].age # "fresh"
    [] k = "publish"  -> ~HasPost(j)
    [] OTHER -> TRUE

Receive(c) ==
  /\ act[c].pc = "idle"
  /\ requests < MaxRequests
  /\ requests' = requests + 1
  /\ \E k \in Requests, j \in Jobs :
       /\ Accepts(k, j)
       /\ act' = [act EXCEPT ![c] =
            [Idle EXCEPT
               !.pc = IF k = "publish" THEN "rows" ELSE "write",
               !.kind = k, !.job = j,
               !.seen = IF k \in {"reschedule", "edit"} THEN job[j].state
                        ELSE "none",
               !.content = IF k = "publish" THEN art[j].content ELSE "none"]]
  /\ UNCHANGED <<job, phase, art, posts, queue, dedup, tick, crashes>>

Handling(c, k) == act[c].pc = "write" /\ act[c].kind = k

Return(c) == act' = [act EXCEPT ![c] = Idle]

\* start_scheduled_job_preparation_task starts now or not at all.
StartPrepIf(c, now) == IF now THEN Goto(c, "start_prep") ELSE Return(c)

\* POST /articles/{id}/schedule: upsert the row, whatever state it was in.
Schedule(c) ==
  LET j == act[c].job IN
  /\ Handling(c, "schedule")
  /\ \E p \in {"early", "window"} :
       /\ phase' = [phase EXCEPT ![j] = p]
       /\ StartPrepIf(c, p = "window")
  /\ job' = [job EXCEPT ![j] = [NoRow EXCEPT !.state = "scheduled",
                                            !.wp = job[j].wp]]
  /\ UNCHANGED <<art, posts, queue, dedup, tick, requests, crashes>>

\* PATCH with a new run_at.
Reschedule(c) ==
  LET j == act[c].job IN
  /\ Handling(c, "reschedule")
  /\ Requeue(j, "scheduled")
  /\ \/ /\ job[j].state # "none"
        /\ \E p \in {"early", "window"} :
             /\ phase' = [phase EXCEPT ![j] = p]
             /\ StartPrepIf(c, p = "window" \/ act[c].seen = "failed")
     \/ /\ job[j].state = "none"
        /\ Return(c) /\ UNCHANGED phase
  /\ UNCHANGED <<art, posts, queue, dedup, tick, requests, crashes>>

\* PATCH without a run_at: a row read in any open state but scheduled returns
\* to the queue; new prompts prepare it again.
Edit(c) ==
  LET j == act[c].job IN
  /\ Handling(c, "edit")
  /\ IF act[c].seen = "scheduled"
     THEN job' = [job EXCEPT ![j].age = "fresh"]
     ELSE Requeue(j, "scheduled")
  /\ \E prompts \in BOOLEAN :
       StartPrepIf(c, /\ job[j].state # "none"
                      /\ \/ act[c].seen = "failed"
                         \/ prompts /\ phase[j] # "early")
  /\ UNCHANGED <<phase, art, posts, queue, dedup, tick, requests, crashes>>

\* POST retry-preparation, and each row of retry-failed-preparations.
RetryPreparation(c) ==
  /\ Handling(c, "retry")
  /\ Requeue(act[c].job, "content_generating")
  /\ Goto(c, "start_prep")
  /\ UNCHANGED <<phase, art, posts, queue, dedup, tick, requests, crashes>>

\* start_scheduled_job_preparation_task marks the row whatever its state, then
\* leaves the enqueueing to a task of its own.
StartPreparation(c) ==
  /\ act[c].pc = "start_prep"
  /\ SetState(act[c].job, "content_generating")
  /\ Goto(c, "put")
  /\ UNCHANGED <<phase, art, posts, queue, dedup, tick, requests, crashes>>

Put(c) ==
  /\ act[c].pc = "put"
  /\ Enqueue({<<IF act[c].kind = "post_now" THEN "postnow" ELSE "prep",
                act[c].job>>})
  /\ Return(c)
  /\ UNCHANGED <<job, phase, art, posts, tick, requests, crashes>>

\* DELETE one job: every row of the article that is not posted goes; if none
\* did, the row is marked cancelled.
Cancel(c) ==
  LET j == act[c].job IN
  /\ Handling(c, "cancel")
  /\ IF job[j].state = "posted" THEN SetState(j, "cancelled")
     ELSE job' = [job EXCEPT ![j] = NoRow]
  /\ Return(c)
  /\ UNCHANGED <<phase, art, posts, queue, dedup, tick, requests, crashes>>

ClearAll(c) ==
  /\ Handling(c, "clear")
  /\ job' = [j \in Jobs |-> NoRow]
  /\ Return(c)
  /\ UNCHANGED <<phase, art, posts, queue, dedup, tick, requests, crashes>>

\* The board resets a row it read in posting for over three minutes.
HealStalePosting(c) ==
  LET j == act[c].job IN
  /\ Handling(c, "board")
  /\ SetState(j, IF art[j].content # "none" THEN "ready_to_post" ELSE "scheduled")
  /\ Return(c)
  /\ UNCHANGED <<phase, art, posts, queue, dedup, tick, requests, crashes>>

\* Post Now writes posting without claiming, then queues the work.
PostNow(c) ==
  /\ Handling(c, "post_now")
  /\ SetState(act[c].job, "posting")
  /\ Goto(c, "put")
  /\ UNCHANGED <<phase, art, posts, queue, dedup, tick, requests, crashes>>

\* POST /articles/{id}/publish looks for an open row of the article ...
PublishRows(c) ==
  /\ act[c].pc = "rows"
  /\ act' = [act EXCEPT
       ![c].seen = "none",
       ![c].pc = IF job[act[c].job].state \in
                      Claimable \cup Generating \cup {"failed"}
                 THEN "claim" ELSE "check"]
  /\ UNCHANGED <<job, tick, queue, dedup>> /\ SkipOthers

\* ... claims it if there is one, and refuses if the claim is lost.
PublishClaim(c) ==
  LET j == act[c].job IN
  /\ act[c].pc = "claim"
  /\ IF CanClaim(j, Claimable \cup Generating \cup {"failed"})
     THEN /\ SetClaimed(j)
          /\ act' = [act EXCEPT ![c].seen = "claimed", ![c].pc = "check"]
     ELSE UNCHANGED job /\ Return(c)
  /\ UNCHANGED <<tick, queue, dedup>> /\ SkipOthers

\* Mutant of PublishCheck: the body is not looked at.
PublishUnchecked(c) ==
  /\ act[c].pc = "check"
  /\ Goto(c, "publish") \/ Return(c)
  /\ UNCHANGED <<job, tick, queue, dedup>> /\ SkipOthers

\* The quota and the body are checked after the claim, which a refusal keeps.
PublishCheck(c) ==
  /\ act[c].pc = "check"
  /\ \/ act[c].content # "none" /\ Goto(c, "publish")
     \/ (act[c].content = "none" \/ "quota" \in Faults) /\ Return(c)
  /\ UNCHANGED <<job, tick, queue, dedup>> /\ SkipOthers

ClientStep(c) ==
  \/ Schedule(c) \/ Reschedule(c) \/ Edit(c) \/ RetryPreparation(c)
  \/ StartPreparation(c) \/ Put(c) \/ Cancel(c) \/ ClearAll(c)
  \/ HealStalePosting(c) \/ PostNow(c) \/ PublishRows(c) \/ PublishClaim(c)
  \/ PublishCheck(c) \/ PublishingStep(c)

-----------------------------------------------------------------------------
(* The clock and the failures.                                             *)

\* run_at comes nearer.
Advance(j) ==
  /\ phase[j] # "due"
  /\ phase' = [phase EXCEPT ![j] = IF @ = "early" THEN "window" ELSE "due"]
  /\ UNCHANGED <<job, art, posts, queue, dedup, act, tick, requests, crashes>>

\* updated_at grows older; only these states have their age looked at.  Unless
\* "slow" is a fault, a preparation at work takes less than 45 minutes.
Preparing(j) ==
  \E a \in Actors :
    /\ act[a].job = j
    /\ act[a].pc \in {"prepare", "generating", "reload", "hold", "ready", "raise",
                      "unwind"}

Age(j) ==
  /\ job[j].state \in Generating \cup {"posting"}
  /\ job[j].age # "stalled"
  /\ job[j].age = "stale" => "slow" \in Faults \/ ~Preparing(j)
  /\ job' = [job EXCEPT ![j].age = IF @ = "fresh" THEN "stale" ELSE "stalled"]
  /\ UNCHANGED <<phase, art, posts, queue, dedup, act, tick, requests, crashes>>

\* Redis drops a dedup key 20 minutes after it was set, whatever became of its
\* entry.
ExpireDedup(i) ==
  /\ i \in dedup /\ queue[i] < MaxQueued
  /\ dedup' = dedup \ {i}
  /\ UNCHANGED <<job, phase, art, posts, queue, act, tick, requests, crashes>>

\* The worker process dies, or is stopped: a stop still runs finally clauses.
Running == {<<act[w].kind, act[w].job>> :
              w \in {v \in Workers : act[v].pc # "idle"}}

WorkerStops ==
  /\ "worker_crash" \in Faults /\ crashes < MaxCrashes
  /\ crashes' = crashes + 1
  /\ act' = [a \in Actors |-> IF a \in Workers THEN Idle ELSE act[a]]
  /\ \/ UNCHANGED dedup
     \/ dedup' = dedup \ Running
  /\ UNCHANGED <<job, phase, art, posts, queue, tick, requests>>

SchedulerStops(s) ==
  /\ "scheduler_crash" \in Faults /\ crashes < MaxCrashes
  /\ crashes' = crashes + 1
  /\ act' = [act EXCEPT ![s] = Idle]
  /\ tick' = [tick EXCEPT ![s] = NoTick]
  /\ UNCHANGED <<job, phase, art, posts, queue, dedup, requests>>

Environment ==
  \/ \E j \in Jobs : Advance(j) \/ Age(j)
  \/ \E i \in Items : ExpireDedup(i)
  \/ WorkerStops
  \/ \E s \in Schedulers : SchedulerStops(s)

Next ==
  \/ \E s \in Schedulers : SchedulerStep(s)
  \/ \E w \in Workers : WorkerStep(w)
  \/ \E c \in Clients : Receive(c) \/ ClientStep(c)
  \/ Environment

Spec == Init /\ [][Next]_vars

\* The processes keep running and time keeps passing; users owe nothing.
Fairness ==
  /\ \A s \in Schedulers : WF_vars(SchedulerStep(s))
  /\ \A w \in Workers : WF_vars(WorkerStep(w))
  /\ \A c \in Clients : WF_vars(ClientStep(c))
  /\ \A j \in Jobs : WF_vars(Advance(j)) /\ WF_vars(Age(j))
  /\ \A i \in Items : WF_vars(ExpireDedup(i))

FairSpec == Spec /\ Fairness

-----------------------------------------------------------------------------
(* Properties.                                                             *)

\* WordPress never gets a second post of an article, whatever the scheduler,
\* the preparation tasks and the editing requests do to its row meanwhile.
AtMostOnePost == \A j \in Jobs : posts[j] <= 1

\* A post that exists is known: the article holds its id, or the actor that
\* created it is still writing the id down.
EveryPostIsKnown ==
  \A j \in Jobs : posts[j] > 0 =>
    \/ art[j].wp
    \/ \E a \in Actors : act[a].pc \in {"rec_job", "rec_art"} /\ act[a].job = j

\* A row says posted only when a post of its article exists, although six
\* places write that state, some from what they read before an await.
PostedHasPost == \A j \in Jobs : job[j].state = "posted" => posts[j] > 0

\* A row in posting belongs to a scheduler that is at work on it: nothing leaves
\* a claimed row behind where the scheduler would never look again.
PostingHasOwner ==
  \A j \in Jobs : job[j].state = "posting" =>
    \E s \in Schedulers :
      /\ act[s].job = j
      /\ act[s].pc \in {"load", "prepare", "generating", "mark", "hold", "publish",
                         "rec_job", "raise", "unwind", "reload"}

\* Only an article with a body is sent to WordPress, whichever of the three
\* publishers sends it and whenever it read the article.
PublishesBody ==
  [][\A j \in Jobs : posts'[j] > posts[j] => art[j].content # "none"]_vars

\* A due row in the queue is settled: posted, failed, or taken away by a user,
\* also when the worker that was preparing it died.
DueJobsSettle ==
  \A j \in Jobs :
    phase[j] = "due" /\ job[j].state \in Claimable
      ~> phase[j] # "due" \/ job[j].state \in {"posted", "failed", "cancelled", "none"}

\* A row does not stay in a generating state after the preparation was lost.
PreparationEnds ==
  \A j \in Jobs :
    job[j].state \in Generating ~> job[j].state \notin Generating

\* A row that says failed although its article holds a post id is corrected.
FailedPostIsHealed ==
  \A j \in Jobs :
    job[j].state = "failed" /\ art[j].wp ~> job[j].state # "failed"

\* The publishing promise: one post, then its id on the article for good.
Once == INSTANCE PublishOnce WITH
          Articles <- Jobs, recorded <- {j \in Jobs : art[j].wp}
PublishesOnce   == Once!Spec
RecordsItsPosts == Once!FairSpec

\* What the comments and messages of the code say, and the code does not do.

\* The scheduler posts due items (docstring of scheduler_loop).
PublishesDueItems ==
  [][\A j \in Jobs : posts'[j] > posts[j] => phase[j] = "due"]_vars

\* A row that has been posted cannot be cancelled (the DELETE route's message).
PostedIsNotCancelled ==
  [][\A j \in Jobs : job[j].state = "posted" => job'[j].state # "cancelled"]_vars

=============================================================================
