----------------------- MODULE ScheduledPublishingSafety -----------------------
(***************************************************************************)
(* The safety invariants of ScheduledPublishing, for every set of rows,    *)
(* processes and requests and every bound.                                 *)
(***************************************************************************)
EXTENDS ScheduledPublishingProofs

-----------------------------------------------------------------------------
(* Where a post id, or the belief that there is one, may be found.  Each   *)
(* of these places implies a post, and none of the six writers of posted   *)
(* acts on anything else.                                                  *)

ArticlesKnowPosts == \A j \in Jobs : art[j].wp => posts[j] > 0
RowsKnowPosts ==
  \A j \in Jobs : job[j].wp \/ job[j].state = "posted" => posts[j] > 0
ActorsKnowPosts ==
  \A a \in Actors : act[a].pc \in {"mark", "rec_job", "rec_art"} =>
                      posts[act[a].job] > 0
SnapshotsKnowPosts ==
  \A s \in Schedulers : \A j \in tick[s].recorded : posts[j] > 0

KnowledgeIsTrue ==
  /\ TypeOK
  /\ ArticlesKnowPosts /\ RowsKnowPosts /\ ActorsKnowPosts /\ SnapshotsKnowPosts

-----------------------------------------------------------------------------
(* Who has seen the body of an article that is about to be sent.           *)

SeenBodiesExist ==
  \A a \in Actors :
    /\ act[a].pc \in {"prep_mark", "prepare", "rows", "claim", "check"}
         /\ act[a].content # "none" => art[act[a].job].content # "none"
    /\ act[a].pc \in {"reload", "hold", "publish"} => art[act[a].job].content # "none"

BodyIsThere == TypeOK /\ SeenBodiesExist

-----------------------------------------------------------------------------
(* One scheduler, whose replies and writes arrive, and no publisher beside *)
(* it: the preparation tasks and the editing requests run freely.          *)

SoleScheduler ==
  /\ \E s : Schedulers = {s}
  /\ Requests \cap {"post_now", "publish"} = {}
  /\ Faults \cap {"lost_reply", "store", "scheduler_crash"} = {}

\* What the other actors then do.
WorkersPrepare ==
  /\ \A w \in Workers :
       /\ act[w].pc \in {"idle", "start", "prep_mark", "prepare", "generating", "raise",
                          "unwind", "defer", "ready", "clear"}
       /\ act[w].pc # "idle" => act[w].kind = "prep"
  /\ \A j \in Jobs : queue[<<"postnow", j>>] = 0
ClientsEdit ==
  \A c \in Clients : /\ act[c].pc \in {"idle", "write", "start_prep", "put"}
                     /\ act[c].kind \notin {"post_now", "publish"}

Confined == TypeOK /\ WorkersPrepare /\ ClientsEdit

\* The scheduler holds the id of a post it has not written down.
Recording(j) ==
  \E s \in Schedulers : act[s].pc \in {"rec_job", "rec_art"} /\ act[s].job = j

PostsAreKnown ==
  \A j \in Jobs : /\ posts[j] <= 1
                  /\ posts[j] = 1 <=> art[j].wp \/ Recording(j)

\* From the scheduler's last look at the article to the write of its id, the
\* article has none.
NotYetPosted ==
  \A s \in Schedulers :
    act[s].pc \in {"prepare", "generating", "hold", "reload", "publish", "rec_job",
                   "rec_art"} => ~art[act[s].job].wp

OnePost == Confined /\ PostsAreKnown /\ NotYetPosted

-----------------------------------------------------------------------------
(* How posts come about, and what makes a row or an article claim one.     *)

\* The only step that makes a post is the call of WordPress.
LEMMA PostsStep ==
  ASSUME [Next]_vars
  PROVE  UNCHANGED posts \/ \E a \in Actors : Publish(a) \/ ReplyLost(a)
<1> DEFINE Posted == \E a \in Actors : Publish(a) \/ ReplyLost(a)
<1>1. ASSUME NEW a \in Actors, PublishingStep(a)
      PROVE  UNCHANGED posts \/ Posted
  BY <1>1 DEF PublishingStep, Prepare, Generated, GenerationFails, Reload,
     MarkPosted, PublishFails, RecordJob, RecordFails, RecordArticle, Fail, FailIsLost
<1>2. ASSUME NEW s \in Schedulers, SchedulerStep(s)
      PROVE  UNCHANGED posts \/ Posted
  BY <1>1, <1>2 DEF Actors, SchedulerStep, SkipOthers, Poll, Scan, HealStalled,
     Dispatch, HealFailed, Claim, EndTick, LoadArticle, Hold
<1>3. ASSUME NEW w \in Workers, WorkerStep(w)
      PROVE  UNCHANGED posts \/ Posted
  BY <1>1, <1>3 DEF Actors, WorkerStep, SkipOthers, Dequeue, StartPrep, DeferPrep,
     MarkGenerating, MarkReady, StartPostNow, AwaitPrep, PostNowArticle, ClearDedup
<1>4. ASSUME NEW c \in Clients, Receive(c) \/ ClientStep(c)
      PROVE  UNCHANGED posts \/ Posted
  BY <1>1, <1>4 DEF Actors, ClientStep, SkipOthers, Receive, Schedule, Reschedule,
     Edit, RetryPreparation, StartPreparation, Put, Cancel, ClearAll,
     HealStalePosting, PostNow, PublishRows, PublishClaim, PublishCheck
<1>5. Environment => UNCHANGED posts
  BY DEF Environment, Advance, Age, ExpireDedup, WorkerStops, SchedulerStops
<1>6. UNCHANGED vars => UNCHANGED posts
  BY DEF vars
<1> QED
  BY <1>2, <1>3, <1>4, <1>5, <1>6 DEF Next

\* Posts are never taken back.
LEMMA PostsGrow ==
  ASSUME TypeOK, [Next]_vars, NEW j \in Jobs
  PROVE  posts'[j] >= posts[j]
<1>1. \A a \in Actors : act[a].job \in Jobs
  BY DEF TypeOK, Local
<1>2. posts \in [Jobs -> Nat]
  BY DEF TypeOK
<1>3. CASE UNCHANGED posts
  BY <1>2, <1>3
<1>4. ASSUME NEW a \in Actors, Publish(a) \/ ReplyLost(a)
      PROVE  posts'[j] >= posts[j]
  BY <1>1, <1>2, <1>4 DEF Publish, ReplyLost
<1> QED
  BY <1>3, <1>4, PostsStep

\* An article gets a post id from the actor that created its post, and keeps it.
LEMMA ArticlesStep ==
  ASSUME TypeOK, [Next]_vars, NEW j \in Jobs
  PROVE  \/ art'[j].wp = art[j].wp
         \/ art'[j].wp /\ \E a \in Actors : RecordArticle(a) /\ act[a].job = j
<1> DEFINE Known ==
      \/ art'[j].wp = art[j].wp
      \/ art'[j].wp /\ \E a \in Actors : RecordArticle(a) /\ act[a].job = j
<1>1. ASSUME NEW a \in Actors, PublishingStep(a) PROVE Known
  <2>1. act[a].job \in Jobs
    BY DEF TypeOK, Local
  <2>2. CASE Generated(a)
    BY <2>1, <2>2 DEF Generated, TypeOK
  <2>3. CASE RecordArticle(a)
    <3>1. art' = [art EXCEPT ![act[a].job].wp = TRUE]
      BY <2>3 DEF RecordArticle
    <3> QED
      BY <2>1, <2>3, <3>1 DEF TypeOK
  <2> QED
    BY <1>1, <2>2, <2>3 DEF PublishingStep, Prepare, GenerationFails, Reload,
       MarkPosted, Publish, ReplyLost, PublishFails, RecordJob, RecordFails, Fail,
       FailIsLost
<1>2. ASSUME NEW s \in Schedulers, SchedulerStep(s) PROVE Known
  BY <1>1, <1>2 DEF Actors, SchedulerStep, SkipOthers, Poll, Scan, HealStalled,
     Dispatch, HealFailed, Claim, EndTick, LoadArticle, Hold
<1>3. ASSUME NEW w \in Workers, WorkerStep(w) PROVE Known
  BY <1>1, <1>3 DEF Actors, WorkerStep, SkipOthers, Dequeue, StartPrep, DeferPrep,
     MarkGenerating, MarkReady, StartPostNow, AwaitPrep, PostNowArticle, ClearDedup
<1>4. ASSUME NEW c \in Clients, Receive(c) \/ ClientStep(c) PROVE Known
  BY <1>1, <1>4 DEF Actors, ClientStep, SkipOthers, Receive, Schedule, Reschedule,
     Edit, RetryPreparation, StartPreparation, Put, Cancel, ClearAll,
     HealStalePosting, PostNow, PublishRows, PublishClaim, PublishCheck
<1>5. Environment => Known
  BY DEF Environment, Advance, Age, ExpireDedup, WorkerStops, SchedulerStops
<1>6. UNCHANGED vars => Known
  BY DEF vars
<1> QED
  BY <1>2, <1>3, <1>4, <1>5, <1>6 DEF Next

\* What each write of a row makes it claim.
LEMMA WriteClaims ==
  ASSUME job \in [Jobs -> Row], NEW k \in Jobs, NEW j \in Jobs,
         job'[j].wp \/ job'[j].state = "posted"
  PROVE  /\ \A s \in States \ {"posted"} :
              SetState(k, s) \/ Requeue(k, s) => job[j].wp \/ job[j].state = "posted"
         /\ \A m \in BOOLEAN : SetFailed(k, m) => job[j].wp \/ job[j].state = "posted"
         /\ SetClaimed(k) => job[j].wp \/ job[j].state = "posted"
         /\ SetPosted(k) => job[j].wp \/ job[j].state = "posted" \/ k = j
<1>1. ASSUME NEW s \in States \ {"posted"}, SetState(k, s)
      PROVE  job[j].wp \/ job[j].state = "posted"
  BY <1>1 DEF SetState, Row
<1>2. ASSUME NEW s \in States \ {"posted"}, Requeue(k, s)
      PROVE  job[j].wp \/ job[j].state = "posted"
  <2>1. CASE k = j
    <3>1. job'[j].wp = job[j].wp /\ job'[j].state \in {s, job[j].state}
      BY <1>2, <2>1 DEF Requeue, Row
    <3> QED
      BY <3>1
  <2>2. CASE k # j
    BY <1>2, <2>2 DEF Requeue
  <2> QED
    BY <2>1, <2>2
<1>3. ASSUME NEW m \in BOOLEAN, SetFailed(k, m)
      PROVE  job[j].wp \/ job[j].state = "posted"
  BY <1>3 DEF SetFailed, Row
<1>4. ASSUME SetClaimed(k) PROVE job[j].wp \/ job[j].state = "posted"
  BY <1>4 DEF SetClaimed, Row
<1>5. ASSUME SetPosted(k) PROVE job[j].wp \/ job[j].state = "posted" \/ k = j
  BY <1>5 DEF SetPosted
<1> QED
  BY <1>1, <1>2, <1>3, <1>4, <1>5

\* A row comes to claim a post only from an actor or an article that knows one,
\* or from a row that claimed it when it was polled.
LEMMA RowsStep ==
  ASSUME TypeOK, [Next]_vars, NEW j \in Jobs,
         job'[j].wp \/ job'[j].state = "posted"
  PROVE  \/ job[j].wp \/ job[j].state = "posted"
         \/ art[j].wp
         \/ \E s \in Schedulers : j \in tick[s].recorded
         \/ \E a \in Actors : act[a].pc \in {"mark", "rec_job"} /\ act[a].job = j
<1> DEFINE Claims == job[j].wp \/ job[j].state = "posted"
           Known == \/ Claims
                    \/ art[j].wp
                    \/ \E s \in Schedulers : j \in tick[s].recorded
                    \/ \E a \in Actors : act[a].pc \in {"mark", "rec_job"}
                                          /\ act[a].job = j
<1>1. job \in [Jobs -> Row]
  BY DEF TypeOK
<1>2. /\ {"scheduled", "ready_to_post", "content_generating", "image_generating",
           "posting", "cancelled"} \subseteq States \ {"posted"}
  BY DEF States, Claimable, Generating
<1>3. \A a \in Actors : act[a].job \in Jobs
  BY DEF TypeOK, Local
<1>4. ASSUME NEW a \in Actors, PublishingStep(a) PROVE Known
  <2>1. CASE Prepare(a)
    BY <2>1, <1>1, <1>2, <1>3, WriteClaims DEF Prepare
  <2>2. CASE GenerationFails(a)
    BY <2>2, <1>1, <1>3, WriteClaims DEF GenerationFails
  <2>3. CASE MarkPosted(a)
    BY <2>3, <1>1, <1>3, WriteClaims DEF MarkPosted
  <2>4. CASE RecordJob(a)
    BY <2>4, <1>1, <1>3, WriteClaims DEF RecordJob
  <2>5. CASE Fail(a)
    <3>1. \/ UNCHANGED job
          \/ \E m \in BOOLEAN : SetFailed(act[a].job, m)
          \/ a \in Schedulers /\ PostExists(a, act[a].job) /\ SetPosted(act[a].job)
      BY <2>5 DEF Fail
    <3> QED
      BY <3>1, <1>1, <1>3, WriteClaims DEF PostExists
  <2> QED
    BY <1>4, <2>1, <2>2, <2>3, <2>4, <2>5 DEF PublishingStep, Generated, Reload,
       Publish, ReplyLost, PublishFails, RecordFails, RecordArticle, FailIsLost
<1>5. ASSUME NEW s \in Schedulers, SchedulerStep(s) PROVE Known
  <2>1. /\ s \in Actors /\ tick[s].stalled \subseteq Jobs
        /\ tick[s].failed \subseteq Jobs
        /\ tick[s].due \subseteq Jobs /\ tick[s].retry \subseteq Jobs
    BY DEF TypeOK, Snapshot, Actors
  <2>2. CASE HealStalled(s)
    BY <2>1, <2>2, <1>1, <1>2, WriteClaims DEF HealStalled
  <2>3. CASE HealFailed(s)
    BY <2>1, <2>3, <1>1, WriteClaims DEF HealFailed, PostExists
  <2>4. CASE Claim(s)
    BY <2>1, <2>4, <1>1, WriteClaims DEF Claim
  <2>5. CASE Hold(s)
    BY <2>1, <2>5, <1>1, <1>3 DEF Hold, Row
  <2> QED
    BY <1>4, <1>5, <2>1, <2>2, <2>3, <2>4, <2>5 DEF SchedulerStep, Poll, Scan,
       Dispatch, EndTick, LoadArticle
<1>6. ASSUME NEW w \in Workers, WorkerStep(w) PROVE Known
  <2>1. w \in Actors
    BY DEF Actors
  <2>2. CASE DeferPrep(w) \/ MarkGenerating(w) \/ MarkReady(w)
    BY <2>1, <2>2, <1>1, <1>2, <1>3, WriteClaims
       DEF DeferPrep, MarkGenerating, MarkReady
  <2> QED
    BY <1>4, <1>6, <2>1, <2>2 DEF WorkerStep, Dequeue, StartPrep, StartPostNow,
       AwaitPrep, PostNowArticle, ClearDedup
<1>7. ASSUME NEW c \in Clients, Receive(c) \/ ClientStep(c) PROVE Known
  <2>1. c \in Actors
    BY DEF Actors
  <2>2. CASE Schedule(c)
    BY <2>1, <2>2, <1>1, <1>3 DEF Schedule, NoRow, Row
  <2>3. CASE Reschedule(c) \/ RetryPreparation(c)
    BY <2>1, <2>3, <1>1, <1>2, <1>3, WriteClaims DEF Reschedule, RetryPreparation
  <2>4. CASE Edit(c)
    <3>1. \/ Requeue(act[c].job, "scheduled")
          \/ job' = [job EXCEPT ![act[c].job].age = "fresh"]
      BY <2>4 DEF Edit
    <3> QED
      BY <3>1, <2>1, <1>1, <1>2, <1>3, WriteClaims DEF Row
  <2>5. CASE StartPreparation(c) \/ PostNow(c)
    BY <2>1, <2>5, <1>1, <1>2, <1>3, WriteClaims DEF StartPreparation, PostNow
  <2>6. CASE HealStalePosting(c)
    BY <2>1, <2>6, <1>1, <1>2, <1>3, WriteClaims DEF HealStalePosting
  <2>7. CASE Cancel(c) \/ ClearAll(c)
    BY <2>1, <2>7, <1>1, <1>2, <1>3, WriteClaims DEF Cancel, ClearAll, NoRow
  <2>8. CASE PublishClaim(c)
    BY <2>1, <2>8, <1>1, <1>3, WriteClaims DEF PublishClaim
  <2> QED
    BY <1>4, <1>7, <2>1, <2>2, <2>3, <2>4, <2>5, <2>6, <2>7, <2>8 DEF ClientStep,
       SkipOthers, Receive, Put, PublishRows, PublishCheck
<1>8. Environment => Known
  <2>1. ASSUME NEW k \in Jobs, Age(k) PROVE Known
    BY <2>1, <1>1 DEF Age, Row
  <2> QED
    BY <2>1 DEF Environment, Advance, ExpireDedup, WorkerStops, SchedulerStops
<1>9. UNCHANGED vars => Known
  BY DEF vars
<1> QED
  BY <1>5, <1>6, <1>7, <1>8, <1>9 DEF Next

\* An actor comes to believe in a post when it reads the id in the article or
\* creates the post.
LEMMA ActorsStep ==
  ASSUME TypeOK, [Next]_vars, NEW a \in Actors,
         act'[a].pc \in {"mark", "rec_job", "rec_art"}
  PROVE  /\ act'[a].job = act[a].job
         /\ \/ act[a].pc \in {"mark", "rec_job", "rec_art"}
            \/ art[act[a].job].wp
            \/ /\ act[a].pc = "publish"
               /\ posts' = [posts EXCEPT ![act[a].job] = @ + 1]
<1> DEFINE Known == /\ act'[a].job = act[a].job
                    /\ \/ act[a].pc \in {"mark", "rec_job", "rec_art"}
                       \/ art[act[a].job].wp
                       \/ /\ act[a].pc = "publish"
                          /\ posts' = [posts EXCEPT ![act[a].job] = @ + 1]
<1>1. act \in [Actors -> Local]
  BY DEF TypeOK
<1>2. Idle.pc = "idle"
  BY DEF Idle
<1>3. ASSUME NEW b \in Actors, NEW pc \in {"mark", "rec_job", "rec_art"}, Goto(b, pc),
             \/ act[b].pc \in {"mark", "rec_job", "rec_art"}
             \/ art[act[b].job].wp
             \/ /\ act[b].pc = "publish"
                /\ posts' = [posts EXCEPT ![act[b].job] = @ + 1]
      PROVE  Known
  BY <1>1, <1>3 DEF Goto, Local
<1>4. ASSUME NEW b \in Actors, NEW pc \in PCs \ {"mark", "rec_job", "rec_art"},
             Goto(b, pc)
      PROVE  Known
  BY <1>1, <1>4 DEF Goto, Local
<1>5. ASSUME NEW b \in Actors, Done(b)
      PROVE  Known
  BY <1>1, <1>2, <1>5 DEF Done, Local, Idle
<1>6. ASSUME NEW b \in Actors, PublishingStep(b)
      PROVE  Known
  <2>1. CASE Prepare(b)
    BY <2>1, <1>4 DEF Prepare, PCs
  <2>2. CASE Generated(b)
    BY <2>2, <1>4 DEF Generated, PCs
  <2>3. CASE GenerationFails(b)
    BY <2>3, <1>4 DEF GenerationFails, PCs
  <2>4. CASE Reload(b)
    BY <2>4, <1>3, <1>4 DEF Reload, HasPost, PCs
  <2>5. CASE Publish(b)
    BY <2>5, <1>3 DEF Publish
  <2>6. CASE ReplyLost(b)
    <3>1. CASE Goto(b, "raise")
      BY <3>1, <1>4 DEF PCs
    <3>2. CASE act' = [act EXCEPT ![b].tries = @ + 1]
      BY <3>2, <1>1 DEF Local
    <3> QED
      BY <2>6, <3>1, <3>2 DEF ReplyLost
  <2>7. CASE PublishFails(b)
    BY <2>7, <1>4 DEF PublishFails, PCs
  <2>8. CASE RecordJob(b)
    BY <2>8, <1>3, <1>5 DEF RecordJob
  <2>9. CASE RecordFails(b)
    BY <2>9, <1>4, <1>5 DEF RecordFails, PCs
  <2>10. CASE RecordArticle(b)
    BY <2>10, <1>3, <1>5 DEF RecordArticle
  <2>11. CASE MarkPosted(b) \/ Fail(b)
    BY <2>11, <1>5 DEF MarkPosted, Fail
  <2>12. CASE FailIsLost(b)
    BY <2>12, <1>1, <1>2, <1>5 DEF FailIsLost
  <2> QED
    BY <1>6, <2>1, <2>2, <2>3, <2>4, <2>5, <2>6, <2>7, <2>8, <2>9, <2>10, <2>11,
       <2>12 DEF PublishingStep
<1>7. ASSUME NEW s \in Schedulers, SchedulerStep(s)
      PROVE  Known
  <2>1. s \in Actors
    BY DEF Actors
  <2>2. CASE Poll(s) \/ Scan(s) \/ HealStalled(s) \/ Dispatch(s) \/ HealFailed(s)
    <3>1. UNCHANGED act \/ \E pc \in PCs \ {"mark", "rec_job", "rec_art"} : Goto(s, pc)
      BY <2>2 DEF Poll, Scan, HealStalled, Dispatch, HealFailed, PCs
    <3> QED
      BY <3>1, <2>1, <1>4
  <2>3. CASE Claim(s)
    BY <2>1, <2>3, <1>1 DEF Claim, Local
  <2>4. CASE EndTick(s)
    BY <2>1, <2>4, <1>1, <1>2 DEF EndTick
  <2>5. CASE LoadArticle(s)
    BY <2>1, <2>5, <1>1 DEF LoadArticle, HasPost, Local
  <2>6. CASE Hold(s)
    BY <2>1, <2>6, <1>4 DEF Hold, PCs
  <2> QED
    BY <1>7, <2>1, <1>6, <2>2, <2>3, <2>4, <2>5, <2>6 DEF SchedulerStep
<1>8. ASSUME NEW w \in Workers, WorkerStep(w)
      PROVE  Known
  <2>1. w \in Actors
    BY DEF Actors
  <2>2. CASE Dequeue(w)
    <3>1. PICK i \in Items :
            act' = [act EXCEPT ![w] = [Idle EXCEPT !.pc = "start", !.kind = i[1],
                                                   !.job = i[2]]]
      BY <2>2 DEF Dequeue
    <3>2. [Idle EXCEPT !.pc = "start", !.kind = i[1], !.job = i[2]].pc = "start"
      BY DEF Idle
    <3> QED
      BY <3>1, <3>2, <2>1, <1>1
  <2>3. CASE StartPrep(w)
    <3>1. PICK pc \in {"clear", "defer", "prep_mark"} :
            act' = [act EXCEPT ![w].content = art[act[w].job].content, ![w].pc = pc]
      BY <2>3 DEF StartPrep
    <3> QED
      BY <3>1, <2>1, <1>1 DEF Local
  <2>7. CASE StartPostNow(w)
    <3>1. PICK pc \in {"raise", "clear", "wait", "art"},
               seen \in {"failed", act[w].seen} :
            act' = [act EXCEPT ![w].seen = seen, ![w].pc = pc]
      BY <2>7 DEF StartPostNow
    <3> QED
      BY <3>1, <2>1, <1>1 DEF Local
  <2>4. CASE DeferPrep(w) \/ MarkGenerating(w) \/ MarkReady(w) \/ AwaitPrep(w)
    <3>1. \E pc \in PCs \ {"mark", "rec_job", "rec_art"} : Goto(w, pc)
      BY <2>4 DEF DeferPrep, MarkGenerating, MarkReady, AwaitPrep, PCs
    <3> QED
      BY <3>1, <2>1, <1>4
  <2>5. CASE PostNowArticle(w)
    BY <2>1, <2>5, <1>1 DEF PostNowArticle, HasPost, Local
  <2>6. CASE ClearDedup(w)
    BY <2>1, <2>6, <1>1, <1>2 DEF ClearDedup
  <2> QED
    BY <1>8, <2>1, <1>6, <2>2, <2>3, <2>4, <2>5, <2>6, <2>7 DEF WorkerStep
<1>9. ASSUME NEW c \in Clients, Receive(c) \/ ClientStep(c)
      PROVE  Known
  <2>1. c \in Actors
    BY DEF Actors
  <2>2. CASE Receive(c)
    <3>1. PICK k \in Requests, j \in Jobs :
            act' = [act EXCEPT ![c] =
              [Idle EXCEPT
                 !.pc = IF k = "publish" THEN "rows" ELSE "write",
                 !.kind = k, !.job = j,
                 !.seen = IF k \in {"reschedule", "edit"} THEN job[j].state
                          ELSE "none",
                 !.content = IF k = "publish" THEN art[j].content ELSE "none"]]
      BY <2>2 DEF Receive
    <3> DEFINE pc == IF k = "publish" THEN "rows" ELSE "write"
               seen == IF k \in {"reschedule", "edit"} THEN job[j].state
                       ELSE "none"
               content == IF k = "publish" THEN art[j].content ELSE "none"
               l == [Idle EXCEPT !.pc = pc, !.kind = k, !.job = j, !.seen = seen,
                                 !.content = content]
    <3>2. act' = [act EXCEPT ![c] = l] /\ pc \in {"rows", "write"}
      BY <3>1
    <3> HIDE DEF pc, seen, content
    <3>3. l.pc = pc
      BY DEF Idle
    <3> HIDE DEF l
    <3> QED
      BY <3>2, <3>3, <2>1, <1>1
  <2>3. ASSUME Return(c) \/ \E now \in BOOLEAN : StartPrepIf(c, now) PROVE Known
    <3>1. Return(c) \/ Goto(c, "start_prep")
      BY <2>3 DEF StartPrepIf
    <3>2. CASE Return(c)
      BY <3>2, <2>1, <1>1, <1>2 DEF Return
    <3> QED
      BY <3>1, <3>2, <2>1, <1>4 DEF PCs
  <2>4. CASE Schedule(c) \/ Reschedule(c) \/ Edit(c)
    BY <2>3, <2>4 DEF Schedule, Reschedule, Edit, StartPrepIf
  <2>5. CASE RetryPreparation(c) \/ StartPreparation(c) \/ PostNow(c)
    BY <2>1, <2>5, <1>4 DEF RetryPreparation, StartPreparation, PostNow, PCs
  <2>6. CASE Put(c) \/ Cancel(c) \/ ClearAll(c) \/ HealStalePosting(c)
    BY <2>3, <2>6 DEF Put, Cancel, ClearAll, HealStalePosting
  <2>7. CASE PublishRows(c)
    BY <2>1, <2>7, <1>1 DEF PublishRows, Local
  <2>8. CASE PublishClaim(c)
    <3>1. CASE Return(c)
      BY <3>1, <2>3
    <3>2. CASE act' = [act EXCEPT ![c].seen = "claimed", ![c].pc = "check"]
      BY <3>2, <2>1, <1>1 DEF Local
    <3> QED
      BY <2>8, <3>1, <3>2 DEF PublishClaim
  <2>9. CASE PublishCheck(c)
    BY <2>1, <2>3, <2>9, <1>4 DEF PublishCheck, PCs
  <2> QED
    BY <1>9, <2>1, <1>6, <2>2, <2>4, <2>5, <2>6, <2>7, <2>8, <2>9 DEF ClientStep
<1>10. Environment => Known
  BY <1>1, <1>2 DEF Environment, Advance, Age, ExpireDedup, WorkerStops, SchedulerStops
<1>11. UNCHANGED vars => Known
  BY DEF vars
<1> QED
  BY <1>7, <1>8, <1>9, <1>10, <1>11 DEF Next

\* A poll records the rows that claim a post id.
LEMMA SnapshotsStep ==
  ASSUME TypeOK, [Next]_vars, NEW s \in Schedulers, NEW j \in tick'[s].recorded
  PROVE  j \in Jobs /\ (j \in tick[s].recorded \/ job[j].wp)
<1> DEFINE Known == j \in Jobs /\ (j \in tick[s].recorded \/ job[j].wp)
<1>1. tick \in [Schedulers -> Snapshot] /\ tick[s].recorded \subseteq Jobs
  BY DEF TypeOK, Snapshot
<1>2. UNCHANGED tick => Known
  BY <1>1
<1>3. ASSUME NEW r \in Schedulers, tick' = [tick EXCEPT ![r] = NoTick] PROVE Known
  BY <1>1, <1>3 DEF NoTick
<1>4. ASSUME NEW a \in Actors, PublishingStep(a) PROVE Known
  BY <1>2, <1>3, <1>4 DEF PublishingStep, Prepare, Generated, GenerationFails,
     Reload, MarkPosted, Publish, ReplyLost, PublishFails, RecordJob, RecordFails,
     RecordArticle, Fail, FailIsLost
<1>5. ASSUME NEW r \in Schedulers, SchedulerStep(r) PROVE Known
  <2>1. r \in Actors
    BY DEF Actors
  <2>2. CASE Poll(r)
    BY <2>2, <1>1 DEF Poll
  <2>3. CASE Scan(r) \/ HealStalled(r) \/ HealFailed(r)
    BY <2>3, <1>1 DEF Scan, HealStalled, HealFailed, Snapshot
  <2>4. CASE Claim(r)
    BY <2>4, <1>1 DEF Claim, Snapshot
  <2>5. CASE EndTick(r)
    BY <2>5, <1>3 DEF EndTick
  <2> QED
    BY <1>2, <1>4, <1>5, <2>1, <2>2, <2>3, <2>4, <2>5 DEF SchedulerStep, Dispatch,
       LoadArticle, Hold
<1>6. ASSUME NEW w \in Workers, WorkerStep(w) PROVE Known
  BY <1>2, <1>4, <1>6 DEF Actors, WorkerStep, Dequeue, StartPrep, DeferPrep,
     MarkGenerating, MarkReady, StartPostNow, AwaitPrep, PostNowArticle, ClearDedup
<1>7. ASSUME NEW c \in Clients, Receive(c) \/ ClientStep(c) PROVE Known
  BY <1>2, <1>4, <1>7 DEF Actors, ClientStep, Receive, Schedule, Reschedule,
     Edit, RetryPreparation, StartPreparation, Put, Cancel, ClearAll,
     HealStalePosting, PostNow, PublishRows, PublishClaim, PublishCheck
<1>8. Environment => Known
  BY <1>2, <1>3 DEF Environment, Advance, Age, ExpireDedup, WorkerStops, SchedulerStops
<1>9. UNCHANGED vars => Known
  BY <1>2 DEF vars
<1> QED
  BY <1>5, <1>6, <1>7, <1>8, <1>9 DEF Next

-----------------------------------------------------------------------------
(* A row that says posted has a post.                                      *)

\* Every place that holds a post id, and every actor that acts on one, is right.
LEMMA KnowledgeIsInductive == KnowledgeIsTrue /\ [Next]_vars => KnowledgeIsTrue'
<1> SUFFICES ASSUME KnowledgeIsTrue, [Next]_vars PROVE KnowledgeIsTrue'
  OBVIOUS
<1>1. TypeOK /\ TypeOK'
  BY TypeIsInductive DEF KnowledgeIsTrue
<1>2. \A j \in Jobs : posts[j] > 0 => posts'[j] > 0
  BY <1>1, PostsGrow DEF TypeOK
<1>3. \A a \in Actors : act[a].job \in Jobs /\ act'[a].job \in Jobs
  BY <1>1 DEF TypeOK, Local
<1>4. ArticlesKnowPosts'
  BY <1>1, <1>2, ArticlesStep DEF RecordArticle, KnowledgeIsTrue, ArticlesKnowPosts,
     ActorsKnowPosts
<1>5. RowsKnowPosts'
  BY <1>1, <1>2, RowsStep DEF KnowledgeIsTrue, ArticlesKnowPosts, ActorsKnowPosts,
     RowsKnowPosts, SnapshotsKnowPosts
<1>6. ActorsKnowPosts'
  <2> SUFFICES ASSUME NEW a \in Actors, act'[a].pc \in {"mark", "rec_job", "rec_art"}
               PROVE  posts'[act'[a].job] > 0
    BY DEF ActorsKnowPosts
  <2>1. CASE posts' = [posts EXCEPT ![act[a].job] = @ + 1]
    BY <1>1, <1>3, <2>1, ActorsStep DEF TypeOK
  <2> QED
    BY <1>1, <1>2, <1>3, <2>1, ActorsStep DEF KnowledgeIsTrue, ArticlesKnowPosts,
       ActorsKnowPosts
<1>7. SnapshotsKnowPosts'
  BY <1>1, <1>2, SnapshotsStep DEF KnowledgeIsTrue, RowsKnowPosts, SnapshotsKnowPosts
<1> QED
  BY <1>1, <1>4, <1>5, <1>6, <1>7 DEF KnowledgeIsTrue

\* A row says posted only when a post of its article exists: with any number of
\* schedulers, tasks and requests of every kind, and under every fault.
THEOREM PostedRowsHavePosts == Spec => []PostedHasPost
<1>1. Init => KnowledgeIsTrue
  <2> SUFFICES ASSUME Init PROVE KnowledgeIsTrue
    OBVIOUS
  <2>1. ArticlesKnowPosts /\ RowsKnowPosts
    <3>1. /\ [NoRow EXCEPT !.state = "scheduled"].wp = FALSE
          /\ [NoRow EXCEPT !.state = "scheduled"].state = "scheduled"
      BY DEF NoRow
    <3>2. ASSUME NEW j \in Jobs
          PROVE  ~art[j].wp /\ ~job[j].wp /\ job[j].state # "posted"
      BY <3>1 DEF Init
    <3> QED
      BY <3>2 DEF ArticlesKnowPosts, RowsKnowPosts
  <2>2. ActorsKnowPosts /\ SnapshotsKnowPosts
    BY DEF Init, Idle, NoTick, ActorsKnowPosts, SnapshotsKnowPosts
  <2> QED
    BY <2>1, <2>2, InitIsTyped DEF KnowledgeIsTrue
<1>2. KnowledgeIsTrue => PostedHasPost
  BY DEF KnowledgeIsTrue, RowsKnowPosts, PostedHasPost
<1> QED
  BY <1>1, <1>2, KnowledgeIsInductive, PTL DEF Spec

-----------------------------------------------------------------------------
(* What the actors do to each other's control state, and to their own.     *)

\* An actor moves by its own steps, or its process stops.
LEMMA OwnStep ==
  ASSUME TypeOK, [Next]_vars, NEW a \in Actors
  PROVE  \/ act'[a] = act[a]
         \/ a \in Schedulers /\ (SchedulerStep(a) \/ SchedulerStops(a))
         \/ a \in Workers /\ (WorkerStep(a) \/ WorkerStops)
         \/ a \in Clients /\ (Receive(a) \/ ClientStep(a))
<1>1. act \in [Actors -> Local]
  BY DEF TypeOK
<1> DEFINE Alone(b) == \A x \in Actors \ {b} : act'[x] = act[x]
<1>2. ASSUME NEW b \in Actors, PublishingStep(b) PROVE Alone(b)
  BY <1>1, <1>2 DEF PublishingStep, Goto, Done, Prepare, Generated, GenerationFails,
     Reload, MarkPosted, Publish, ReplyLost, PublishFails, RecordJob, RecordFails,
     RecordArticle, Fail, FailIsLost
<1>3. ASSUME NEW s \in Schedulers, SchedulerStep(s) PROVE Alone(s)
  BY <1>1, <1>2, <1>3 DEF Actors, SchedulerStep, Goto, Poll, Scan, HealStalled,
     Dispatch, HealFailed, Claim, EndTick, LoadArticle, Hold
<1>4. ASSUME NEW w \in Workers, WorkerStep(w) PROVE Alone(w)
  BY <1>1, <1>2, <1>4 DEF Actors, WorkerStep, Goto, Dequeue, StartPrep, DeferPrep,
     MarkGenerating, MarkReady, StartPostNow, AwaitPrep, PostNowArticle, ClearDedup
<1>5. ASSUME NEW c \in Clients, Receive(c) \/ ClientStep(c) PROVE Alone(c)
  BY <1>1, <1>2, <1>5 DEF Actors, ClientStep, Goto, Return, StartPrepIf, Receive,
     Schedule, Reschedule, Edit, RetryPreparation, StartPreparation, Put, Cancel,
     ClearAll, HealStalePosting, PostNow, PublishRows, PublishClaim, PublishCheck
<1>6. ASSUME Environment
      PROVE  \/ act'[a] = act[a]
             \/ a \in Schedulers /\ SchedulerStops(a)
             \/ a \in Workers /\ WorkerStops
  <2>1. ASSUME NEW s \in Schedulers, SchedulerStops(s) PROVE Alone(s)
    BY <1>1, <2>1 DEF SchedulerStops, Actors
  <2>2. WorkerStops => act'[a] = act[a] \/ a \in Workers
    BY DEF WorkerStops
  <2> QED
    BY <1>6, <2>1, <2>2 DEF Environment, Advance, Age, ExpireDedup
<1>7. UNCHANGED vars => act'[a] = act[a]
  BY DEF vars
<1> HIDE DEF Alone
<1>8. ASSUME NEW b \in Actors, Alone(b), a # b PROVE act'[a] = act[a]
  BY <1>8 DEF Alone
<1>9. Schedulers \subseteq Actors /\ Workers \subseteq Actors /\ Clients \subseteq Actors
  BY DEF Actors
<1> QED
  BY <1>3, <1>4, <1>5, <1>6, <1>7, <1>8, <1>9 DEF Next

\* Where Goto, Done and Return leave the actor.
LEMMA Moves ==
  ASSUME TypeOK, NEW a \in Actors
  PROVE  /\ \A pc \in PCs : Goto(a, pc) => act'[a] = [act[a] EXCEPT !.pc = pc]
         /\ Done(a) => act'[a] = IF a \in Schedulers THEN [Idle EXCEPT !.pc = "pick"]
                                 ELSE IF a \in Workers THEN [act[a] EXCEPT !.pc = "clear"]
                                 ELSE Idle
         /\ Return(a) => act'[a] = Idle
  BY DEF TypeOK, Goto, Done, Return

-----------------------------------------------------------------------------
(* One scheduler: at most one post of an article, and its id is known.     *)

\* Without Post Now the worker's tasks only prepare.
LEMMA WorkersKeepPreparing ==
  ASSUME SoleScheduler, Confined, [Next]_vars
  PROVE  WorkersPrepare'
<1> DEFINE PrepPCs == {"idle", "start", "prep_mark", "prepare", "generating", "raise",
                       "unwind", "defer", "ready", "clear"}
           Fine(l) == l.pc \in PrepPCs /\ (l.pc # "idle" => l.kind = "prep")
<1>1. TypeOK /\ WorkersPrepare /\ ClientsEdit
  BY DEF Confined
<1>2. Fine(Idle)
  BY DEF Idle
<1>3. ASSUME NEW w \in Workers PROVE Fine(act'[w])
  <2>1. /\ w \in Actors /\ w \notin Schedulers /\ w \notin Clients
        /\ act[w] \in Local /\ Fine(act[w])
        /\ "store" \notin Faults
    BY <1>1, ConstantsAssumption
       DEF ConstantsAssumption, Actors, WorkersPrepare, SoleScheduler, TypeOK
  <2>2. ASSUME NEW pc \in {"prepare", "generating", "raise", "unwind", "ready", "clear"},
               Goto(w, pc), act[w].kind = "prep"
        PROVE  Fine(act'[w])
    <3>1. act'[w] = [act[w] EXCEPT !.pc = pc]
      <4>1. pc \in PCs
        BY DEF PCs
      <4> QED
        BY <1>1, <2>1, <2>2, <4>1, Moves
    <3> QED
      BY <3>1, <2>1, <2>2 DEF Local
  <2>3. ASSUME Done(w), act[w].kind = "prep" PROVE Fine(act'[w])
    <3>1. act'[w] = [act[w] EXCEPT !.pc = "clear"]
      BY <1>1, <2>1, <2>3, Moves
    <3> QED
      BY <3>1, <2>1, <2>3 DEF Local
  <2>4. CASE PublishingStep(w)
    <3>1. Prepare(w) \/ Generated(w) \/ GenerationFails(w) \/ Fail(w)
      <4>1. act[w].pc \in PrepPCs
        BY <2>1
      <4>2. ~Reload(w) /\ ~MarkPosted(w) /\ ~Publish(w) /\ ~ReplyLost(w)
            /\ ~PublishFails(w) /\ ~RecordJob(w) /\ ~RecordFails(w) /\ ~RecordArticle(w)
        BY <4>1 DEF Reload, MarkPosted, Publish, ReplyLost, PublishFails, RecordJob,
           RecordFails, RecordArticle
      <4>3. ~FailIsLost(w)
        BY <2>1 DEF FailIsLost
      <4> QED
        BY <2>4, <4>2, <4>3 DEF PublishingStep
    <3>2. act[w].kind = "prep"
      BY <2>1, <2>4, <3>1 DEF Prepare, Generated, GenerationFails, Fail
    <3> QED
      BY <2>2, <2>3, <3>1, <3>2 DEF Prepare, Generated, GenerationFails, Fail
  <2>5. CASE Dequeue(w)
    <3>1. PICK i \in Items :
            /\ queue[i] > 0
            /\ act' = [act EXCEPT ![w] = [Idle EXCEPT !.pc = "start", !.kind = i[1],
                                                      !.job = i[2]]]
      BY <2>5 DEF Dequeue
    <3>2. i[1] = "prep"
      BY <1>1, <3>1 DEF Items, WorkersPrepare
    <3>3. act'[w] = [Idle EXCEPT !.pc = "start", !.kind = i[1], !.job = i[2]]
      BY <1>1, <2>1, <3>1 DEF TypeOK
    <3>4. act'[w].pc = "start" /\ act'[w].kind = "prep"
      BY <3>2, <3>3 DEF Idle
    <3> QED
      BY <3>4
  <2>6. CASE StartPrep(w)
    <3>1. act[w].kind = "prep"
      BY <2>6 DEF StartPrep
    <3>2. PICK pc \in {"clear", "defer", "prep_mark"} :
            act' = [act EXCEPT ![w].content = art[act[w].job].content, ![w].pc = pc]
      BY <2>6 DEF StartPrep
    <3> QED
      BY <3>1, <3>2, <1>1, <2>1 DEF TypeOK, Local
  <2>7. CASE DeferPrep(w) \/ MarkGenerating(w) \/ MarkReady(w)
    BY <2>1, <2>2, <2>7 DEF DeferPrep, MarkGenerating, MarkReady
  <2>8. ~StartPostNow(w) /\ ~AwaitPrep(w) /\ ~PostNowArticle(w)
    BY <2>1 DEF StartPostNow, AwaitPrep, PostNowArticle
  <2>9. CASE ClearDedup(w)
    BY <2>9, <1>1, <1>2, <2>1 DEF ClearDedup, TypeOK
  <2>10. CASE WorkerStops
    BY <2>10, <1>2, <2>1 DEF WorkerStops
  <2> QED
    BY <1>1, <2>1, <2>4, <2>5, <2>6, <2>7, <2>8, <2>9, <2>10, OwnStep DEF WorkerStep
<1>4. ASSUME NEW j \in Jobs PROVE queue'[<<"postnow", j>>] = 0
  <2>1. queue \in [Items -> Nat] /\ <<"postnow", j>> \in Items
        /\ queue[<<"postnow", j>>] = 0
    BY <1>1 DEF TypeOK, Items, WorkersPrepare
  <2>2. ASSUME NEW items, Enqueue(items), <<"postnow", j>> \notin items
        PROVE  queue'[<<"postnow", j>>] = 0
    BY <2>1, <2>2 DEF Enqueue
  <2>3. ASSUME NEW a \in Actors, PublishingStep(a) PROVE UNCHANGED queue
    BY <2>3 DEF PublishingStep, Prepare, Generated, GenerationFails, Reload,
       MarkPosted, Publish, ReplyLost, PublishFails, RecordJob, RecordFails,
       RecordArticle, Fail, FailIsLost
  <2>4. ASSUME NEW s \in Schedulers, SchedulerStep(s), ~Dispatch(s)
        PROVE  UNCHANGED queue
    BY <2>3, <2>4 DEF Actors, SchedulerStep, Poll, Scan, HealStalled, HealFailed,
       Claim, EndTick, LoadArticle, Hold
  <2>5. ASSUME NEW s \in Schedulers, Dispatch(s) PROVE queue'[<<"postnow", j>>] = 0
    BY <2>2, <2>5 DEF Dispatch
  <2>6. ASSUME NEW w \in Workers, WorkerStep(w)
        PROVE  queue'[<<"postnow", j>>] = 0
    <3>1. CASE Dequeue(w)
      BY <2>1, <3>1 DEF Dequeue
    <3> QED
      BY <2>1, <2>3, <2>6, <3>1 DEF Actors, WorkerStep, StartPrep, DeferPrep,
         MarkGenerating, MarkReady, StartPostNow, AwaitPrep, PostNowArticle, ClearDedup
  <2>7. ASSUME NEW c \in Clients, Receive(c) \/ ClientStep(c)
        PROVE  queue'[<<"postnow", j>>] = 0
    <3>1. CASE Put(c)
      BY <1>1, <2>2, <3>1 DEF Put, ClientsEdit
    <3> QED
      BY <2>1, <2>3, <2>7, <3>1 DEF Actors, ClientStep, Receive, Schedule, Reschedule,
         Edit, RetryPreparation, StartPreparation, Cancel, ClearAll,
         HealStalePosting, PostNow, PublishRows, PublishClaim, PublishCheck
  <2>8. Environment => UNCHANGED queue
    BY DEF Environment, Advance, Age, ExpireDedup, WorkerStops, SchedulerStops
  <2> QED
    BY <2>1, <2>4, <2>5, <2>6, <2>7, <2>8 DEF Next, vars
<1> QED
  BY <1>3, <1>4 DEF WorkersPrepare

\* Without Post Now and the publish request the handlers never reach WordPress.
LEMMA ClientsKeepEditing ==
  ASSUME SoleScheduler, Confined, [Next]_vars
  PROVE  ClientsEdit'
<1> DEFINE Fine(l) == /\ l.pc \in {"idle", "write", "start_prep", "put"}
                      /\ l.kind \notin {"post_now", "publish"}
<1>1. TypeOK /\ ClientsEdit
  BY DEF Confined
<1>2. Fine(Idle)
  BY DEF Idle
<1> SUFFICES ASSUME NEW c \in Clients PROVE Fine(act'[c])
  BY DEF ClientsEdit
<1>3. c \in Actors /\ c \notin Schedulers /\ c \notin Workers /\ act[c] \in Local
      /\ Fine(act[c])
  BY <1>1, ConstantsAssumption DEF ConstantsAssumption, Actors, ClientsEdit, TypeOK
<1>4. ASSUME NEW pc \in {"start_prep", "put"}, Goto(c, pc) PROVE Fine(act'[c])
  <2>1. act'[c] = [act[c] EXCEPT !.pc = pc]
    BY <1>1, <1>3, <1>4, Moves DEF PCs
  <2> QED
    BY <2>1, <1>3 DEF Local
<1>5. Return(c) => Fine(act'[c])
  BY <1>1, <1>2, <1>3, Moves
<1>6. CASE Receive(c)
  <2>1. PICK k \in Requests, j \in Jobs :
          act' = [act EXCEPT ![c] =
            [Idle EXCEPT
               !.pc = IF k = "publish" THEN "rows" ELSE "write",
               !.kind = k, !.job = j,
               !.seen = IF k \in {"reschedule", "edit"} THEN job[j].state
                        ELSE "none",
               !.content = IF k = "publish" THEN art[j].content ELSE "none"]]
    BY <1>6 DEF Receive
  <2> DEFINE seen == IF k \in {"reschedule", "edit"} THEN job[j].state
                     ELSE "none"
             content == IF k = "publish" THEN art[j].content ELSE "none"
             l == [Idle EXCEPT !.pc = "write", !.kind = k, !.job = j, !.seen = seen,
                               !.content = content]
  <2>2. k \notin {"post_now", "publish"}
    BY DEF SoleScheduler
  <2>3. act'[c] = l
    BY <1>1, <1>3, <2>1, <2>2 DEF TypeOK
  <2> HIDE DEF seen, content
  <2>4. l.pc = "write" /\ l.kind = k
    BY DEF Idle
  <2> HIDE DEF l
  <2> QED
    BY <2>2, <2>3, <2>4
<1>7. CASE ClientStep(c)
  <2>1. ~PublishingStep(c) /\ ~PublishRows(c) /\ ~PublishClaim(c) /\ ~PublishCheck(c)
        /\ ~PostNow(c)
    BY <1>3 DEF PublishingStep, Prepare, Generated, GenerationFails, Reload,
       MarkPosted, Publish, ReplyLost, PublishFails, RecordJob, RecordFails,
       RecordArticle, Fail, FailIsLost, PublishRows, PublishClaim, PublishCheck,
       PostNow, Handling
  <2> QED
    BY <1>4, <1>5, <1>7, <2>1 DEF ClientStep, StartPrepIf, Schedule, Reschedule, Edit,
       RetryPreparation, StartPreparation, Put, Cancel, ClearAll, HealStalePosting
<1> QED
  BY <1>1, <1>3, <1>6, <1>7, OwnStep

\* A claim leads to the load of the article.
LEMMA ClaimMove ==
  ASSUME TypeOK, NEW s \in Schedulers, Claim(s)
  PROVE  act'[s] = act[s] \/ act'[s].pc = "load"
<1>1. PICK j \in tick[s].due \cup tick[s].retry :
        /\ tick' = [tick EXCEPT ![s].due = @ \ {j}, ![s].retry = @ \ {j}]
        /\ \/ SetClaimed(j) /\ act' = [act EXCEPT ![s].pc = "load", ![s].job = j]
           \/ UNCHANGED <<job, act>>
  BY DEF Claim
<1>2. s \in Actors /\ act \in [Actors -> Local]
  BY DEF TypeOK, Actors
<1> QED
  BY <1>1, <1>2 DEF Local

\* Between its last look at the article and the write of the post id, the sole
\* scheduler stays with one article; it got there having found no post id.
LEMMA SchedulerLooks ==
  ASSUME TypeOK, SoleScheduler, [Next]_vars, NEW s \in Schedulers,
         act'[s].pc \in {"prepare", "generating", "hold", "reload", "publish",
                         "rec_job", "rec_art"}
  PROVE  /\ act'[s].job = act[s].job
         /\ ~RecordArticle(s)
         /\ \/ act[s].pc \in {"prepare", "generating", "hold", "reload", "publish",
                              "rec_job", "rec_art"}
            \/ ~art[act[s].job].wp
<1> DEFINE Q == {"prepare", "generating", "hold", "reload", "publish", "rec_job",
                 "rec_art"}
           Known == /\ act'[s].job = act[s].job
                    /\ act[s].pc \in Q \/ ~art[act[s].job].wp
<1>1. /\ s \in Actors /\ s \notin Workers /\ s \notin Clients
      /\ act \in [Actors -> Local] /\ act[s] \in Local
      /\ "scheduler_crash" \notin Faults
  BY ConstantsAssumption DEF ConstantsAssumption, Actors, TypeOK, SoleScheduler
<1>2. ~Done(s)
  <2>1. [Idle EXCEPT !.pc = "pick"].pc = "pick"
    BY DEF Idle
  <2> QED
    BY <2>1, <1>1, Moves
<1>3. ~RecordArticle(s)
  BY <1>1, <1>2 DEF RecordArticle
<1> SUFFICES Known
  BY <1>3
<1>4. ASSUME NEW pc \in PCs, Goto(s, pc), act[s].pc \in Q PROVE Known
  <2>1. act'[s] = [act[s] EXCEPT !.pc = pc]
    BY <1>1, <1>4, Moves
  <2> QED
    BY <2>1, <1>1, <1>4 DEF Local
<1>5. CASE act'[s] = act[s]
  BY <1>5
<1>6. CASE PublishingStep(s)
  <2>1. ~MarkPosted(s) /\ ~Fail(s) /\ ~RecordFails(s) /\ ~FailIsLost(s)
    BY <1>1, <1>2 DEF MarkPosted, Fail, RecordFails, FailIsLost, SoleScheduler
  <2>2. act[s].pc \in Q
    BY <1>3, <1>6, <2>1 DEF PublishingStep, Prepare, Generated, GenerationFails,
       Reload, Publish, ReplyLost, PublishFails, RecordJob
  <2>3. \E pc \in PCs : Goto(s, pc)
    BY <1>1, <1>3, <1>6, <2>1 DEF PublishingStep, Prepare, Generated, GenerationFails,
       Reload, Publish, ReplyLost, PublishFails, RecordJob, PCs, SoleScheduler
  <2> QED
    BY <1>4, <2>2, <2>3
<1>7. CASE SchedulerStep(s)
  <2>1. CASE Poll(s) \/ Scan(s) \/ HealStalled(s) \/ Dispatch(s) \/ HealFailed(s)
    <3>1. UNCHANGED act \/ \E pc \in PCs \ Q : Goto(s, pc)
      BY <2>1 DEF Poll, Scan, HealStalled, Dispatch, HealFailed, PCs
    <3>2. ASSUME NEW pc \in PCs \ Q, Goto(s, pc) PROVE FALSE
      <4>1. act'[s] = [act[s] EXCEPT !.pc = pc]
        BY <1>1, <3>2, Moves
      <4> QED
        BY <4>1, <1>1, <3>2 DEF Local
    <3> QED
      BY <1>5, <3>1, <3>2
  <2>2. CASE Claim(s)
    BY <2>2, <1>5, ClaimMove
  <2>3. CASE EndTick(s)
    <3>1. act'[s] = Idle
      BY <2>3, <1>1 DEF EndTick
    <3>2. Idle.pc = "idle"
      BY DEF Idle
    <3> QED
      BY <3>1, <3>2
  <2>4. CASE LoadArticle(s)
    BY <2>4, <1>1 DEF LoadArticle, HasPost, Local
  <2>5. CASE Hold(s)
    BY <2>5, <1>4 DEF Hold, PCs
  <2> QED
    BY <1>6, <1>7, <2>1, <2>2, <2>3, <2>4, <2>5 DEF SchedulerStep
<1> QED
  BY <1>1, <1>3, <1>5, <1>7, OwnStep DEF SchedulerStops

\* It writes the id of the post it created, on the row and then on the article.
LEMMA SchedulerRecords ==
  ASSUME TypeOK, SoleScheduler, [Next]_vars, NEW s \in Schedulers
  PROVE  /\ act'[s].pc \in {"rec_job", "rec_art"} =>
              act[s].pc \in {"rec_job", "rec_art"} \/ Publish(s)
         /\ act[s].pc \in {"rec_job", "rec_art"} =>
              \/ act'[s].pc \in {"rec_job", "rec_art"} /\ act'[s].job = act[s].job
              \/ RecordArticle(s)
<1> DEFINE R == {"rec_job", "rec_art"}
<1>1. /\ s \in Actors /\ s \notin Workers /\ s \notin Clients
      /\ act \in [Actors -> Local] /\ act[s] \in Local
      /\ Faults \cap {"store", "lost_reply", "scheduler_crash"} = {}
  BY ConstantsAssumption DEF ConstantsAssumption, Actors, TypeOK, SoleScheduler
<1>2. ASSUME act'[s].pc \in R PROVE act[s].pc \in R \/ Publish(s)
  <2>1. act'[s].job = act[s].job /\ ~RecordArticle(s)
    BY <1>2, SchedulerLooks
  <2>2. ASSUME NEW pc \in PCs \ R, Goto(s, pc) PROVE FALSE
    <3>1. act'[s] = [act[s] EXCEPT !.pc = pc]
      BY <1>1, <2>2, Moves
    <3> QED
      BY <3>1, <1>1, <1>2, <2>2 DEF Local
  <2>3. ~Done(s)
    <3>1. [Idle EXCEPT !.pc = "pick"].pc = "pick"
      BY DEF Idle
    <3> QED
      BY <3>1, <1>1, <1>2, Moves
  <2>4. PublishingStep(s) => act[s].pc \in R \/ Publish(s)
    <3>1. /\ Prepare(s) \/ Generated(s) \/ GenerationFails(s) \/ Reload(s)
                \/ PublishFails(s) => \E pc \in PCs \ R : Goto(s, pc)
          /\ ~MarkPosted(s) /\ ~Fail(s) /\ ~FailIsLost(s) /\ ~ReplyLost(s)
      BY <1>1, <2>3 DEF Prepare, Generated, GenerationFails, Reload, PublishFails,
         MarkPosted, Fail, FailIsLost, ReplyLost, PCs
    <3> QED
      BY <2>2, <3>1 DEF PublishingStep, RecordJob, RecordFails, RecordArticle
  <2>5. SchedulerStep(s) => PublishingStep(s) \/ act'[s] = act[s]
    <3>1. /\ Poll(s) \/ Scan(s) \/ Dispatch(s) \/ Hold(s)
                => \E pc \in PCs \ R : Goto(s, pc)
          /\ HealStalled(s) \/ HealFailed(s)
                => UNCHANGED act \/ \E pc \in PCs \ R : Goto(s, pc)
      BY DEF Poll, Scan, Dispatch, Hold, HealStalled, HealFailed, PCs
    <3>2. Claim(s) => act'[s].pc = "load" \/ act'[s] = act[s]
      BY ClaimMove
    <3>3. EndTick(s) => act'[s].pc = "idle"
      <4>1. EndTick(s) => act'[s] = Idle
        BY <1>1 DEF EndTick
      <4>2. Idle.pc = "idle"
        BY DEF Idle
      <4> QED
        BY <4>1, <4>2
    <3>4. LoadArticle(s) => act'[s].pc \in {"mark", "prepare"}
      BY <1>1 DEF LoadArticle, Local
    <3> QED
      BY <1>2, <2>2, <3>1, <3>2, <3>3, <3>4 DEF SchedulerStep
  <2> QED
    BY <1>1, <1>2, <2>4, <2>5, OwnStep DEF SchedulerStops
<1>3. ASSUME act[s].pc \in R
      PROVE  \/ act'[s].pc \in R /\ act'[s].job = act[s].job
             \/ RecordArticle(s)
  <2>1. CASE RecordJob(s)
    <3>1. act'[s] = [act[s] EXCEPT !.pc = "rec_art"]
      BY <1>1, <2>1, Moves DEF RecordJob, PCs
    <3> QED
      BY <3>1, <1>1 DEF Local
  <2>2. PublishingStep(s) => RecordJob(s) \/ RecordArticle(s)
    BY <1>1, <1>3 DEF PublishingStep, Prepare, Generated, GenerationFails, Reload,
       MarkPosted, Publish, ReplyLost, PublishFails, RecordFails, Fail, FailIsLost
  <2>3. SchedulerStep(s) => PublishingStep(s)
    BY <1>3 DEF SchedulerStep, Poll, Scan, HealStalled, Dispatch, HealFailed, Claim,
       EndTick, LoadArticle, Hold
  <2> QED
    BY <1>1, <1>3, <2>1, <2>2, <2>3, OwnStep DEF SchedulerStops
<1> QED
  BY <1>2, <1>3

\* Only the sole scheduler publishes and records.
LEMMA OnlyTheScheduler ==
  ASSUME SoleScheduler, Confined, NEW a \in Actors,
         act[a].pc \in {"publish", "rec_job", "rec_art"}
  PROVE  a \in Schedulers
BY DEF Actors, Confined, WorkersPrepare, ClientsEdit

\* The invariant behind the three theorems below.
LEMMA OnePostIsInductive ==
  ASSUME SoleScheduler
  PROVE  OnePost /\ [Next]_vars => OnePost'
<1> SUFFICES ASSUME OnePost, [Next]_vars PROVE OnePost'
  OBVIOUS
<1>1. TypeOK /\ TypeOK' /\ Confined
  BY TypeIsInductive DEF OnePost, Confined
<1>2. PICK s \in Schedulers : Schedulers = {s}
  BY DEF SoleScheduler
<1>3. /\ s \in Actors /\ act[s].job \in Jobs /\ posts \in [Jobs -> Nat]
      /\ "lost_reply" \notin Faults
  BY <1>1 DEF Actors, TypeOK, Local, SoleScheduler
<1>4. Confined'
  BY <1>1, WorkersKeepPreparing, ClientsKeepEditing DEF Confined
<1>5. ASSUME NEW a \in Actors, Publish(a) \/ ReplyLost(a) \/ RecordArticle(a)
      PROVE  a = s
  BY <1>1, <1>2, <1>5, OnlyTheScheduler DEF Publish, ReplyLost, RecordArticle
<1>6. UNCHANGED posts \/ Publish(s)
  BY <1>3, <1>5, PostsStep DEF ReplyLost
<1>7. ASSUME NEW j \in Jobs
      PROVE  \/ art'[j].wp = art[j].wp
             \/ art'[j].wp /\ RecordArticle(s) /\ act[s].job = j
  BY <1>1, <1>5, ArticlesStep
<1>8. \A j \in Jobs : /\ Recording(j) <=> /\ act[s].pc \in {"rec_job", "rec_art"}
                                          /\ act[s].job = j
                      /\ Recording(j)' <=> /\ act'[s].pc \in {"rec_job", "rec_art"}
                                           /\ act'[s].job = j
  BY <1>2 DEF Recording
<1>9. NotYetPosted'
  <2> SUFFICES ASSUME act'[s].pc \in {"prepare", "generating", "hold", "reload",
                                      "publish", "rec_job", "rec_art"}
               PROVE  ~art'[act'[s].job].wp
    BY <1>2 DEF NotYetPosted
  <2> QED
    BY <1>1, <1>3, <1>7, SchedulerLooks DEF OnePost, NotYetPosted
<1>10. PostsAreKnown'
  <2> SUFFICES ASSUME NEW j \in Jobs
               PROVE  /\ posts'[j] <= 1
                      /\ posts'[j] = 1 <=> art'[j].wp \/ Recording(j)'
    BY DEF PostsAreKnown
  <2>1. /\ posts[j] <= 1
        /\ posts[j] = 1 <=> art[j].wp \/ Recording(j)
    BY DEF OnePost, PostsAreKnown
  <2>2. CASE Publish(s)
    <3>1. /\ act[s].pc = "publish" /\ ~art[act[s].job].wp
          /\ posts' = [posts EXCEPT ![act[s].job] = @ + 1]
          /\ UNCHANGED art
      BY <2>2 DEF Publish, OnePost, NotYetPosted
    <3>2. act'[s].pc = "rec_job" /\ act'[s].job = act[s].job
      <4>1. Goto(s, "rec_job") /\ "rec_job" \in PCs
        <5>1. s \notin Clients
          BY ConstantsAssumption DEF ConstantsAssumption
        <5> QED
          BY <2>2, <5>1 DEF Publish, PCs
      <4>2. act'[s] = [act[s] EXCEPT !.pc = "rec_job"]
        BY <1>1, <1>3, <4>1, Moves
      <4>3. act[s] \in Local
        BY <1>1, <1>3 DEF TypeOK
      <4> QED
        BY <4>2, <4>3 DEF Local
    <3>3. ~Recording(j)
      BY <1>8, <3>1
    <3>4. CASE j = act[s].job
      <4>1. posts[j] = 0
        BY <1>3, <2>1, <3>1, <3>3, <3>4
      <4> QED
        BY <1>3, <1>8, <3>1, <3>2, <3>4, <4>1
    <3>5. CASE j # act[s].job
      BY <1>3, <1>8, <2>1, <3>1, <3>2, <3>3, <3>5
    <3> QED
      BY <3>4, <3>5
  <2>3. CASE ~Publish(s)
    <3>1. posts'[j] = posts[j]
      BY <1>6, <2>3
    <3>2. art'[j].wp \/ Recording(j)' => art[j].wp \/ Recording(j)
      BY <1>1, <1>7, <1>8, <2>3, SchedulerLooks, SchedulerRecords DEF RecordArticle
    <3>3. art[j].wp \/ Recording(j) => art'[j].wp \/ Recording(j)'
      <4>1. RecordArticle(s) => art'[act[s].job].wp
        BY <1>1, <1>3 DEF RecordArticle, TypeOK
      <4> QED
        BY <1>1, <1>7, <1>8, <4>1, SchedulerRecords
    <3> QED
      BY <2>1, <3>1, <3>2, <3>3
  <2> QED
    BY <2>2, <2>3
<1> QED
  BY <1>4, <1>9, <1>10 DEF OnePost

\* The invariant holds initially.
LEMMA OnePostInitially == Init => OnePost
<1> SUFFICES ASSUME Init PROVE OnePost
  OBVIOUS
<1>1. Idle.pc = "idle" /\ Idle.kind = ""
  BY DEF Idle
<1>2. \A a \in Actors : act[a] = Idle
  BY DEF Init
<1>3. Confined
  BY <1>1, <1>2, InitIsTyped
     DEF Init, Confined, WorkersPrepare, ClientsEdit, Items, Actors
<1>4. PostsAreKnown /\ NotYetPosted
  <2>1. \A j \in Jobs : posts[j] = 0 /\ ~art[j].wp
    BY DEF Init
  <2>2. \A s \in Schedulers : act[s].pc = "idle"
    BY <1>1, <1>2 DEF Actors
  <2> QED
    BY <2>1, <2>2 DEF PostsAreKnown, NotYetPosted, Recording
<1> QED
  BY <1>3, <1>4 DEF OnePost

\* One scheduler, with preparation tasks and editing requests of every kind
\* beside it, never makes a second post of an article.
THEOREM SchedulerPostsOnce ==
  ASSUME SoleScheduler
  PROVE  Spec => []AtMostOnePost
<1>1. OnePost => AtMostOnePost
  BY DEF OnePost, PostsAreKnown, AtMostOnePost
<1> QED
  BY <1>1, OnePostInitially, OnePostIsInductive, PTL DEF Spec

\* Then a post that exists is always accounted for.
THEOREM SchedulerKnowsItsPosts ==
  ASSUME SoleScheduler
  PROVE  Spec => []EveryPostIsKnown
<1>1. OnePost => EveryPostIsKnown
  <2> SUFFICES ASSUME OnePost, NEW j \in Jobs, posts[j] > 0
               PROVE  \/ art[j].wp
                      \/ \E a \in Actors : /\ act[a].pc \in {"rec_job", "rec_art"}
                                           /\ act[a].job = j
    BY DEF EveryPostIsKnown
  <2>1. posts[j] = 1
    BY DEF OnePost, PostsAreKnown, Confined, TypeOK
  <2> QED
    BY <2>1 DEF OnePost, PostsAreKnown, Recording, Actors
<1> QED
  BY <1>1, OnePostInitially, OnePostIsInductive, PTL DEF Spec

\* The scheduler implements the abstract PublishOnce: each of its steps creates
\* the one post of an article, records its id for good, or does neither.
THEOREM SchedulerImplementsPublishOnce ==
  ASSUME SoleScheduler
  PROVE  Spec => PublishesOnce
<1> DEFINE known == {j \in Jobs : art[j].wp}
<1>1. Init => Once!Init
  BY DEF Init, Once!Init
<1>2. OnePost /\ [Next]_vars => [Once!Next]_(Once!vars)
  <2> SUFFICES ASSUME OnePost, [Next]_vars
               PROVE  Once!Next \/ UNCHANGED <<posts, known>>
    BY DEF Once!vars
  <2>1. TypeOK /\ Confined
    BY DEF OnePost, Confined
  <2>2. PICK s \in Schedulers : Schedulers = {s}
    BY DEF SoleScheduler
  <2>3. /\ s \in Actors /\ act[s].job \in Jobs /\ posts \in [Jobs -> Nat]
        /\ "lost_reply" \notin Faults
    BY <2>1 DEF Actors, TypeOK, Local, SoleScheduler
  <2>4. ASSUME NEW a \in Actors, Publish(a) \/ ReplyLost(a) \/ RecordArticle(a)
        PROVE  a = s
    BY <2>1, <2>2, <2>4, OnlyTheScheduler DEF Publish, ReplyLost, RecordArticle
  <2>5. \A j \in Jobs : /\ posts[j] <= 1
                        /\ posts[j] = 1 <=> art[j].wp \/ Recording(j)
    BY DEF OnePost, PostsAreKnown
  <2>6. CASE Publish(s)
    <3>1. /\ ~art[act[s].job].wp /\ ~Recording(act[s].job) /\ UNCHANGED art
          /\ posts' = [posts EXCEPT ![act[s].job] = @ + 1]
      BY <2>2, <2>6 DEF Publish, OnePost, NotYetPosted, Recording
    <3>2. posts[act[s].job] = 0
      BY <2>3, <2>5, <3>1
    <3>3. Once!Create(act[s].job)
      BY <2>3, <3>1, <3>2 DEF Once!Create
    <3> QED
      BY <2>3, <3>3 DEF Once!Next
  <2>7. CASE RecordArticle(s)
    <3>1. posts[act[s].job] = 1 /\ UNCHANGED posts
      BY <2>3, <2>5, <2>7 DEF RecordArticle, Recording
    <3>2. known' = known \cup {act[s].job}
      <4>1. art' = [art EXCEPT ![act[s].job].wp = TRUE]
        BY <2>7 DEF RecordArticle
      <4> QED
        BY <2>1, <2>3, <4>1 DEF TypeOK
    <3>3. \E a \in Jobs : Once!Record(a)
      BY <2>3, <3>1, <3>2 DEF Once!Record
    <3>4. Once!Next
      BY <3>3 DEF Once!Next
    <3> QED
      BY <3>4
  <2>8. CASE ~Publish(s) /\ ~RecordArticle(s)
    <3>1. UNCHANGED posts
      BY <2>3, <2>4, <2>8, PostsStep DEF ReplyLost
    <3>2. \A j \in Jobs : art'[j].wp = art[j].wp
      BY <2>1, <2>4, <2>8, ArticlesStep
    <3> QED
      BY <3>1, <3>2
  <2> QED
    BY <2>6, <2>7, <2>8
<1> QED
  BY <1>1, <1>2, OnePostInitially, OnePostIsInductive, PTL
     DEF Spec, PublishesOnce, Once!Spec

-----------------------------------------------------------------------------
(* Only an article with a body is sent.                                    *)

\* An article keeps its body.
LEMMA BodyStays ==
  ASSUME TypeOK, [Next]_vars, NEW j \in Jobs, art[j].content # "none"
  PROVE  art'[j].content # "none"
<1> DEFINE Known == art'[j].content # "none"
<1>1. ASSUME NEW a \in Actors, PublishingStep(a) PROVE Known
  <2>1. act[a].job \in Jobs
    BY DEF TypeOK, Local
  <2>2. CASE Generated(a)
    <3>1. PICK c \in {"text", "full"} : art' = [art EXCEPT ![act[a].job].content = c]
      BY <2>2 DEF Generated
    <3> QED
      BY <2>1, <3>1 DEF TypeOK
  <2>3. CASE RecordArticle(a)
    BY <2>1, <2>3 DEF RecordArticle, TypeOK
  <2> QED
    BY <1>1, <2>2, <2>3 DEF PublishingStep, Prepare, GenerationFails, Reload,
       MarkPosted, Publish, ReplyLost, PublishFails, RecordJob, RecordFails, Fail,
       FailIsLost
<1>2. ASSUME NEW s \in Schedulers, SchedulerStep(s) PROVE Known
  BY <1>1, <1>2 DEF Actors, SchedulerStep, SkipOthers, Poll, Scan, HealStalled,
     Dispatch, HealFailed, Claim, EndTick, LoadArticle, Hold
<1>3. ASSUME NEW w \in Workers, WorkerStep(w) PROVE Known
  BY <1>1, <1>3 DEF Actors, WorkerStep, SkipOthers, Dequeue, StartPrep, DeferPrep,
     MarkGenerating, MarkReady, StartPostNow, AwaitPrep, PostNowArticle, ClearDedup
<1>4. ASSUME NEW c \in Clients, Receive(c) \/ ClientStep(c) PROVE Known
  BY <1>1, <1>4 DEF Actors, ClientStep, SkipOthers, Receive, Schedule, Reschedule,
     Edit, RetryPreparation, StartPreparation, Put, Cancel, ClearAll,
     HealStalePosting, PostNow, PublishRows, PublishClaim, PublishCheck
<1>5. Environment => Known
  BY DEF Environment, Advance, Age, ExpireDedup, WorkerStops, SchedulerStops
<1>6. UNCHANGED vars => Known
  BY DEF vars
<1> QED
  BY <1>2, <1>3, <1>4, <1>5, <1>6 DEF Next

\* What an actor saw of the body is still there when it acts on it.
LEMMA BodyIsInductive == BodyIsThere /\ [Next]_vars => BodyIsThere'
<1> SUFFICES ASSUME BodyIsThere, [Next]_vars PROVE BodyIsThere'
  OBVIOUS
<1> DEFINE Seen == {"prep_mark", "prepare", "rows", "claim", "check"}
           Trusts == {"reload", "hold", "publish"}
           Others == PCs \ (Seen \cup Trusts)
           Body(j) == art'[j].content # "none"
           Fine(l) == /\ l.pc \in Seen /\ l.content # "none" => Body(l.job)
                      /\ l.pc \in Trusts => Body(l.job)
<1>1. TypeOK /\ TypeOK'
  BY TypeIsInductive DEF BodyIsThere
<1> SUFFICES ASSUME NEW a \in Actors PROVE Fine(act'[a])
  BY <1>1 DEF BodyIsThere, SeenBodiesExist
<1>2. /\ act \in [Actors -> Local] /\ act[a] \in Local /\ act[a].job \in Jobs
      /\ act[a].pc \in Seen /\ act[a].content # "none"
           => art[act[a].job].content # "none"
      /\ act[a].pc \in Trusts => art[act[a].job].content # "none"
  BY <1>1 DEF TypeOK, Local, BodyIsThere, SeenBodiesExist
<1>3. art[act[a].job].content # "none" => Body(act[a].job)
  BY <1>1, <1>2, BodyStays
<1>4. act'[a] = act[a] => Fine(act'[a])
  BY <1>2, <1>3
<1>5. Fine(Idle)
  BY DEF Idle
<1> HIDE DEF Body
<1>6. ASSUME NEW pc \in PCs, Goto(a, pc),
             \/ pc \in Others
             \/ Body(act[a].job)
             \/ pc \in Seen /\ act[a].pc \in Seen
      PROVE  Fine(act'[a])
  <2>1. act'[a] = [act[a] EXCEPT !.pc = pc]
    BY <1>1, <1>6, Moves
  <2>2. act'[a].pc = pc /\ act'[a].job = act[a].job /\ act'[a].content = act[a].content
    BY <2>1, <1>2 DEF Local
  <2> QED
    BY <1>2, <1>3, <1>6, <2>2
<1>7. Done(a) => Fine(act'[a])
  <2>1. [Idle EXCEPT !.pc = "pick"].pc = "pick" /\ [act[a] EXCEPT !.pc = "clear"].pc = "clear"
    BY <1>2 DEF Idle, Local
  <2> QED
    BY <1>1, <1>5, <2>1, Moves
<1>8. CASE PublishingStep(a)
  <2>1. CASE Prepare(a)
    BY <2>1, <1>2, <1>3, <1>6 DEF Prepare, PCs
  <2>2. CASE Generated(a)
    <3>1. Body(act[a].job)
      <4>1. PICK c \in {"text", "full"} : art' = [art EXCEPT ![act[a].job].content = c]
        BY <2>2 DEF Generated
      <4> QED
        BY <1>1, <1>2, <4>1 DEF Body, TypeOK
    <3> QED
      BY <2>2, <3>1, <1>6 DEF Generated, PCs
  <2>3. CASE GenerationFails(a) \/ PublishFails(a)
    BY <2>3, <1>6 DEF GenerationFails, PublishFails, PCs
  <2>4. CASE Reload(a)
    BY <2>4, <1>2, <1>3, <1>6 DEF Reload, PCs
  <2>5. CASE MarkPosted(a) \/ Fail(a)
    BY <2>5, <1>7 DEF MarkPosted, Fail
  <2>6. CASE Publish(a)
    BY <2>6, <1>6 DEF Publish, PCs
  <2>7. CASE ReplyLost(a)
    <3>1. CASE Goto(a, "raise")
      BY <3>1, <1>6 DEF PCs
    <3>2. CASE act' = [act EXCEPT ![a].tries = @ + 1]
      <4>1. act'[a].pc = act[a].pc /\ act'[a].job = act[a].job
            /\ act'[a].content = act[a].content
        BY <3>2, <1>2 DEF Local
      <4> QED
        BY <4>1, <1>2, <1>3
    <3> QED
      BY <2>7, <3>1, <3>2 DEF ReplyLost
  <2>8. CASE RecordJob(a) \/ RecordFails(a) \/ RecordArticle(a)
    BY <2>8, <1>6, <1>7 DEF RecordJob, RecordFails, RecordArticle, PCs
  <2>9. CASE FailIsLost(a)
    BY <2>9, <1>2, <1>5, <1>7 DEF FailIsLost
  <2> QED
    BY <1>8, <2>1, <2>2, <2>3, <2>4, <2>5, <2>6, <2>7, <2>8, <2>9 DEF PublishingStep
<1>9. CASE a \in Schedulers /\ SchedulerStep(a)
  <2>1. CASE Poll(a) \/ Scan(a) \/ HealStalled(a) \/ Dispatch(a) \/ HealFailed(a)
    <3>1. UNCHANGED act \/ \E pc \in Others : Goto(a, pc)
      BY <2>1 DEF Poll, Scan, HealStalled, Dispatch, HealFailed, PCs
    <3> QED
      BY <1>4, <1>6, <3>1
  <2>2. CASE Claim(a)
    BY <1>1, <1>4, <1>9, <2>2, ClaimMove
  <2>3. CASE EndTick(a)
    BY <2>3, <1>2, <1>5 DEF EndTick
  <2>4. CASE LoadArticle(a)
    <3>1. /\ act'[a].pc \in {"mark", "prepare"} /\ act'[a].job = act[a].job
          /\ act'[a].content = art[act[a].job].content
      BY <2>4, <1>2 DEF LoadArticle, Local
    <3> QED
      BY <3>1, <1>3
  <2>5. CASE Hold(a)
    BY <2>5, <1>2, <1>3, <1>6 DEF Hold, PCs
  <2> QED
    BY <1>8, <1>9, <2>1, <2>2, <2>3, <2>4, <2>5 DEF SchedulerStep
<1>10. CASE a \in Workers /\ WorkerStep(a)
  <2>1. CASE Dequeue(a)
    <3>1. PICK i \in Items :
            act' = [act EXCEPT ![a] = [Idle EXCEPT !.pc = "start", !.kind = i[1],
                                                   !.job = i[2]]]
      BY <2>1 DEF Dequeue
    <3>2. [Idle EXCEPT !.pc = "start", !.kind = i[1], !.job = i[2]].pc = "start"
      BY DEF Idle
    <3> QED
      BY <3>1, <3>2, <1>2
  <2>2. CASE StartPrep(a)
    <3>1. PICK pc \in {"clear", "defer", "prep_mark"} :
            act' = [act EXCEPT ![a].content = art[act[a].job].content, ![a].pc = pc]
      BY <2>2 DEF StartPrep
    <3>2. /\ act'[a].pc \in {"clear", "defer", "prep_mark"} /\ act'[a].job = act[a].job
          /\ act'[a].content = art[act[a].job].content
      BY <3>1, <1>2 DEF Local
    <3> QED
      BY <3>2, <1>3
  <2>3. CASE DeferPrep(a) \/ MarkReady(a) \/ AwaitPrep(a)
    BY <2>3, <1>6 DEF DeferPrep, MarkReady, AwaitPrep, PCs
  <2>4. CASE MarkGenerating(a)
    BY <2>4, <1>6 DEF MarkGenerating, PCs
  <2>5. CASE StartPostNow(a)
    <3>1. PICK pc \in {"raise", "clear", "wait", "art"},
               seen \in {"failed", act[a].seen} :
            act' = [act EXCEPT ![a].seen = seen, ![a].pc = pc]
      BY <2>5 DEF StartPostNow
    <3> QED
      BY <3>1, <1>2 DEF Local
  <2>6. CASE PostNowArticle(a)
    <3>1. PICK pc \in {"mark", "prepare", "publish"} :
            /\ act' = [act EXCEPT ![a].content = art[act[a].job].content, ![a].pc = pc]
            /\ pc = "publish" => art[act[a].job].content # "none"
      BY <2>6 DEF PostNowArticle
    <3>2. /\ act'[a].pc = pc /\ act'[a].job = act[a].job
          /\ act'[a].content = art[act[a].job].content
      BY <3>1, <1>2 DEF Local
    <3> QED
      BY <3>1, <3>2, <1>3
  <2>7. CASE ClearDedup(a)
    BY <2>7, <1>2, <1>5 DEF ClearDedup
  <2> QED
    BY <1>8, <1>10, <2>1, <2>2, <2>3, <2>4, <2>5, <2>6, <2>7 DEF WorkerStep
<1>11. CASE a \in Clients /\ Receive(a)
  <2>1. PICK k \in Requests, j \in Jobs :
          act' = [act EXCEPT ![a] =
            [Idle EXCEPT
               !.pc = IF k = "publish" THEN "rows" ELSE "write",
               !.kind = k, !.job = j,
               !.seen = IF k \in {"reschedule", "edit"} THEN job[j].state
                        ELSE "none",
               !.content = IF k = "publish" THEN art[j].content ELSE "none"]]
    BY <1>11 DEF Receive
  <2> DEFINE pc == IF k = "publish" THEN "rows" ELSE "write"
             seen == IF k \in {"reschedule", "edit"} THEN job[j].state ELSE "none"
             content == IF k = "publish" THEN art[j].content ELSE "none"
             l == [Idle EXCEPT !.pc = pc, !.kind = k, !.job = j, !.seen = seen,
                               !.content = content]
  <2>2. act'[a] = l
    BY <1>2, <2>1
  <2>3. content # "none" => Body(j)
    BY <1>1, BodyStays DEF Body
  <2> HIDE DEF pc, seen, content
  <2>4. l.content = content /\ l.job = j /\ l.pc = pc
    BY DEF Idle
  <2>5. pc \notin Trusts
    BY DEF pc
  <2> HIDE DEF l
  <2> QED
    BY <2>2, <2>3, <2>4, <2>5
<1>12. CASE a \in Clients /\ ClientStep(a)
  <2>1. Return(a) => Fine(act'[a])
    BY <1>1, <1>5, Moves
  <2>2. ASSUME NEW now, StartPrepIf(a, now) PROVE Fine(act'[a])
    BY <2>1, <2>2, <1>6 DEF StartPrepIf, PCs
  <2>3. CASE Schedule(a) \/ Reschedule(a) \/ Edit(a)
    BY <2>1, <2>2, <2>3 DEF Schedule, Reschedule, Edit
  <2>4. CASE RetryPreparation(a) \/ StartPreparation(a) \/ PostNow(a)
    BY <2>4, <1>6 DEF RetryPreparation, StartPreparation, PostNow, PCs
  <2>5. CASE Put(a) \/ Cancel(a) \/ ClearAll(a) \/ HealStalePosting(a)
    BY <2>1, <2>5 DEF Put, Cancel, ClearAll, HealStalePosting
  <2>6. ASSUME NEW pc \in {"claim", "check"}, NEW seen,
               act' = [act EXCEPT ![a].seen = seen, ![a].pc = pc],
               act[a].pc \in Seen
        PROVE  Fine(act'[a])
    <3>1. act'[a].pc = pc /\ act'[a].job = act[a].job /\ act'[a].content = act[a].content
      BY <2>6, <1>2 DEF Local
    <3> QED
      BY <3>1, <2>6, <1>2, <1>3
  <2>7. CASE PublishRows(a)
    BY <2>6, <2>7 DEF PublishRows
  <2>8. CASE PublishClaim(a)
    BY <2>1, <2>6, <2>8 DEF PublishClaim
  <2>9. CASE PublishCheck(a)
    BY <2>1, <2>9, <1>2, <1>3, <1>6 DEF PublishCheck, PCs
  <2> QED
    BY <1>8, <1>12, <2>3, <2>4, <2>5, <2>7, <2>8, <2>9 DEF ClientStep
<1>13. CASE a \in Workers /\ WorkerStops
  BY <1>13, <1>5 DEF WorkerStops
<1>14. CASE a \in Schedulers /\ SchedulerStops(a)
  BY <1>14, <1>2, <1>5 DEF SchedulerStops
<1> QED
  BY <1>1, <1>4, <1>9, <1>10, <1>11, <1>12, <1>13, <1>14, OwnStep

\* Whoever publishes, whenever it read the article and whatever failed before,
\* the article it sends has a body.
THEOREM SentArticlesHaveBodies == Spec => PublishesBody
<1> DEFINE Step == \A j \in Jobs : posts'[j] > posts[j] => art[j].content # "none"
<1>1. Init => BodyIsThere
  <2>1. Idle.pc = "idle"
    BY DEF Idle
  <2> QED
    BY <2>1, InitIsTyped DEF Init, BodyIsThere, SeenBodiesExist
<1>2. BodyIsThere /\ [Next]_vars => [Step]_vars
  <2> SUFFICES ASSUME BodyIsThere, [Next]_vars, NEW j \in Jobs, posts'[j] > posts[j]
               PROVE  art[j].content # "none"
    OBVIOUS
  <2>1. posts \in [Jobs -> Nat]
    BY DEF BodyIsThere, TypeOK
  <2>2. PICK a \in Actors : Publish(a) \/ ReplyLost(a)
    BY <2>1, PostsStep
  <2>3. act[a].pc = "publish" /\ j = act[a].job
    BY <2>1, <2>2 DEF Publish, ReplyLost
  <2> QED
    BY <2>3 DEF BodyIsThere, SeenBodiesExist
<1> QED
  BY <1>1, <1>2, BodyIsInductive, PTL DEF Spec, PublishesBody

-----------------------------------------------------------------------------
(* Nothing is left in posting: of the many writers of a row's state, only  *)
(* the scheduler's claim and its return from the preparation write         *)
(* posting, and the scheduler does not leave the row before it has written *)
(* something else.                                                         *)

OwnPCs == {"load", "prepare", "generating", "mark", "hold", "publish", "rec_job", "raise",
           "unwind", "reload"}

\* The scheduler never runs as a preparation task.
NoTaskKind == \A s \in Schedulers : act[s].kind = ""

Owned == Confined /\ NoTaskKind /\ PostingHasOwner

\* No write but the claim leaves the row it writes in posting.
LEMMA WriteStates ==
  ASSUME job \in [Jobs -> Row], NEW k \in Jobs, NEW j \in Jobs,
         job'[j].state = "posting"
  PROVE  /\ \A s \in States \ {"posting"} :
              SetState(k, s) \/ Requeue(k, s) => k # j /\ job[j].state = "posting"
         /\ \A m \in BOOLEAN : SetFailed(k, m) => k # j /\ job[j].state = "posting"
         /\ SetPosted(k) => k # j /\ job[j].state = "posting"
         /\ SetClaimed(k) => k = j \/ job[j].state = "posting"
<1>1. ASSUME NEW s \in States \ {"posting"}, SetState(k, s) \/ Requeue(k, s)
      PROVE  k # j /\ job[j].state = "posting"
  <2>1. CASE k = j
    <3>1. job'[j].state \in {"none", s}
      <4>1. SetState(k, s) => job'[j].state \in {"none", s}
        BY <2>1 DEF SetState, Row
      <4>2. Requeue(k, s) => job'[j].state \in {"none", s}
        BY <2>1 DEF Requeue, Row
      <4> QED
        BY <1>1, <4>1, <4>2
    <3> QED
      BY <3>1
  <2>2. CASE k # j
    BY <1>1, <2>2 DEF SetState, Requeue
  <2> QED
    BY <2>1, <2>2
<1>2. ASSUME NEW m \in BOOLEAN, SetFailed(k, m)
      PROVE  k # j /\ job[j].state = "posting"
  BY <1>2 DEF SetFailed, Row
<1>3. SetPosted(k) => k # j /\ job[j].state = "posting"
  BY DEF SetPosted, Row
<1>4. SetClaimed(k) => k = j \/ job[j].state = "posting"
  BY DEF SetClaimed
<1> QED
  BY <1>1, <1>2, <1>3, <1>4

-----------------------------------------------------------------------------
(* Where posting comes from.                                               *)

LEMMA PostingArises ==
  ASSUME SoleScheduler, Confined, [Next]_vars, NEW j \in Jobs,
         job'[j].state = "posting", job[j].state # "posting"
  PROVE  \E s \in Schedulers : act'[s].job = j /\ act'[s].pc \in OwnPCs
<1> DEFINE Arises == \E s \in Schedulers : act'[s].job = j /\ act'[s].pc \in OwnPCs
<1>1. job \in [Jobs -> Row] /\ act \in [Actors -> Local] /\ TypeOK
  BY DEF Confined, TypeOK
<1>2. {"scheduled", "ready_to_post", "content_generating", "image_generating",
       "cancelled", "none"} \subseteq States \ {"posting"}
  BY DEF States, Claimable, Generating
<1>3. \A a \in Actors : act[a].job \in Jobs
  BY <1>1 DEF Local
<1>4. ASSUME NEW a \in Actors, PublishingStep(a) PROVE FALSE
  <2>1. CASE Prepare(a)
    BY <2>1, <1>1, <1>2, <1>3, WriteStates DEF Prepare
  <2>2. CASE GenerationFails(a)
    BY <2>2, <1>1, <1>3, WriteStates DEF GenerationFails
  <2>3. CASE MarkPosted(a)
    BY <2>3, <1>1, <1>3, WriteStates DEF MarkPosted
  <2>4. CASE RecordJob(a)
    BY <2>4, <1>1, <1>3, WriteStates DEF RecordJob
  <2>5. CASE Fail(a)
    <3>1. \/ UNCHANGED job
          \/ \E m \in BOOLEAN : SetFailed(act[a].job, m)
          \/ SetPosted(act[a].job)
      BY <2>5 DEF Fail
    <3> QED
      BY <3>1, <1>1, <1>3, WriteStates
  <2> QED
    BY <1>4, <2>1, <2>2, <2>3, <2>4, <2>5 DEF PublishingStep, Generated, Reload,
       Publish, ReplyLost, PublishFails, RecordFails, RecordArticle, FailIsLost
<1>5. ASSUME NEW s \in Schedulers, SchedulerStep(s) PROVE Arises
  <2>1. /\ s \in Actors /\ tick[s].stalled \subseteq Jobs
        /\ tick[s].failed \subseteq Jobs
        /\ tick[s].due \subseteq Jobs /\ tick[s].retry \subseteq Jobs
    BY <1>1 DEF TypeOK, Snapshot, Actors
  <2>2. CASE HealStalled(s)
    BY <2>1, <2>2, <1>1, <1>2, WriteStates DEF HealStalled
  <2>3. CASE HealFailed(s)
    BY <2>1, <2>3, <1>1, WriteStates DEF HealFailed
  <2>4. CASE Claim(s)
    <3>1. PICK k \in Jobs : SetClaimed(k) /\ act' = [act EXCEPT ![s].pc = "load", ![s].job = k]
      BY <2>1, <2>4 DEF Claim
    <3>2. k = j
      BY <1>1, <3>1, WriteStates
    <3>3. act'[s].job = k /\ act'[s].pc = "load"
      BY <1>1, <2>1, <3>1 DEF Local
    <3> QED
      BY <3>2, <3>3 DEF OwnPCs
  <2>5. CASE Hold(s)
    <3>1. act[s].job = j
      BY <2>1, <2>5, <1>1, <1>3 DEF Hold, Row
    <3>2. act'[s] = [act[s] EXCEPT !.pc = "publish"]
      BY <2>1, <2>5, <1>1, Moves DEF Hold, PCs
    <3>3. act'[s].job = j /\ act'[s].pc = "publish"
      BY <1>1, <2>1, <3>1, <3>2 DEF Local
    <3> QED
      BY <3>3 DEF OwnPCs
  <2> QED
    BY <1>4, <1>5, <2>1, <2>2, <2>3, <2>4, <2>5 DEF SchedulerStep, Poll, Scan,
       Dispatch, EndTick, LoadArticle
<1>6. ASSUME NEW w \in Workers, WorkerStep(w) PROVE FALSE
  <2>1. w \in Actors
    BY DEF Actors
  <2>2. CASE DeferPrep(w) \/ MarkGenerating(w) \/ MarkReady(w)
    BY <2>1, <2>2, <1>1, <1>2, <1>3, WriteStates
       DEF DeferPrep, MarkGenerating, MarkReady
  <2> QED
    BY <1>4, <1>6, <2>1, <2>2 DEF WorkerStep, Dequeue, StartPrep, StartPostNow,
       AwaitPrep, PostNowArticle, ClearDedup
<1>7. ASSUME NEW c \in Clients, Receive(c) \/ ClientStep(c) PROVE FALSE
  <2>1. /\ c \in Actors
        /\ act[c].kind \notin {"post_now", "publish"} /\ act[c].pc # "claim"
    BY DEF Actors, Confined, ClientsEdit
  <2>2. CASE Schedule(c)
    BY <2>1, <2>2, <1>1, <1>3 DEF Schedule, NoRow, Row
  <2>3. CASE Reschedule(c) \/ RetryPreparation(c)
    BY <2>1, <2>3, <1>1, <1>2, <1>3, WriteStates DEF Reschedule, RetryPreparation
  <2>4. CASE Edit(c)
    <3>1. \/ Requeue(act[c].job, "scheduled")
          \/ job' = [job EXCEPT ![act[c].job].age = "fresh"]
      BY <2>4 DEF Edit
    <3> QED
      BY <3>1, <2>1, <1>1, <1>2, <1>3, WriteStates DEF Row
  <2>5. CASE StartPreparation(c)
    BY <2>1, <2>5, <1>1, <1>2, <1>3, WriteStates DEF StartPreparation
  <2>6. CASE HealStalePosting(c)
    BY <2>1, <2>6, <1>1, <1>2, <1>3, WriteStates DEF HealStalePosting
  <2>7. CASE Cancel(c)
    BY <2>1, <2>7, <1>1, <1>2, <1>3, WriteStates DEF Cancel, NoRow
  <2>8. CASE ClearAll(c)
    BY <2>8 DEF ClearAll, NoRow
  <2>9. ~PostNow(c) /\ ~PublishClaim(c)
    BY <2>1 DEF PostNow, PublishClaim, Handling
  <2> QED
    BY <1>4, <1>7, <2>1, <2>2, <2>3, <2>4, <2>5, <2>6, <2>7, <2>8, <2>9 DEF ClientStep,
       Receive, Put, PublishRows, PublishCheck
<1>8. ASSUME Environment PROVE FALSE
  <2>1. ASSUME NEW k \in Jobs, Age(k) PROVE FALSE
    BY <2>1, <1>1 DEF Age, Row
  <2> QED
    BY <1>8, <2>1 DEF Environment, Advance, ExpireDedup, WorkerStops, SchedulerStops
<1>9. ~UNCHANGED vars
  BY DEF vars
<1> QED
  BY <1>5, <1>6, <1>7, <1>8, <1>9 DEF Next

-----------------------------------------------------------------------------
(* The scheduler stays with its row.                                       *)

LEMMA OwnerStays ==
  ASSUME SoleScheduler, Confined, NoTaskKind, [Next]_vars, NEW s \in Schedulers,
         act[s].pc \in OwnPCs, job'[act[s].job].state = "posting"
  PROVE  act'[s].job = act[s].job /\ act'[s].pc \in OwnPCs
<1>1. /\ s \in Actors /\ s \notin Workers /\ s \notin Clients /\ TypeOK
      /\ act \in [Actors -> Local] /\ act[s] \in Local /\ act[s].job \in Jobs
      /\ job \in [Jobs -> Row]
      /\ Faults \cap {"store", "lost_reply", "scheduler_crash"} = {}
      /\ act[s].kind = ""
  BY ConstantsAssumption
     DEF ConstantsAssumption, Actors, Confined, TypeOK, SoleScheduler, Local, NoTaskKind
<1>2. ASSUME NEW pc \in OwnPCs, Goto(s, pc)
      PROVE  act'[s].job = act[s].job /\ act'[s].pc \in OwnPCs
  <2>0. pc \in PCs
    BY DEF OwnPCs, PCs
  <2>1. act'[s] = [act[s] EXCEPT !.pc = pc]
    BY <1>1, <1>2, <2>0, Moves
  <2> QED
    BY <1>1, <2>1 DEF Local
<1>3. ~MarkPosted(s) /\ ~Fail(s) /\ ~RecordJob(s)
  <2>1. /\ ~SetPosted(act[s].job)
        /\ \A m \in BOOLEAN : ~SetFailed(act[s].job, m)
    BY <1>1, WriteStates
  <2> QED
    BY <1>1, <2>1 DEF MarkPosted, Fail, RecordJob
<1>4. CASE PublishingStep(s)
  <2>1. ~RecordFails(s) /\ ~FailIsLost(s) /\ ~ReplyLost(s) /\ ~RecordArticle(s)
    BY <1>1 DEF RecordFails, FailIsLost, ReplyLost, RecordArticle, OwnPCs
  <2>2. \E pc \in OwnPCs : Goto(s, pc)
    BY <1>1, <1>3, <1>4, <2>1 DEF PublishingStep, Prepare, Generated, GenerationFails,
       Reload, Publish, PublishFails, OwnPCs
  <2> QED
    BY <1>2, <2>2
<1>5. CASE SchedulerStep(s)
  <2>1. ~Poll(s) /\ ~Scan(s) /\ ~HealStalled(s) /\ ~Dispatch(s) /\ ~HealFailed(s)
        /\ ~Claim(s) /\ ~EndTick(s)
    BY DEF Poll, Scan, HealStalled, Dispatch, HealFailed, Claim, EndTick, OwnPCs
  <2>2. CASE LoadArticle(s)
    BY <1>1, <2>2 DEF LoadArticle, Local, OwnPCs
  <2>3. CASE Hold(s)
    BY <1>2, <2>3 DEF Hold, OwnPCs
  <2> QED
    BY <1>4, <1>5, <2>1, <2>2, <2>3 DEF SchedulerStep
<1>6. CASE act'[s] = act[s]
  BY <1>6
<1> QED
  BY <1>1, <1>5, <1>6, OwnStep DEF SchedulerStops

\* The scheduler's kind stays empty: it takes up rows, never entries of the queue.
LEMMA SchedulersAreNoTasks ==
  ASSUME SoleScheduler, Confined, NoTaskKind, [Next]_vars
  PROVE  NoTaskKind'
<1> SUFFICES ASSUME NEW s \in Schedulers PROVE act'[s].kind = ""
  BY DEF NoTaskKind
<1>1. /\ s \in Actors /\ s \notin Workers /\ s \notin Clients /\ TypeOK
      /\ act \in [Actors -> Local] /\ act[s] \in Local
      /\ Faults \cap {"store", "lost_reply", "scheduler_crash"} = {}
      /\ act[s].kind = ""
  BY ConstantsAssumption
     DEF ConstantsAssumption, Actors, Confined, TypeOK, SoleScheduler, NoTaskKind
<1>i. Idle.kind = "" /\ [Idle EXCEPT !.pc = "pick"].kind = ""
  BY DEF Idle
<1>2. ASSUME NEW pc, Goto(s, pc) PROVE act'[s].kind = ""
  BY <1>1, <1>2 DEF Goto, Local
<1>3. Done(s) => act'[s].kind = ""
  BY <1>1, <1>i, Moves
<1>4. CASE PublishingStep(s)
  <2>1. Done(s) \/ \E pc \in PCs : Goto(s, pc)
    BY <1>1, <1>4 DEF PublishingStep, Prepare, Generated, GenerationFails, Reload,
       MarkPosted, Publish, ReplyLost, PublishFails, RecordJob, RecordFails,
       RecordArticle, Fail, FailIsLost, PCs
  <2> QED
    BY <1>2, <1>3, <2>1
<1>5. CASE SchedulerStep(s)
  <2>1. CASE Poll(s) \/ Scan(s) \/ HealStalled(s) \/ Dispatch(s) \/ HealFailed(s) \/ Hold(s)
    <3>1. UNCHANGED act \/ \E pc \in PCs : Goto(s, pc)
      BY <2>1 DEF Poll, Scan, HealStalled, Dispatch, HealFailed, Hold, PCs
    <3> QED
      BY <1>1, <1>2, <3>1
  <2>2. CASE Claim(s)
    <3>1. \/ UNCHANGED act
          \/ \E j \in Jobs \cup tick[s].due \cup tick[s].retry :
               act' = [act EXCEPT ![s].pc = "load", ![s].job = j]
      BY <2>2 DEF Claim
    <3> QED
      BY <1>1, <3>1 DEF Local
  <2>3. CASE EndTick(s)
    BY <1>1, <1>i, <2>3 DEF EndTick
  <2>4. CASE LoadArticle(s)
    BY <1>1, <2>4 DEF LoadArticle, Local
  <2> QED
    BY <1>4, <1>5, <2>1, <2>2, <2>3, <2>4 DEF SchedulerStep
<1> QED
  BY <1>1, <1>5, OwnStep DEF SchedulerStops

\* One scheduler that does not stop and whose writes arrive: every row in posting
\* is a row it is at work on, whatever preparation tasks and editing requests do
\* to the row meanwhile.
THEOREM PostingRowsHaveAnOwner ==
  ASSUME SoleScheduler
  PROVE  Spec => []PostingHasOwner
<1>1. Init => Owned
  <2> SUFFICES ASSUME Init PROVE Owned
    OBVIOUS
  <2>1. NoTaskKind
    BY DEF Init, NoTaskKind, Idle, Actors
  <2>2. \A j \in Jobs : job[j].state = "scheduled"
    BY DEF Init, NoRow
  <2> QED
    BY <2>1, <2>2, OnePostInitially DEF OnePost, Owned, PostingHasOwner
<1>2. Owned /\ [Next]_vars => Owned'
  <2> SUFFICES ASSUME Owned, [Next]_vars PROVE Owned'
    OBVIOUS
  <2>1. Confined /\ NoTaskKind /\ PostingHasOwner
    BY DEF Owned
  <2>2. Confined'
    BY <2>1, TypeIsInductive, WorkersKeepPreparing, ClientsKeepEditing DEF Confined
  <2>3. NoTaskKind'
    BY <2>1, SchedulersAreNoTasks
  <2>4. ASSUME NEW j \in Jobs, job'[j].state = "posting"
        PROVE  \E s \in Schedulers : act'[s].job = j /\ act'[s].pc \in OwnPCs
    <3>1. CASE job[j].state = "posting"
      <4>1. PICK s \in Schedulers : act[s].job = j /\ act[s].pc \in OwnPCs
        BY <2>1, <3>1 DEF PostingHasOwner, OwnPCs
      <4> QED
        BY <2>1, <2>4, <4>1, OwnerStays
    <3>2. CASE job[j].state # "posting"
      BY <2>1, <2>4, <3>2, PostingArises
    <3> QED
      BY <3>1, <3>2
  <2>5. PostingHasOwner'
    BY <2>4 DEF PostingHasOwner, OwnPCs
  <2> QED
    BY <2>2, <2>3, <2>5 DEF Owned
<1>3. Owned => PostingHasOwner
  BY DEF Owned
<1> QED
  BY <1>1, <1>2, <1>3, PTL DEF Spec

================================================================================
