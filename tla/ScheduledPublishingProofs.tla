---------------------- MODULE ScheduledPublishingProofs ----------------------
(***************************************************************************)
(* Proofs about ScheduledPublishing, for every set of rows, processes and  *)
(* requests and every bound.                                               *)
(***************************************************************************)
EXTENDS ScheduledPublishing, TLAPS

-----------------------------------------------------------------------------
(* Lemmas about the writes the actions are built from.                     *)

\* An idle actor's record is well formed.
LEMMA IdleIsLocal == Idle \in Local
<1>1. PICK j \in Jobs : TRUE
  BY ConstantsAssumption DEF ConstantsAssumption
<1>2. (CHOOSE k \in Jobs : TRUE) \in Jobs
  BY <1>1
<1>3. 0 \in 0..PublishAttempts
  BY ConstantsAssumption DEF ConstantsAssumption
<1>4. "idle" \in PCs
  BY DEF PCs
<1>5. "none" \in States /\ "none" \in Contents
  BY DEF States, Contents
<1> QED
  BY <1>2, <1>3, <1>4, <1>5 DEF Idle, Local

\* So is the row before anything happened to it.
LEMMA NoRowIsRow == NoRow \in Row
<1>1. 0 \in 0..MaxAttempts
  BY ConstantsAssumption DEF ConstantsAssumption
<1>2. "none" \in States /\ "fresh" \in Ages
  BY DEF States, Ages
<1> QED
  BY <1>1, <1>2 DEF NoRow, Row

\* Every write of one row keeps the rows well formed.
LEMMA SetStateType ==
  ASSUME job \in [Jobs -> Row], NEW j \in Jobs, NEW s \in States, SetState(j, s)
  PROVE  job' \in [Jobs -> Row]
<1>1. "fresh" \in Ages
  BY DEF Ages
<1> QED
  BY <1>1 DEF SetState, Row

\* Marking a row posted keeps it a row.
LEMMA SetPostedType ==
  ASSUME job \in [Jobs -> Row], NEW j \in Jobs, SetPosted(j)
  PROVE  job' \in [Jobs -> Row]
<1>1. "fresh" \in Ages /\ "posted" \in States
  BY DEF Ages, States
<1> QED
  BY <1>1 DEF SetPosted, Row

\* Marking a row failed keeps it a row.
LEMMA SetFailedType ==
  ASSUME job \in [Jobs -> Row], NEW j \in Jobs, NEW m \in BOOLEAN, SetFailed(j, m)
  PROVE  job' \in [Jobs -> Row]
<1>1. "fresh" \in Ages /\ "failed" \in States
  BY DEF Ages, States
<1> QED
  BY <1>1 DEF SetFailed, Row

\* Returning a row to the queue keeps it a row.
LEMMA RequeueType ==
  ASSUME job \in [Jobs -> Row], NEW j \in Jobs, NEW s \in States, Requeue(j, s)
  PROVE  job' \in [Jobs -> Row]
<1>1. "fresh" \in Ages
  BY DEF Ages
<1>2. 0 \in 0..MaxAttempts
  BY ConstantsAssumption DEF ConstantsAssumption
<1>3. [job[j] EXCEPT !.state = s, !.attempts = 0, !.retry = FALSE,
                     !.age = "fresh"] \in Row
  BY <1>1, <1>2 DEF Row
<1> QED
  BY <1>3 DEF Requeue

\* Claiming a row keeps it a row; the attempt counter stays in its bound.
LEMMA SetClaimedType ==
  ASSUME job \in [Jobs -> Row], NEW j \in Jobs, SetClaimed(j)
  PROVE  job' \in [Jobs -> Row]
<1>1. "fresh" \in Ages /\ "posting" \in States
  BY DEF Ages, States
<1>2. \A n \in 0..MaxAttempts : Attempted(n) \in 0..MaxAttempts
  BY ConstantsAssumption DEF ConstantsAssumption, Attempted
<1> QED
  BY <1>1, <1>2 DEF SetClaimed, Row

\* So do the moves of one actor, and an enqueue.
LEMMA GotoType ==
  ASSUME act \in [Actors -> Local], NEW a \in Actors, NEW pc \in PCs, Goto(a, pc)
  PROVE  act' \in [Actors -> Local]
  BY DEF Goto, Local

\* What follows a finished job is a local state.
LEMMA DoneType ==
  ASSUME act \in [Actors -> Local], NEW a \in Actors, Done(a)
  PROVE  act' \in [Actors -> Local]
<1>1. "pick" \in PCs /\ "clear" \in PCs
  BY DEF PCs
<1>2. [Idle EXCEPT !.pc = "pick"] \in Local
  BY <1>1, IdleIsLocal DEF Local
<1>3. [act[a] EXCEPT !.pc = "clear"] \in Local
  BY <1>1 DEF Local
<1> QED
  BY <1>2, <1>3, IdleIsLocal DEF Done

\* So is the end of a request.
LEMMA ReturnType ==
  ASSUME act \in [Actors -> Local], NEW a \in Actors, Return(a)
  PROVE  act' \in [Actors -> Local]
  BY IdleIsLocal DEF Return

\* An enqueue keeps the counts natural numbers and the dedup keys items.
LEMMA EnqueueType ==
  ASSUME queue \in [Items -> Nat], dedup \in SUBSET Items,
         NEW items \in SUBSET Items, Enqueue(items)
  PROVE  queue' \in [Items -> Nat] /\ dedup' \in SUBSET Items
  BY DEF Enqueue

-----------------------------------------------------------------------------
(* Type correctness.                                                       *)

\* What the steps shared by all publishers keep.
LEMMA PublishingStepType ==
  ASSUME TypeOK, NEW a \in Actors, PublishingStep(a)
  PROVE  TypeOK'
<1> DEFINE j == act[a].job
<1>1. act[a] \in Local /\ j \in Jobs /\ act[a].tries \in 0..PublishAttempts
  BY DEF TypeOK, Local
<1>2. CASE Prepare(a)
  <2>1. act' \in [Actors -> Local]
    <3>1. \E pc \in PCs : Goto(a, pc)
      BY <1>2 DEF Prepare, PCs
    <3> QED
      BY <3>1, GotoType DEF TypeOK
  <2>2. job' \in [Jobs -> Row]
    <3>1. \/ UNCHANGED job
          \/ \E s \in States : SetState(j, s)
      BY <1>2 DEF Prepare, States, Generating
    <3> QED
      BY <3>1, <1>1, SetStateType DEF TypeOK
  <2> QED
    BY <1>2, <2>1, <2>2 DEF Prepare, TypeOK
<1>3. CASE Generated(a)
  <2>1. act' \in [Actors -> Local]
    <3>1. \E pc \in PCs : Goto(a, pc)
      BY <1>3 DEF Generated, PCs
    <3> QED
      BY <3>1, GotoType DEF TypeOK
  <2>2. art' \in [Jobs -> [content : Contents, wp : BOOLEAN]]
    BY <1>1, <1>3 DEF Generated, TypeOK, Contents
  <2> QED
    BY <1>3, <2>1, <2>2 DEF Generated, TypeOK
<1>4. CASE GenerationFails(a)
  <2>1. act' \in [Actors -> Local]
    <3>1. \E pc \in PCs : Goto(a, pc)
      BY <1>4 DEF GenerationFails, PCs
    <3> QED
      BY <3>1, GotoType DEF TypeOK
  <2>2. job' \in [Jobs -> Row]
    <3>1. UNCHANGED job \/ SetFailed(j, FALSE)
      BY <1>4 DEF GenerationFails
    <3> QED
      BY <3>1, <1>1, SetFailedType DEF TypeOK
  <2> QED
    BY <1>4, <2>1, <2>2 DEF GenerationFails, TypeOK
<1>5. CASE Reload(a)
  <2>1. act' \in [Actors -> Local]
    <3>1. \E pc \in PCs : Goto(a, pc)
      BY <1>5 DEF Reload, PCs
    <3> QED
      BY <3>1, GotoType DEF TypeOK
  <2> QED
    BY <1>5, <2>1 DEF Reload, TypeOK
<1>6. CASE MarkPosted(a)
  <2>1. act' \in [Actors -> Local] /\ job' \in [Jobs -> Row]
    BY <1>6, <1>1, DoneType, SetPostedType DEF MarkPosted, TypeOK
  <2> QED
    BY <1>6, <2>1 DEF MarkPosted, TypeOK
<1>7. CASE Publish(a)
  <2>1. act' \in [Actors -> Local]
    <3>1. \E pc \in PCs : Goto(a, pc)
      BY <1>7 DEF Publish, PCs
    <3> QED
      BY <3>1, GotoType DEF TypeOK
  <2>2. posts' \in [Jobs -> Nat]
    BY <1>7, <1>1 DEF Publish, TypeOK
  <2> QED
    BY <1>7, <2>1, <2>2 DEF Publish, TypeOK
<1>8. CASE ReplyLost(a)
  <2>1. act' \in [Actors -> Local]
    <3>1. CASE act[a].tries + 1 < PublishAttempts
      <4>1. act' = [act EXCEPT ![a].tries = @ + 1]
        BY <1>8, <3>1 DEF ReplyLost
      <4>2. act[a].tries + 1 \in 0..PublishAttempts
        BY <1>1, <3>1, ConstantsAssumption DEF ConstantsAssumption
      <4> QED
        BY <4>1, <4>2 DEF TypeOK, Local
    <3>2. CASE ~(act[a].tries + 1 < PublishAttempts)
      <4>1. Goto(a, "raise") /\ "raise" \in PCs
        BY <1>8, <3>2 DEF ReplyLost, PCs
      <4> QED
        BY <4>1, GotoType DEF TypeOK
    <3> QED
      BY <3>1, <3>2
  <2>2. posts' \in [Jobs -> Nat]
    BY <1>8, <1>1 DEF ReplyLost, TypeOK
  <2> QED
    BY <1>8, <2>1, <2>2 DEF ReplyLost, TypeOK
<1>9. CASE PublishFails(a)
  <2>1. act' \in [Actors -> Local]
    <3>1. \E pc \in PCs : Goto(a, pc)
      BY <1>9 DEF PublishFails, PCs
    <3> QED
      BY <3>1, GotoType DEF TypeOK
  <2> QED
    BY <1>9, <2>1 DEF PublishFails, TypeOK
<1>10. CASE RecordJob(a)
  <2>1. act' \in [Actors -> Local]
    <3>1. Done(a) \/ Goto(a, "rec_art")
      BY <1>10 DEF RecordJob
    <3>2. "rec_art" \in PCs
      BY DEF PCs
    <3> QED
      BY <3>1, <3>2, GotoType, DoneType DEF TypeOK
  <2>2. job' \in [Jobs -> Row]
    <3>1. UNCHANGED job \/ SetPosted(j)
      BY <1>10 DEF RecordJob
    <3> QED
      BY <3>1, <1>1, SetPostedType DEF TypeOK
  <2> QED
    BY <1>10, <2>1, <2>2 DEF RecordJob, TypeOK
<1>11. CASE RecordFails(a)
  <2>1. act' \in [Actors -> Local]
    <3>1. Done(a) \/ Goto(a, "raise")
      BY <1>11 DEF RecordFails
    <3>2. "raise" \in PCs
      BY DEF PCs
    <3> QED
      BY <3>1, <3>2, GotoType, DoneType DEF TypeOK
  <2> QED
    BY <1>11, <2>1 DEF RecordFails, TypeOK
<1>12. CASE RecordArticle(a)
  <2>1. act' \in [Actors -> Local]
    <3>1. Done(a) \/ Goto(a, "rec_job")
      BY <1>12 DEF RecordArticle
    <3>2. "rec_job" \in PCs
      BY DEF PCs
    <3> QED
      BY <3>1, <3>2, GotoType, DoneType DEF TypeOK
  <2>2. art' \in [Jobs -> [content : Contents, wp : BOOLEAN]]
    BY <1>1, <1>12 DEF RecordArticle, TypeOK
  <2> QED
    BY <1>12, <2>1, <2>2 DEF RecordArticle, TypeOK
<1>13. CASE Fail(a)
  <2>1. act' \in [Actors -> Local]
    BY <1>13, DoneType DEF Fail, TypeOK
  <2>2. job' \in [Jobs -> Row]
    <3>1. UNCHANGED job \/ SetPosted(j) \/ \E m \in BOOLEAN : SetFailed(j, m)
      BY <1>13 DEF Fail
    <3> QED
      BY <3>1, <1>1, SetPostedType, SetFailedType DEF TypeOK
  <2> QED
    BY <1>13, <2>1, <2>2 DEF Fail, TypeOK
<1>14. CASE FailIsLost(a)
  <2>1. act' \in [Actors -> Local]
    BY <1>14, DoneType, IdleIsLocal DEF FailIsLost, TypeOK
  <2>2. tick' \in [Schedulers -> Snapshot]
    BY <1>14 DEF FailIsLost, TypeOK, NoTick, Snapshot
  <2> QED
    BY <1>14, <2>1, <2>2 DEF FailIsLost, TypeOK
<1> QED
  BY <1>2, <1>3, <1>4, <1>5, <1>6, <1>7, <1>8, <1>9, <1>10, <1>11, <1>12,
     <1>13, <1>14 DEF PublishingStep

\* A step of the scheduler's loop.
LEMMA SchedulerStepType ==
  ASSUME TypeOK, NEW s \in Schedulers, SchedulerStep(s)
  PROVE  TypeOK'
<1> USE DEF SkipOthers
<1>1. /\ s \in Actors
      /\ act[s] \in Local /\ act[s].job \in Jobs
      /\ tick[s] \in Snapshot
  BY DEF TypeOK, Local, Actors
<1>2. CASE Poll(s)
  <2>1. act' \in [Actors -> Local]
    BY <1>1, <1>2, GotoType DEF Poll, TypeOK, PCs
  <2>2. tick' \in [Schedulers -> Snapshot]
    BY <1>2 DEF Poll, TypeOK, Snapshot
  <2> QED
    BY <1>2, <2>1, <2>2 DEF Poll, TypeOK
<1>3. CASE Scan(s)
  <2>1. act' \in [Actors -> Local]
    BY <1>1, <1>3, GotoType DEF Scan, TypeOK, PCs
  <2>2. tick' \in [Schedulers -> Snapshot]
    BY <1>3 DEF Scan, TypeOK, Snapshot
  <2> QED
    BY <1>3, <2>1, <2>2 DEF Scan, TypeOK
<1>4. CASE HealStalled(s)
  <2>1. act' \in [Actors -> Local]
    BY <1>1, <1>4, GotoType DEF HealStalled, TypeOK, PCs
  <2>2. tick' \in [Schedulers -> Snapshot]
    <3>1. UNCHANGED tick \/ \E j \in Jobs :
            tick' = [tick EXCEPT ![s].stalled = tick[s].stalled \ {j}]
      BY <1>1, <1>4 DEF HealStalled, Snapshot
    <3>2. ASSUME NEW j \in Jobs
          PROVE  [tick[s] EXCEPT !.stalled = tick[s].stalled \ {j}] \in Snapshot
      <4>1. tick[s].stalled \ {j} \in SUBSET Jobs
        BY <1>1 DEF Snapshot
      <4> QED
        BY <1>1, <4>1 DEF Snapshot
    <3> QED
      BY <3>1, <3>2 DEF TypeOK
  <2>3. job' \in [Jobs -> Row]
    <3>1. UNCHANGED job \/ \E j \in Jobs : SetState(j, "scheduled")
      BY <1>1, <1>4 DEF HealStalled, Snapshot
    <3> QED
      BY <3>1, SetStateType DEF TypeOK, States, Claimable
  <2> QED
    BY <1>4, <2>1, <2>2, <2>3 DEF HealStalled, TypeOK
<1>5. CASE Dispatch(s)
  <2>1. act' \in [Actors -> Local]
    BY <1>1, <1>5, GotoType DEF Dispatch, TypeOK, PCs
  <2>2. queue' \in [Items -> Nat] /\ dedup' \in SUBSET Items
    <3> DEFINE items == {"prep"} \X {j \in Jobs : /\ job[j].state = "scheduled"
                                                  /\ phase[j] # "early"}
    <3>1. items \in SUBSET Items
      BY DEF Items
    <3>2. Enqueue(items)
      BY <1>5 DEF Dispatch
    <3> HIDE DEF items
    <3> QED
      BY <3>1, <3>2, EnqueueType DEF TypeOK
  <2> QED
    BY <1>5, <2>1, <2>2 DEF Dispatch, TypeOK
<1>6. CASE HealFailed(s)
  <2>1. act' \in [Actors -> Local]
    BY <1>1, <1>6, GotoType DEF HealFailed, TypeOK, PCs
  <2>2. tick' \in [Schedulers -> Snapshot]
    <3>1. UNCHANGED tick \/ \E j \in Jobs :
            tick' = [tick EXCEPT ![s].failed = tick[s].failed \ {j}]
      BY <1>1, <1>6 DEF HealFailed, Snapshot
    <3>2. ASSUME NEW j \in Jobs
          PROVE  [tick[s] EXCEPT !.failed = tick[s].failed \ {j}] \in Snapshot
      <4>1. tick[s].failed \ {j} \in SUBSET Jobs
        BY <1>1 DEF Snapshot
      <4> QED
        BY <1>1, <4>1 DEF Snapshot
    <3> QED
      BY <3>1, <3>2 DEF TypeOK
  <2>3. job' \in [Jobs -> Row]
    <3>1. UNCHANGED job \/ \E j \in Jobs : SetPosted(j)
      BY <1>1, <1>6 DEF HealFailed, Snapshot
    <3> QED
      BY <3>1, SetPostedType DEF TypeOK
  <2> QED
    BY <1>6, <2>1, <2>2, <2>3 DEF HealFailed, TypeOK
<1>7. CASE Claim(s)
  <2>1. PICK j \in tick[s].due \cup tick[s].retry :
          /\ tick' = [tick EXCEPT ![s].due = @ \ {j}, ![s].retry = @ \ {j}]
          /\ \/ SetClaimed(j) /\ act' = [act EXCEPT ![s].pc = "load", ![s].job = j]
             \/ UNCHANGED <<job, act>>
    BY <1>7 DEF Claim
  <2>2. j \in Jobs
    BY <1>1, <2>1 DEF Snapshot
  <2>3. "load" \in PCs
    BY DEF PCs
  <2>4. act' \in [Actors -> Local]
    <3>1. [act[s] EXCEPT !.pc = "load", !.job = j] \in Local
      BY <1>1, <2>2, <2>3 DEF Local
    <3>2. UNCHANGED act \/ act' = [act EXCEPT ![s].pc = "load", ![s].job = j]
      BY <2>1
    <3> QED
      BY <3>1, <3>2, <1>1 DEF TypeOK
  <2>5. tick' \in [Schedulers -> Snapshot]
    <3>1. tick[s].due \ {j} \in SUBSET Jobs /\ tick[s].retry \ {j} \in SUBSET Jobs
      BY <1>1 DEF Snapshot
    <3>2. [tick[s] EXCEPT !.due = tick[s].due \ {j},
                          !.retry = tick[s].retry \ {j}] \in Snapshot
      BY <1>1, <3>1 DEF Snapshot
    <3> QED
      BY <2>1, <3>2 DEF TypeOK
  <2>6. job' \in [Jobs -> Row]
    BY <2>1, <2>2, SetClaimedType DEF TypeOK
  <2> QED
    BY <1>7, <2>4, <2>5, <2>6 DEF Claim, TypeOK
<1>8. CASE EndTick(s)
  <2>1. act' \in [Actors -> Local] /\ tick' \in [Schedulers -> Snapshot]
    BY <1>8, IdleIsLocal DEF EndTick, TypeOK, NoTick, Snapshot
  <2> QED
    BY <1>8, <2>1 DEF EndTick, TypeOK
<1>9. CASE LoadArticle(s)
  <2>1. "mark" \in PCs /\ "prepare" \in PCs
    BY DEF PCs
  <2>2. art[act[s].job].content \in Contents
    BY <1>1 DEF TypeOK
  <2>3. act' \in [Actors -> Local]
    BY <1>9, <2>1, <2>2 DEF LoadArticle, TypeOK, Local
  <2> QED
    BY <1>9, <2>3 DEF LoadArticle, TypeOK
<1>10. CASE Hold(s)
  <2>1. act' \in [Actors -> Local]
    BY <1>1, <1>10, GotoType DEF Hold, TypeOK, PCs
  <2>2. "posting" \in States /\ "fresh" \in Ages
    BY DEF States, Ages
  <2>3. job' \in [Jobs -> Row]
    BY <1>1, <1>10, <2>2 DEF Hold, TypeOK, Row
  <2> QED
    BY <1>10, <2>1, <2>3 DEF Hold, TypeOK
<1> QED
  BY <1>1, <1>2, <1>3, <1>4, <1>5, <1>6, <1>7, <1>8, <1>9, <1>10,
     PublishingStepType DEF SchedulerStep

\* A step of a worker task.
LEMMA WorkerStepType ==
  ASSUME TypeOK, NEW w \in Workers, WorkerStep(w)
  PROVE  TypeOK'
<1> USE DEF SkipOthers
<1>1. /\ w \in Actors
      /\ act[w] \in Local /\ act[w].job \in Jobs
  BY DEF TypeOK, Local, Actors
<1>2. CASE Dequeue(w)
  <2>1. PICK i \in Items :
          /\ queue[i] > 0
          /\ queue' = [queue EXCEPT ![i] = @ - 1]
          /\ act' = [act EXCEPT ![w] = [Idle EXCEPT !.pc = "start",
                                                   !.kind = i[1], !.job = i[2]]]
    BY <1>2 DEF Dequeue
  <2>2. i[1] \in {"prep", "postnow"} /\ i[2] \in Jobs /\ "start" \in PCs
    BY DEF Items, PCs
  <2>3. [Idle EXCEPT !.pc = "start", !.kind = i[1], !.job = i[2]] \in Local
    BY <2>2, IdleIsLocal DEF Local
  <2>4. act' \in [Actors -> Local]
    BY <2>1, <2>3 DEF TypeOK
  <2>5. queue' \in [Items -> Nat]
    BY <2>1 DEF TypeOK
  <2> QED
    BY <1>2, <2>4, <2>5 DEF Dequeue, TypeOK
<1>3. CASE StartPrep(w)
  <2>1. PICK pc \in PCs :
          act' = [act EXCEPT ![w].content = art[act[w].job].content, ![w].pc = pc]
    BY <1>3 DEF StartPrep, PCs
  <2>2. art[act[w].job].content \in Contents
    BY <1>1 DEF TypeOK
  <2>3. act' \in [Actors -> Local]
    BY <2>1, <2>2 DEF TypeOK, Local
  <2> QED
    BY <1>3, <2>3 DEF StartPrep, TypeOK
<1>4. CASE DeferPrep(w)
  <2>1. act' \in [Actors -> Local]
    BY <1>1, <1>4, GotoType DEF DeferPrep, TypeOK, PCs
  <2>2. job' \in [Jobs -> Row]
    BY <1>1, <1>4, SetStateType DEF DeferPrep, TypeOK, States, Claimable
  <2> QED
    BY <1>4, <2>1, <2>2 DEF DeferPrep, TypeOK
<1>5. CASE MarkGenerating(w)
  <2>1. act' \in [Actors -> Local]
    BY <1>1, <1>5, GotoType DEF MarkGenerating, TypeOK, PCs
  <2>2. job' \in [Jobs -> Row]
    BY <1>1, <1>5, SetStateType DEF MarkGenerating, TypeOK, States, Generating
  <2> QED
    BY <1>5, <2>1, <2>2 DEF MarkGenerating, TypeOK
<1>6. CASE MarkReady(w)
  <2>1. act' \in [Actors -> Local]
    BY <1>1, <1>6, GotoType DEF MarkReady, TypeOK, PCs
  <2>2. job' \in [Jobs -> Row]
    BY <1>1, <1>6, SetStateType DEF MarkReady, TypeOK, States, Claimable
  <2> QED
    BY <1>6, <2>1, <2>2 DEF MarkReady, TypeOK
<1>7. CASE StartPostNow(w)
  <2>1. PICK pc \in PCs, seen \in {"failed", act[w].seen} :
          act' = [act EXCEPT ![w].seen = seen, ![w].pc = pc]
    BY <1>7 DEF StartPostNow, PCs
  <2>2. seen \in States \cup {"claimed"}
    BY <1>1, <2>1 DEF Local, States
  <2>3. [act[w] EXCEPT !.seen = seen, !.pc = pc] \in Local
    BY <1>1, <2>1, <2>2 DEF Local
  <2>4. act' = [act EXCEPT ![w] = [act[w] EXCEPT !.seen = seen, !.pc = pc]]
    BY <2>1
  <2>5. act' \in [Actors -> Local]
    BY <1>1, <2>3, <2>4 DEF TypeOK
  <2> QED
    BY <1>7, <2>5 DEF StartPostNow, TypeOK
<1>8. CASE AwaitPrep(w)
  <2>1. act' \in [Actors -> Local]
    <3>1. \E pc \in PCs : Goto(w, pc)
      BY <1>8 DEF AwaitPrep, PCs
    <3> QED
      BY <1>1, <3>1, GotoType DEF TypeOK
  <2> QED
    BY <1>8, <2>1 DEF AwaitPrep, TypeOK
<1>9. CASE PostNowArticle(w)
  <2>1. PICK pc \in PCs :
          act' = [act EXCEPT ![w].content = art[act[w].job].content, ![w].pc = pc]
    BY <1>9 DEF PostNowArticle, PCs
  <2>2. art[act[w].job].content \in Contents
    BY <1>1 DEF TypeOK
  <2>3. [act[w] EXCEPT !.content = art[act[w].job].content, !.pc = pc] \in Local
    BY <1>1, <2>2 DEF Local
  <2>4. act' = [act EXCEPT ![w] = [act[w] EXCEPT !.content = art[act[w].job].content,
                                               !.pc = pc]]
    BY <2>1
  <2>5. act' \in [Actors -> Local]
    BY <1>1, <2>3, <2>4 DEF TypeOK
  <2> QED
    BY <1>9, <2>5 DEF PostNowArticle, TypeOK
<1>10. CASE ClearDedup(w)
  BY <1>10, IdleIsLocal DEF ClearDedup, TypeOK
<1> QED
  BY <1>1, <1>2, <1>3, <1>4, <1>5, <1>6, <1>7, <1>8, <1>9, <1>10,
     PublishingStepType DEF WorkerStep

\* A request handler's step.
LEMMA ClientStepType ==
  ASSUME TypeOK, NEW c \in Clients, Receive(c) \/ ClientStep(c)
  PROVE  TypeOK'
<1> USE DEF SkipOthers
<1>1. /\ c \in Actors
      /\ act[c] \in Local /\ act[c].job \in Jobs
  BY DEF TypeOK, Local, Actors
<1>2. /\ {"scheduled", "ready_to_post", "content_generating", "posting",
          "cancelled"} \subseteq States
      /\ {"start_prep", "put", "check", "claim", "publish", "write", "rows"}
           \subseteq PCs
      /\ {"early", "window"} \subseteq Phases
      /\ "fresh" \in Ages
  BY DEF States, PCs, Phases, Ages, Claimable, Generating
<1>3. ASSUME NEW now, StartPrepIf(c, now)
      PROVE  act' \in [Actors -> Local]
  <2>1. Goto(c, "start_prep") \/ Return(c)
    BY <1>3 DEF StartPrepIf
  <2> QED
    BY <2>1, <1>1, <1>2, GotoType, ReturnType DEF TypeOK
<1>4. CASE Receive(c)
  <2>1. PICK k \in Requests, j \in Jobs :
          act' = [act EXCEPT ![c] =
            [Idle EXCEPT
               !.pc = IF k = "publish" THEN "rows" ELSE "write",
               !.kind = k, !.job = j,
               !.seen = IF k \in {"reschedule", "edit"} THEN job[j].state
                        ELSE "none",
               !.content = IF k = "publish" THEN art[j].content ELSE "none"]]
    BY <1>4 DEF Receive
  <2>2. k \in RequestKinds
    BY ConstantsAssumption DEF ConstantsAssumption
  <2>3. /\ job[j].state \in States /\ art[j].content \in Contents
        /\ "none" \in States /\ "none" \in Contents
    BY DEF TypeOK, Row, States, Contents
  <2>4. act' \in [Actors -> Local]
    <3> DEFINE pc == IF k = "publish" THEN "rows" ELSE "write"
               seen == IF k \in {"reschedule", "edit"} THEN job[j].state
                       ELSE "none"
               content == IF k = "publish" THEN art[j].content ELSE "none"
    <3>1. pc \in PCs /\ seen \in States /\ content \in Contents
      BY <2>3, <1>2
    <3>2. act' = [act EXCEPT ![c] =
             [Idle EXCEPT !.pc = pc, !.kind = k, !.job = j, !.seen = seen,
                          !.content = content]]
      BY <2>1
    <3> HIDE DEF pc, seen, content
    <3>3. [Idle EXCEPT !.pc = pc, !.kind = k, !.job = j, !.seen = seen,
                       !.content = content] \in Local
      BY <3>1, <2>2, IdleIsLocal DEF Local
    <3> QED
      BY <3>2, <3>3 DEF TypeOK
  <2>5. requests' \in 0..MaxRequests
    <3>1. requests < MaxRequests /\ requests' = requests + 1
      BY <1>4 DEF Receive
    <3>2. requests \in 0..MaxRequests /\ MaxRequests \in Nat
      BY ConstantsAssumption DEF TypeOK, ConstantsAssumption
    <3> QED
      BY <3>1, <3>2
  <2> QED
    BY <1>4, <2>4, <2>5 DEF Receive, TypeOK
<1>5. CASE Schedule(c)
  <2>1. act' \in [Actors -> Local]
    BY <1>5, <1>3 DEF Schedule
  <2>2. [NoRow EXCEPT !.state = "scheduled", !.wp = job[act[c].job].wp] \in Row
    <3>1. job[act[c].job].wp \in BOOLEAN
      BY <1>1 DEF TypeOK, Row
    <3> QED
      BY <3>1, <1>2, NoRowIsRow DEF Row
  <2>3. job' \in [Jobs -> Row]
    BY <1>5, <2>2 DEF Schedule, TypeOK
  <2>4. phase' \in [Jobs -> Phases]
    BY <1>1, <1>2, <1>5 DEF Schedule, TypeOK
  <2> QED
    BY <1>5, <2>1, <2>3, <2>4 DEF Schedule, TypeOK
<1>6. CASE Reschedule(c)
  <2>1. act' \in [Actors -> Local]
    BY <1>1, <1>6, <1>3, ReturnType DEF Reschedule, TypeOK
  <2>2. job' \in [Jobs -> Row]
    BY <1>1, <1>2, <1>6, RequeueType DEF Reschedule, TypeOK
  <2>3. phase' \in [Jobs -> Phases]
    BY <1>1, <1>2, <1>6 DEF Reschedule, TypeOK
  <2> QED
    BY <1>6, <2>1, <2>2, <2>3 DEF Reschedule, TypeOK
<1>7. CASE Edit(c)
  <2>1. act' \in [Actors -> Local]
    BY <1>7, <1>3 DEF Edit
  <2>2. job' \in [Jobs -> Row]
    <3>1. \/ Requeue(act[c].job, "scheduled")
          \/ job' = [job EXCEPT ![act[c].job].age = "fresh"]
      BY <1>7 DEF Edit
    <3>2. CASE job' = [job EXCEPT ![act[c].job].age = "fresh"]
      BY <3>2, <1>1, <1>2 DEF TypeOK, Row
    <3> QED
      BY <3>1, <3>2, <1>1, <1>2, RequeueType DEF TypeOK
  <2> QED
    BY <1>7, <2>1, <2>2 DEF Edit, TypeOK
<1>8. CASE RetryPreparation(c)
  <2>1. act' \in [Actors -> Local] /\ job' \in [Jobs -> Row]
    BY <1>1, <1>2, <1>8, GotoType, RequeueType DEF RetryPreparation, TypeOK
  <2> QED
    BY <1>8, <2>1 DEF RetryPreparation, TypeOK
<1>9. CASE StartPreparation(c)
  <2>1. act' \in [Actors -> Local] /\ job' \in [Jobs -> Row]
    BY <1>1, <1>2, <1>9, GotoType, SetStateType DEF StartPreparation, TypeOK
  <2> QED
    BY <1>9, <2>1 DEF StartPreparation, TypeOK
<1>10. CASE Put(c)
  <2>1. act' \in [Actors -> Local]
    BY <1>1, <1>10, ReturnType DEF Put, TypeOK
  <2>2. queue' \in [Items -> Nat] /\ dedup' \in SUBSET Items
    <3> DEFINE items == {<<IF act[c].kind = "post_now" THEN "postnow" ELSE "prep",
                           act[c].job>>}
    <3>1. items \in SUBSET Items
      BY <1>1 DEF Items
    <3>2. Enqueue(items)
      BY <1>10 DEF Put
    <3> HIDE DEF items
    <3> QED
      BY <3>1, <3>2, EnqueueType DEF TypeOK
  <2> QED
    BY <1>10, <2>1, <2>2 DEF Put, TypeOK
<1>11. CASE Cancel(c)
  <2>1. act' \in [Actors -> Local]
    BY <1>1, <1>11, ReturnType DEF Cancel, TypeOK
  <2>2. job' \in [Jobs -> Row]
    <3>1. \/ SetState(act[c].job, "cancelled")
          \/ job' = [job EXCEPT ![act[c].job] = NoRow]
      BY <1>11 DEF Cancel
    <3> QED
      BY <3>1, <1>1, <1>2, SetStateType, NoRowIsRow DEF TypeOK
  <2> QED
    BY <1>11, <2>1, <2>2 DEF Cancel, TypeOK
<1>12. CASE ClearAll(c)
  <2>1. act' \in [Actors -> Local] /\ job' \in [Jobs -> Row]
    BY <1>1, <1>12, ReturnType, NoRowIsRow DEF ClearAll, TypeOK
  <2> QED
    BY <1>12, <2>1 DEF ClearAll, TypeOK
<1>13. CASE HealStalePosting(c)
  <2>1. act' \in [Actors -> Local] /\ job' \in [Jobs -> Row]
    BY <1>1, <1>2, <1>13, ReturnType, SetStateType DEF HealStalePosting, TypeOK
  <2> QED
    BY <1>13, <2>1 DEF HealStalePosting, TypeOK
<1>14. CASE PostNow(c)
  <2>1. act' \in [Actors -> Local] /\ job' \in [Jobs -> Row]
    BY <1>1, <1>2, <1>14, GotoType, SetStateType DEF PostNow, TypeOK
  <2> QED
    BY <1>14, <2>1 DEF PostNow, TypeOK
<1>15. CASE PublishRows(c)
  <2>1. PICK pc \in PCs : act' = [act EXCEPT ![c].seen = "none", ![c].pc = pc]
    BY <1>2, <1>15 DEF PublishRows
  <2>2. act' \in [Actors -> Local]
    BY <2>1 DEF TypeOK, Local, States
  <2> QED
    BY <1>15, <2>2 DEF PublishRows, TypeOK
<1>16. CASE PublishClaim(c)
  <2>1. act' \in [Actors -> Local]
    <3>1. \/ act' = [act EXCEPT ![c].seen = "claimed", ![c].pc = "check"]
          \/ Return(c)
      BY <1>16 DEF PublishClaim
    <3>2. [act[c] EXCEPT !.seen = "claimed", !.pc = "check"] \in Local
      BY <1>1, <1>2 DEF Local
    <3> QED
      BY <3>1, <3>2, <1>1, ReturnType DEF TypeOK
  <2>2. job' \in [Jobs -> Row]
    BY <1>1, <1>16, SetClaimedType DEF PublishClaim, TypeOK
  <2> QED
    BY <1>16, <2>1, <2>2 DEF PublishClaim, TypeOK
<1>17. CASE PublishCheck(c)
  <2>1. act' \in [Actors -> Local]
    BY <1>1, <1>2, <1>17, GotoType, ReturnType DEF PublishCheck, TypeOK
  <2> QED
    BY <1>17, <2>1 DEF PublishCheck, TypeOK
<1> QED
  BY <1>1, <1>4, <1>5, <1>6, <1>7, <1>8, <1>9, <1>10, <1>11, <1>12, <1>13,
     <1>14, <1>15, <1>16, <1>17, PublishingStepType DEF ClientStep

\* The clock, the aging of rows and keys, and the crashes.
LEMMA EnvironmentType ==
  ASSUME TypeOK, Environment
  PROVE  TypeOK'
<1>1. ASSUME NEW j \in Jobs, Advance(j) PROVE TypeOK'
  BY <1>1 DEF Advance, TypeOK, Phases
<1>2. ASSUME NEW j \in Jobs, Age(j) PROVE TypeOK'
  <2>1. job' \in [Jobs -> Row]
    BY <1>2 DEF Age, TypeOK, Row, Ages
  <2> QED
    BY <1>2, <2>1 DEF Age, TypeOK
<1>3. ASSUME NEW i \in Items, ExpireDedup(i) PROVE TypeOK'
  BY <1>3 DEF ExpireDedup, TypeOK
<1>4. CASE WorkerStops
  <2>1. crashes' \in 0..MaxCrashes
    BY <1>4, ConstantsAssumption DEF WorkerStops, TypeOK, ConstantsAssumption
  <2>2. act' \in [Actors -> Local]
    BY <1>4, IdleIsLocal DEF WorkerStops, TypeOK
  <2>3. dedup' \in SUBSET Items
    BY <1>4 DEF WorkerStops, TypeOK
  <2> QED
    BY <1>4, <2>1, <2>2, <2>3 DEF WorkerStops, TypeOK
<1>5. ASSUME NEW s \in Schedulers, SchedulerStops(s) PROVE TypeOK'
  <2>1. crashes' \in 0..MaxCrashes
    BY <1>5, ConstantsAssumption DEF SchedulerStops, TypeOK, ConstantsAssumption
  <2>2. act' \in [Actors -> Local] /\ tick' \in [Schedulers -> Snapshot]
    BY <1>5, IdleIsLocal DEF SchedulerStops, TypeOK, NoTick, Snapshot
  <2> QED
    BY <1>5, <2>1, <2>2 DEF SchedulerStops, TypeOK
<1> QED
  BY <1>1, <1>2, <1>3, <1>4, <1>5 DEF Environment

\* The initial state is well formed.
LEMMA InitIsTyped == Init => TypeOK
<1> SUFFICES ASSUME Init PROVE TypeOK
  OBVIOUS
<1>1. [NoRow EXCEPT !.state = "scheduled"] \in Row
  BY NoRowIsRow DEF Row, States, Claimable
<1>2. job \in [Jobs -> Row]
  BY <1>1 DEF Init
<1>3. act \in [Actors -> Local]
  BY IdleIsLocal DEF Init
<1>4. tick \in [Schedulers -> Snapshot]
  BY DEF Init, NoTick, Snapshot
<1>5. 0 \in 0..MaxRequests /\ 0 \in 0..MaxCrashes
  BY ConstantsAssumption DEF ConstantsAssumption
<1>6. phase \in [Jobs -> Phases] /\ art \in [Jobs -> [content : Contents, wp : BOOLEAN]]
  BY DEF Init, Phases
<1> QED
  BY <1>2, <1>3, <1>4, <1>5, <1>6 DEF Init, TypeOK

\* Every step keeps the state well formed.
LEMMA TypeIsInductive == TypeOK /\ [Next]_vars => TypeOK'
<1> SUFFICES ASSUME TypeOK, [Next]_vars PROVE TypeOK'
  OBVIOUS
<1>1. CASE UNCHANGED vars
  BY <1>1 DEF vars, TypeOK
<1>2. CASE Next
  BY <1>2, SchedulerStepType, WorkerStepType, ClientStepType, EnvironmentType
     DEF Next
<1> QED
  BY <1>1, <1>2

\* Rows, articles, queue and every actor's control state are well formed in
\* every reachable state.
THEOREM TypeCorrect == Spec => []TypeOK
  BY InitIsTyped, TypeIsInductive, PTL DEF Spec

=============================================================================
