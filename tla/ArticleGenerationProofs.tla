------------------------ MODULE ArticleGenerationProofs ------------------------
(***************************************************************************)
(* Proofs about ArticleGeneration.  Two exclusions carry them: the dedup   *)
(* key, which holds until it expires and needs nothing of the accounts,    *)
(* and the account's lock, which holds for ever but only among the pages   *)
(* and clusters of one account, and keeps no preparation out.              *)
(***************************************************************************)
EXTENDS ArticleGeneration, TLAPS

-----------------------------------------------------------------------------
(* What the model's helpers return.                                        *)

LEMMA NoJobType == NoJob \in Job /\ Ended \in Job
<1> DEFINE someone == CHOOSE u \in Users : TRUE
<1>1. someone \in Users
  BY ConstantsAssumption
<1>2. NoJob = [kind |-> "generate", pc |-> "none", user |-> someone,
               rest |-> "pending", text |-> 0]
  BY DEF NoJob
<1> HIDE DEF someone
<1> QED
  BY <1>1, <1>2, ConstantsAssumption DEF Ended, Job, Kinds, Statuses, Time

LEMMA ClusterType ==
  ASSUME NEW u \in Users
  PROVE  ClusterRun(u) \in Job /\ ClusterRun(u).pc = "draft" /\ ClusterRun(u).text = 0
         /\ ClusterRun(u).kind = "cluster"
<1>1. [NoJob EXCEPT !.kind = "cluster", !.pc = "draft", !.user = u] \in Job
  BY NoJobType DEF Job, Kinds, Working, AtText
<1> QED
  BY <1>1 DEF ClusterRun, NoJob

\* Moving a job leaves it a job.
LEMMA GotoType ==
  ASSUME TypeOK, NEW j \in Jobs, NEW pc \in {"queued", "end"} \cup Working,
         Goto(j, pc)
  PROVE  job' \in [Jobs -> Job]
  BY DEF TypeOK, Goto, Job

LEMMA EndType ==
  ASSUME TypeOK, NEW j \in Jobs, End(j)
  PROVE  job' \in [Jobs -> Job]
  BY NoJobType DEF TypeOK, End

\* Settling a page leaves it a page.
LEMMA SettleType ==
  ASSUME TypeOK, NEW t \in Tabs, NEW pc \in Settled, Settle(t, pc)
  PROVE  tab' \in [Tabs -> Tab]
<1>1. 0 \in Time
  BY ConstantsAssumption DEF Time
<1>2. [tab[t] EXCEPT !.pc = pc, !.queuedAt = 0, !.ignored = FALSE] \in Tab
  BY <1>1 DEF TypeOK, Tab
<1> QED
  BY <1>2 DEF TypeOK, Settle

LEMMA TabGotoType ==
  ASSUME TypeOK, NEW t \in Tabs, NEW pc \in Settled \cup {"asked", "waiting", "loading"},
         TabGoto(t, pc)
  PROVE  tab' \in [Tabs -> Tab]
  BY DEF TypeOK, TabGoto, Tab

LEMMA RestingType == ASSUME TypeOK PROVE RestingStatus(article) \in Statuses
  BY DEF TypeOK, Article, RestingStatus, Statuses

\* A preparation starts with the text it read or with the status it read.
LEMMA PrepStarts ==
  ASSUME TypeOK, NEW j \in Jobs, NEW kind \in Preparations, StartPrep(j, kind)
  PROVE  \E l \in Job :
           /\ job' = [job EXCEPT ![j] = l] /\ l.kind = kind
           /\ \/ article.hasBody /\ l.pc = "images" /\ l.text = article.text
              \/ ~article.hasBody /\ l.pc = "draft" /\ l.rest = RestingStatus(article)
                 /\ l.text = 0
<1> DEFINE a == [NoJob EXCEPT !.kind = kind, !.pc = "images", !.text = article.text]
           b == [NoJob EXCEPT !.kind = kind, !.pc = "draft", !.rest = RestingStatus(article)]
<1>1. /\ a \in Job /\ a.kind = kind /\ a.pc = "images" /\ a.text = article.text
      /\ b \in Job /\ b.kind = kind /\ b.pc = "draft" /\ b.rest = RestingStatus(article)
      /\ b.text = NoJob.text /\ NoJob.text = 0
  BY NoJobType, RestingType DEF TypeOK, Article, NoJob, Job, Kinds, Working, AtText
<1>2. job' = [job EXCEPT ![j] = IF article.hasBody THEN a ELSE b]
  BY DEF StartPrep
<1> HIDE DEF a, b
<1> QED
  BY <1>1, <1>2

-----------------------------------------------------------------------------
(* Types.                                                                  *)

LEMMA InitType == Init => TypeOK
<1> SUFFICES ASSUME Init PROVE TypeOK
  OBVIOUS
<1>0. 1 \in Time /\ 0 \in Time
  BY ConstantsAssumption DEF Time
<1>1. article \in Article
  <2>1. ASSUME NEW s \in Statuses, NEW g \in Time PROVE Written(s, g) \in Article
    <3>1. (s # "pending") \in BOOLEAN /\ (s = "published") \in BOOLEAN
      OBVIOUS
    <3> QED
      BY <2>1, <3>1 DEF Written, Article
  <2> QED
    BY <1>0, <2>1 DEF Init, Beginnings, Statuses
<1>2. [pc |-> "idle", queuedAt |-> 0, shown |-> article.genAt, text |-> article.text,
       ignored |-> FALSE] \in Tab
  BY <1>0, <1>1 DEF Tab, Settled, Article
<1>3. job \in [Jobs -> Job]
  BY NoJobType, ClusterType DEF Init
<1> QED
  BY <1>0, <1>1, <1>2, <1>3 DEF Init, TypeOK

LEMMA QueueType ==
  ASSUME TypeOK, NEW j \in Jobs,
         Put(j) \/ ReadRow(j) \/ ClearError(j) \/ TakeSlot(j) \/ RecordError(j) \/ Free(j)
  PROVE  TypeOK'
<1>1. CASE Put(j)
  BY <1>1, GotoType, EndType DEF Put, TypeOK, history
<1>2. CASE ReadRow(j)
  <2>1. [job[j] EXCEPT !.pc = "clear", !.rest = RestingStatus(article)] \in Job
    BY RestingType DEF TypeOK, Job, Working
  <2> QED
    BY <1>2, <2>1, EndType DEF ReadRow, TypeOK, history
<1>3. CASE ClearError(j)
  <2>1. article' \in Article
    BY <1>3 DEF ClearError, TryToPatch, Patch, SetError, TypeOK, Article
  <2>2. job' \in [Jobs -> Job]
    BY <1>3, GotoType DEF ClearError, Working
  <2> QED
    BY <1>3, <2>1, <2>2 DEF ClearError, TypeOK, history
<1>4. CASE TakeSlot(j)
  <2>1. article' \in Article
    BY <1>4 DEF TakeSlot, TryToPatch, Patch, SetStatus, TypeOK, Article, Statuses
  <2>2. job' \in [Jobs -> Job]
    BY <1>4, GotoType DEF TakeSlot, Working, AtText
  <2>3. mixed' \in BOOLEAN
    BY <1>4 DEF TakeSlot, TypeOK
  <2> QED
    BY <1>4, <2>1, <2>2, <2>3 DEF TakeSlot, TypeOK
<1>5. CASE RecordError(j)
  <2>1. article' \in Article
    BY <1>5 DEF RecordError, Patch, SetStatus, SetError, TypeOK, Article, Job
  <2>2. job' \in [Jobs -> Job]
    BY <1>5, GotoType DEF RecordError, Working
  <2> QED
    BY <1>5, <2>1, <2>2 DEF RecordError, TypeOK, history
<1>6. CASE Free(j)
  BY <1>6, EndType DEF Free, TypeOK, history
<1> QED
  BY <1>1, <1>2, <1>3, <1>4, <1>5, <1>6

LEMMA TextType ==
  ASSUME TypeOK, NEW j \in Jobs,
         \/ Draft(j) \/ Save(j) \/ AddImages(j) \/ Apply(j) \/ Abandon(j)
         \/ \E kind \in Preparations : StartPrep(j, kind)
  PROVE  TypeOK'
<1>1. CASE Draft(j)
  <2>1. [job[j] EXCEPT !.pc = "save", !.text = clock] \in Job
    BY DEF TypeOK, Job, Working, AtText
  <2>2. job' \in [Jobs -> Job]
    BY <1>1, <2>1, GotoType DEF Draft, TypeOK, Working
  <2> QED
    BY <1>1, <2>2 DEF Draft, TypeOK, history
<1>2. CASE Save(j)
  <2>1. article' \in Article
    <3> DEFINE s == IF job[j].rest = "published" THEN "published" ELSE "draft"
    <3>1. s \in Statuses /\ job[j].text \in Time
      BY DEF Statuses, TypeOK, Job
    <3>2. [article EXCEPT !.hasBody = TRUE, !.text = job[j].text, !.genAt = job[j].text,
                          !.status = s] \in Article
      BY <3>1 DEF TypeOK, Article
    <3> QED
      BY <1>2, <3>2 DEF Save, Patch, TypeOK
  <2>2. job' \in [Jobs -> Job]
    BY <1>2, GotoType DEF Save, Working, AtText
  <2> QED
    BY <1>2, <2>1, <2>2 DEF Save, TypeOK, history
<1>3. CASE AddImages(j)
  <2>1. article' \in Article
    BY <1>3 DEF AddImages, TypeOK, Article, Job
  <2> QED
    BY <1>3, <2>1, EndType DEF AddImages, TypeOK, history
<1>4. CASE Apply(j) \/ Abandon(j)
  <2>1. job' \in [Jobs -> Job]
    BY <1>4, GotoType, EndType DEF Apply, Abandon, Working
  <2> QED
    BY <1>4, <2>1 DEF Apply, Abandon, TypeOK, history
<1>5. CASE \E kind \in Preparations : StartPrep(j, kind)
  <2>1. job' \in [Jobs -> Job]
    BY <1>5, PrepStarts DEF TypeOK
  <2>2. mixed' \in BOOLEAN
    BY <1>5 DEF StartPrep, TypeOK
  <2> QED
    BY <1>5, <2>1, <2>2 DEF StartPrep, TypeOK
<1> QED
  BY <1>1, <1>2, <1>3, <1>4, <1>5

LEMMA PageType ==
  ASSUME TypeOK, NEW t \in Tabs,
         Generate(t) \/ TabStep(t) \/ Watch(t) \/ HearError(t) \/ Reload(t)
  PROVE  TypeOK'
<1>0. 0 \in Time /\ UserOf[t] \in Users
  BY ConstantsAssumption DEF Time
<1>1. CASE Generate(t)
  <2>1. [tab[t] EXCEPT !.pc = "asked", !.queuedAt = clock, !.ignored = FALSE] \in Tab
    BY DEF TypeOK, Tab
  <2>2. [NoJob EXCEPT !.pc = "put", !.user = UserOf[t]] \in Job
    BY <1>0, NoJobType DEF Job
  <2>3. job' \in [Jobs -> Job]
    BY <1>1, <2>2 DEF Generate, TypeOK, history
  <2> QED
    BY <1>1, <2>1, <2>3 DEF Generate, TypeOK, history
<1>2. CASE Answer(t)
  <2>1. article' \in Article
    BY <1>2 DEF Answer, TryToPatch, Patch, SetStatus, TypeOK, Article, Statuses
  <2>2. tab' \in [Tabs -> Tab]
    BY <1>2, SettleType, TabGotoType DEF Answer, Settled
  <2> QED
    BY <1>2, <2>1, <2>2 DEF Answer, TypeOK, history
<1>3. CASE Poll(t)
  <2>1. [tab[t] EXCEPT !.ignored = article.error] \in Tab
    BY DEF TypeOK, Tab, Article
  <2>2. tab' \in [Tabs -> Tab]
    BY <1>3, <2>1, SettleType, TabGotoType DEF Poll, Settled, TypeOK
  <2> QED
    BY <1>3, <2>2 DEF Poll, TypeOK, history
<1>4. CASE GiveUp(t)
  BY <1>4, TabGotoType DEF GiveUp, TypeOK, Settled, history
<1>5. CASE Load(t)
  <2>1. [tab[t] EXCEPT !.pc = "shown", !.ignored = FALSE, !.shown = article.genAt,
               !.text = article.text] \in Tab
    BY DEF TypeOK, Tab, Article, Settled
  <2>2. tab' \in [Tabs -> Tab]
    BY <1>5, <2>1, SettleType DEF Load, Settled, TypeOK
  <2> QED
    BY <1>5, <2>2 DEF Load, TypeOK, history
<1>6. CASE Watch(t)
  <2>1. [tab[t] EXCEPT !.pc = "waiting", !.queuedAt = 0, !.ignored = FALSE] \in Tab
    BY <1>0 DEF TypeOK, Tab
  <2> QED
    BY <1>6, <2>1 DEF Watch, TypeOK, history
<1>7. CASE HearError(t)
  BY <1>7, SettleType DEF HearError, TypeOK, Settled, history
<1>8. CASE Reload(t)
  <2>1. [pc |-> "idle", queuedAt |-> 0, ignored |-> FALSE, shown |-> article.genAt,
        text |-> article.text] \in Tab
    BY <1>0 DEF TypeOK, Tab, Article, Settled
  <2> QED
    BY <1>8, <2>1 DEF Reload, TypeOK, history
<1> QED
  BY <1>1, <1>2, <1>3, <1>4, <1>5, <1>6, <1>7, <1>8 DEF TabStep

LEMMA RestType ==
  ASSUME TypeOK, Crash \/ ExpireKey \/ GoLive \/ Tick PROVE TypeOK'
<1>1. CASE Crash
  BY <1>1, NoJobType DEF Crash, Stop, TypeOK, history
<1>2. CASE ExpireKey
  BY <1>2 DEF ExpireKey, TypeOK
<1>3. CASE GoLive
  <2>1. article' \in Article
    BY <1>3 DEF GoLive, Patch, TypeOK, Article, Statuses
  <2> QED
    BY <1>3, <2>1 DEF GoLive, TypeOK
<1>4. CASE Tick
  BY <1>4, ConstantsAssumption DEF Tick, TypeOK, Time, history
<1> QED
  BY <1>1, <1>2, <1>3, <1>4

LEMMA NextType == TypeOK /\ [Next]_vars => TypeOK'
<1> SUFFICES ASSUME TypeOK, [Next]_vars PROVE TypeOK'
  OBVIOUS
<1>1. CASE UNCHANGED vars
  BY <1>1 DEF vars, history, TypeOK
<1>2. CASE Next
  BY <1>2, QueueType, TextType, PageType, RestType DEF Next, RunStep
<1> QED
  BY <1>1, <1>2

\* The jobs, the pages and the article keep their shape, whatever is asked for,
\* dropped, refused by the store or lost in a crash.
THEOREM TypeCorrect == Spec => []TypeOK
  BY InitType, NextType, PTL DEF Spec

-----------------------------------------------------------------------------
(* What kinds of runs get where.                                           *)

ButtonOnly == {"put", "queued", "clear", "slot", "free"}

\* Only the button's jobs are queued and wait, only preparations add images to a
\* text that is already there.
Kinded ==
  \A j \in Jobs : /\ job[j].pc \in ButtonOnly => job[j].kind = "generate"
                  /\ job[j].pc = "images" => job[j].kind \in Preparations

\* One job moves to where its kind may be, the others stay.
LEMMA StillKinded ==
  ASSUME TypeOK, Kinded, NEW j \in Jobs, NEW l, job' = [job EXCEPT ![j] = l],
         l.pc \in ButtonOnly => l.kind = "generate",
         l.pc = "images" => l.kind \in Preparations
  PROVE  Kinded'
  BY DEF TypeOK, Kinded

\* A job that goes on, or ends, keeps its kind.
LEMMA Moves ==
  ASSUME TypeOK, NEW j \in Jobs, NEW pc, Goto(j, pc)
  PROVE  \E l : job' = [job EXCEPT ![j] = l] /\ l.pc = pc /\ l.kind = job[j].kind
                /\ l.text = job[j].text /\ l.rest = job[j].rest /\ l.user = job[j].user
<1> DEFINE l == [job[j] EXCEPT !.pc = pc]
<1>1. job' = [job EXCEPT ![j] = l]
  BY DEF Goto
<1>2. /\ l.pc = pc /\ l.kind = job[j].kind
      /\ l.text = job[j].text /\ l.rest = job[j].rest /\ l.user = job[j].user
  BY DEF TypeOK, Job
<1> HIDE DEF l
<1> QED
  BY <1>1, <1>2

LEMMA Ends ==
  ASSUME NEW j \in Jobs, End(j)
  PROVE  \E l : job' = [job EXCEPT ![j] = l] /\ l.pc = "end" /\ l.text = 0
<1>1. job' = [job EXCEPT ![j] = Ended]
  BY DEF End
<1>2. Ended.pc = "end" /\ Ended.text = 0
  BY DEF Ended, NoJob
<1> QED
  BY <1>1, <1>2

LEMMA NextKinded == TypeOK /\ Kinded /\ [Next]_vars => Kinded'
<1> SUFFICES ASSUME TypeOK, Kinded, [Next]_vars PROVE Kinded'
  OBVIOUS
<1> USE DEF ButtonOnly, Preparations
<1>1. ASSUME NEW j \in Jobs,
             \/ End(j)
             \/ \E pc \in {"save", "failed"} : Goto(j, pc)
             \/ \E pc \in ButtonOnly : Goto(j, pc) /\ job[j].kind = "generate"
             \/ Goto(j, "draft")
             \/ Goto(j, IF job[j].kind \in Preparations THEN "images" ELSE "apply")
      PROVE  Kinded'
  BY <1>1, Moves, Ends, StillKinded
<1>2. ASSUME NEW j \in Jobs, RunStep(j) PROVE Kinded'
  <2>1. CASE ReadRow(j) /\ ~End(j)
    <3>1. job[j].kind = "generate"
      BY <2>1 DEF ReadRow, Kinded
    <3>2. LET l == [job[j] EXCEPT !.pc = "clear", !.rest = RestingStatus(article)]
          IN  job' = [job EXCEPT ![j] = l] /\ l.pc = "clear" /\ l.kind = "generate"
      BY <2>1, <3>1 DEF ReadRow, TypeOK, Job
    <3> QED
      BY <3>2, StillKinded
  <2>2. CASE Draft(j) /\ ~Goto(j, "failed")
    <3>1. LET l == [job[j] EXCEPT !.pc = "save", !.text = clock]
          IN  job' = [job EXCEPT ![j] = l] /\ l.pc = "save"
      BY <2>2 DEF Draft, TypeOK, Job
    <3> QED
      BY <3>1, StillKinded
  <2>3. CASE ~(ReadRow(j) /\ ~End(j)) /\ ~(Draft(j) /\ ~Goto(j, "failed"))
    <3>1. job[j].pc \in ButtonOnly => job[j].kind = "generate"
      BY DEF Kinded
    <3>2. ASSUME \/ Put(j) \/ ReadRow(j) \/ ClearError(j) \/ TakeSlot(j) \/ Draft(j)
                 \/ RecordError(j) \/ Free(j)
          PROVE  Kinded'
      BY <1>1, <2>3, <3>1, <3>2
         DEF Put, ReadRow, ClearError, TakeSlot, Draft, RecordError, Free
    <3>3. ASSUME Save(j) \/ AddImages(j) \/ Apply(j) \/ Abandon(j) PROVE Kinded'
      BY <1>1, <3>1, <3>3 DEF Save, AddImages, Apply, Abandon
    <3> QED
      BY <1>2, <3>2, <3>3 DEF RunStep
  <2> QED
    BY <2>1, <2>2, <2>3
<1>3. ASSUME NEW j \in Jobs, NEW kind \in Preparations, StartPrep(j, kind) PROVE Kinded'
  BY <1>3, PrepStarts, StillKinded
<1>4. ASSUME NEW t \in Tabs, Generate(t) PROVE Kinded'
  <2> DEFINE l == [NoJob EXCEPT !.pc = "put", !.user = UserOf[t]]
  <2>1. PICK j \in Jobs : job' = [job EXCEPT ![j] = l]
    BY <1>4 DEF Generate
  <2>2. l.kind = "generate" /\ l.pc = "put"
    BY DEF NoJob
  <2> HIDE DEF l
  <2> QED
    BY <2>1, <2>2, StillKinded
<1>5. CASE Crash
  BY <1>5 DEF Crash, Stop, Ended, NoJob, Kinded
<1>6. CASE \/ UNCHANGED vars \/ ExpireKey \/ GoLive \/ Tick
           \/ \E t \in Tabs : TabStep(t) \/ Watch(t) \/ HearError(t) \/ Reload(t)
  <2>1. job' = job
    BY <1>6 DEF vars, ExpireKey, GoLive, Tick, TabStep, Answer, Poll, GiveUp, Load, Watch,
                HearError, Reload
  <2> QED
    BY <2>1 DEF Kinded
<1> QED
  BY <1>2, <1>3, <1>4, <1>5, <1>6 DEF Next

LEMMA InitKinded == Init => Kinded
  BY ClusterType DEF Init, Kinded, NoJob, ButtonOnly

-----------------------------------------------------------------------------
(* The dedup key.                                                          *)

Held(j) == job[j].kind = "generate" /\ job[j].pc \in {"queued"} \cup Working

\* While its key lasts, the article has at most one job on the queue or at work,
\* and not without the key.
KeyExcludes ==
  ~expired => /\ \A j \in Jobs : Held(j) => key
              /\ \A i, j \in Jobs : Held(i) /\ Held(j) => i = j

\* A job that moves but is no newcomer among the held ones excludes as before.
LEMMA MoverExcludes ==
  ASSUME TypeOK, KeyExcludes, NEW j \in Jobs, expired' = expired, NEW l,
         job' = [job EXCEPT ![j] = l],
         l.kind = "generate" /\ l.pc \in {"queued"} \cup Working => Held(j) /\ key' = key,
         key' = key \/ ~\E i \in Jobs \ {j} : Held(i)
  PROVE  KeyExcludes'
<1>1. ASSUME NEW i \in Jobs, Held(i)' PROVE Held(i) /\ (i = j => key' = key)
  BY <1>1 DEF Held, TypeOK
<1>2. ASSUME NEW i \in Jobs, Held(i)' PROVE key' = key
  BY <1>1, <1>2
<1> QED
  BY <1>1, <1>2 DEF KeyExcludes

LEMMA RunExcludes ==
  ASSUME TypeOK, Kinded, KeyExcludes, NEW j \in Jobs, RunStep(j) PROVE KeyExcludes'
<1> USE DEF Working, AtText
<1>1. CASE Put(j)
  <2>1. CASE key
    BY <1>1, <2>1, Ends, MoverExcludes DEF Put, history
  <2>2. CASE ~key /\ ~expired
    <3>1. \A i \in Jobs : Held(i)' => i = j
      BY <1>1, <2>2 DEF Put, Goto, KeyExcludes, Held, TypeOK
    <3> QED
      BY <1>1, <3>1 DEF Put, KeyExcludes
  <2>3. CASE expired
    BY <1>1, <2>3 DEF Put, KeyExcludes, history
  <2> QED
    BY <2>1, <2>2, <2>3
<1>2. CASE \/ ReadRow(j) \/ ClearError(j) \/ TakeSlot(j) \/ Draft(j) \/ Save(j)
           \/ AddImages(j) \/ Apply(j) \/ Abandon(j) \/ RecordError(j)
  <2>1. job[j].pc \in {"queued"} \cup Working /\ UNCHANGED <<key, expired>>
    BY <1>2 DEF ReadRow, ClearError, TakeSlot, Draft, Save, AddImages, Apply, Abandon,
                RecordError, history
  <2>2. \E l : job' = [job EXCEPT ![j] = l] /\ (l.kind = job[j].kind \/ l.pc = "end")
    <3>1. CASE ReadRow(j) /\ ~End(j)
      BY <3>1 DEF ReadRow, TypeOK, Job
    <3>2. CASE Draft(j) /\ ~Goto(j, "failed")
      BY <3>2 DEF Draft, TypeOK, Job
    <3>3. CASE (\E pc : Goto(j, pc)) \/ End(j)
      BY <3>3, Moves, Ends
    <3> QED
      BY <1>2, <3>1, <3>2, <3>3 DEF ReadRow, ClearError, TakeSlot, Draft, Save, AddImages,
         Apply, Abandon, RecordError
  <2> QED
    BY <2>1, <2>2, MoverExcludes DEF Held
<1>3. CASE Free(j)
  <2>1. /\ Held(j) /\ expired' = expired /\ key' = FALSE
        /\ \E l : job' = [job EXCEPT ![j] = l] /\ l.pc = "end"
    BY <1>3, Ends DEF Free, Held, history, Kinded, ButtonOnly
  <2>2. CASE expired
    BY <2>1, <2>2 DEF KeyExcludes
  <2>3. CASE ~expired
    BY <2>1, <2>3, MoverExcludes DEF KeyExcludes
  <2> QED
    BY <2>2, <2>3
<1> QED
  BY <1>1, <1>2, <1>3 DEF RunStep

\* An orderly stop clears the key only when it ends the job that holds it.
LEMMA StopExcludes ==
  ASSUME TypeOK, KeyExcludes, NEW kinds, Stop(kinds) PROVE KeyExcludes'
<1>1. ASSUME NEW i \in Jobs, Held(i)'
      PROVE  Held(i) /\ (job[i].pc = "queued" \/ "generate" \notin kinds)
  BY <1>1 DEF Stop, Held, TypeOK, Ended, NoJob, Working, AtText
<1>2. CASE UNCHANGED key
  BY <1>1, <1>2 DEF Stop, KeyExcludes, history
<1>3. CASE ~UNCHANGED key /\ ~expired
  <2>1. PICK j \in Jobs : /\ job[j].kind = "generate" /\ "generate" \in kinds
                          /\ job[j].pc \in Working \ {"clear"}
    BY <1>3 DEF Stop
  <2>2. Held(j)
    BY <2>1 DEF Held
  <2>3. \A i \in Jobs : ~Held(i)'
    BY <1>1, <1>3, <2>1, <2>2 DEF KeyExcludes, Working, AtText
  <2> QED
    BY <2>3 DEF KeyExcludes
<1> QED
  BY <1>2, <1>3 DEF Stop, KeyExcludes, history

LEMMA NextExcludes == TypeOK /\ Kinded /\ KeyExcludes /\ [Next]_vars => KeyExcludes'
<1> SUFFICES ASSUME TypeOK, Kinded, KeyExcludes, [Next]_vars PROVE KeyExcludes'
  OBVIOUS
<1>1. ASSUME NEW j \in Jobs, RunStep(j) PROVE KeyExcludes'
  BY <1>1, RunExcludes
<1>2. ASSUME NEW t \in Tabs, Generate(t) PROVE KeyExcludes'
  <2>1. \A i \in Jobs : Held(i)' => Held(i)
    BY <1>2 DEF Generate, Held, TypeOK, Working, AtText
  <2> QED
    BY <1>2, <2>1 DEF Generate, KeyExcludes, history
<1>3. ASSUME NEW j \in Jobs, NEW kind \in Preparations, StartPrep(j, kind)
      PROVE  KeyExcludes'
  BY <1>3, PrepStarts, MoverExcludes DEF StartPrep, Preparations
<1>4. CASE \/ UNCHANGED vars
           \/ \E t \in Tabs : TabStep(t) \/ Watch(t) \/ HearError(t) \/ Reload(t)
           \/ GoLive \/ Tick
  <2>1. UNCHANGED <<key, job, expired>>
    BY <1>4 DEF vars, history, TabStep, Answer, Poll, GiveUp, Load, Watch, HearError, Reload,
                GoLive, Tick
  <2> QED
    BY <2>1 DEF KeyExcludes, Held
<1>5. CASE Crash
  BY <1>5, StopExcludes DEF Crash
<1>6. CASE ExpireKey
  BY <1>6 DEF ExpireKey, KeyExcludes
<1> QED
  BY <1>1, <1>2, <1>3, <1>4, <1>5, <1>6 DEF Next

\* For any number of pages, accounts, clusters and preparations: until the key
\* runs out, one of the button's jobs is at the article at a time, whatever is
\* dropped, refused or lost.
THEOREM OneRun == Spec => []OneRunAtATime
<1>1. Init => KeyExcludes
  BY ClusterType DEF Init, KeyExcludes, Held, NoJob, Working, AtText
<1>2. KeyExcludes => OneRunAtATime
  BY DEF KeyExcludes, OneRunAtATime, Held
<1> QED
  BY <1>1, <1>2, TypeCorrect, InitKinded, NextKinded, NextExcludes, PTL DEF Spec

-----------------------------------------------------------------------------
(* The account's lock.                                                     *)

OneAccountOnly == \A u, v \in Users : u = v

\* No text is newer than the clock.  Unless a preparation came across another run,
\* one run is at its text at a time, generated_at is the time of the text, and the
\* text is no newer than the one about to replace it.
Serial ==
  /\ article.text <= clock /\ \A j \in Jobs : job[j].text <= clock
  /\ ~mixed =>
       /\ \A i, j \in Jobs : job[i].pc \in AtText /\ job[j].pc \in AtText => i = j
       /\ article.genAt = article.text
       /\ \A j \in Jobs : /\ job[j].pc = "save" => article.text <= job[j].text
                          /\ job[j].pc = "images" => article.text = job[j].text

LEMMA Numbers ==
  ASSUME TypeOK
  PROVE  /\ clock \in Nat /\ article.text \in Nat /\ article.genAt \in Nat
         /\ \A j \in Jobs : job[j].text \in Nat
         /\ \A t \in Tabs : tab[t].queuedAt \in Nat /\ tab[t].text \in Nat
  BY ConstantsAssumption DEF TypeOK, Article, Job, Tab, Time

\* Time passes, the article keeps its text, and no job gets further than it was.
LEMMA StillSerial ==
  ASSUME TypeOK, Serial, article'.text = article.text, article'.genAt = article.genAt,
         clock' >= clock, clock' \in Nat, mixed' = mixed,
         \A j \in Jobs : /\ job'[j].text = job[j].text \/ job'[j].text = 0
                         /\ job'[j].pc \in AtText => job'[j] = job[j]
  PROVE  Serial'
<1>1. article'.text <= clock' /\ \A j \in Jobs : job'[j].text <= clock'
  BY Numbers DEF Serial
<1>2. ASSUME ~mixed, NEW j \in Jobs
      PROVE  /\ job'[j].pc = "save" => article'.text <= job'[j].text
             /\ job'[j].pc = "images" => article'.text = job'[j].text
  BY <1>2 DEF Serial, AtText
<1>3. ASSUME ~mixed, NEW i \in Jobs, NEW j \in Jobs,
             job'[i].pc \in AtText, job'[j].pc \in AtText
      PROVE  i = j
  BY <1>3 DEF Serial
<1> QED
  BY <1>1, <1>2, <1>3 DEF Serial

\* A run that comes to its text is alone there, or mixed is set.
LEMMA NewcomerSerial ==
  ASSUME TypeOK, Serial, NEW j \in Jobs, NEW l, job' = [job EXCEPT ![j] = l],
         l.text <= clock, l.pc = "images" => l.text = article.text, l.pc # "save",
         article'.text = article.text, article'.genAt = article.genAt, clock' = clock,
         ~mixed' => ~mixed /\ \A i \in Jobs \ {j} : job[i].pc \notin AtText
  PROVE  Serial'
<1>1. job'[j] = l /\ \A i \in Jobs \ {j} : job'[i] = job[i]
  BY DEF TypeOK
<1>2. article'.text <= clock' /\ \A i \in Jobs : job'[i].text <= clock'
  BY <1>1 DEF Serial
<1>3. ASSUME ~mixed', NEW i \in Jobs, job'[i].pc \in AtText PROVE i = j
  BY <1>1, <1>3
<1>4. ASSUME ~mixed', NEW i \in Jobs
      PROVE  /\ job'[i].pc = "save" => article'.text <= job'[i].text
             /\ job'[i].pc = "images" => article'.text = job'[i].text
  BY <1>1, <1>3, <1>4 DEF AtText
<1> QED
  BY <1>2, <1>3, <1>4 DEF Serial

\* The lock's holder leaves no other run of the account at its text.
LEMMA LockExcludes ==
  ASSUME OneAccountOnly, TypeOK, Kinded, NEW j \in Jobs, TakeSlot(j), ~mixed'
  PROVE  ~mixed /\ \A i \in Jobs \ {j} : job[i].pc \notin AtText
<1>1. ~mixed /\ ~OthersAtText(j, Preparations)
  BY DEF TakeSlot
<1>2. ASSUME NEW i \in Jobs \ {j}, job[i].pc \in AtText PROVE FALSE
  <2>1. job[i].user = job[j].user /\ job[i].kind \in Kinds
    BY DEF OneAccountOnly, TypeOK, Job
  <2>2. ~HoldsSlot(i)
    BY <2>1 DEF TakeSlot
  <2>3. job[i].kind \notin Preparations
    BY <1>1, <1>2 DEF OthersAtText
  <2> QED
    BY <1>2, <2>1, <2>2, <2>3 DEF HoldsSlot, Kinds, Kinded, AtText
<1> QED
  BY <1>1, <1>2

TextStep(j) == Draft(j) \/ Save(j) \/ AddImages(j)

\* A run at its text replaces it by a newer one, or by the one that it read.
LEMMA TextSerial ==
  ASSUME TypeOK, Serial, NEW j \in Jobs, TextStep(j)
  PROVE  Serial' /\ (~mixed => article'.text >= article.text)
<1> USE Numbers
<1>0. UNCHANGED <<clock, mixed>> /\ job[j].pc \in AtText
  BY DEF TextStep, Draft, Save, AddImages, history, AtText
<1>1. PICK l : /\ job' = [job EXCEPT ![j] = l]
               /\ \/ /\ l.text \in {job[j].text, 0} /\ l.pc \notin {"save", "images"}
                     /\ UNCHANGED article
                  \/ l.text = clock /\ l.pc = "save" /\ UNCHANGED article
                  \/ /\ l.text = job[j].text /\ l.pc # "save" /\ job[j].pc = "save"
                     /\ article'.text = job[j].text /\ article'.genAt = job[j].text
                  \/ /\ l.text = 0 /\ l.pc = "end" /\ article'.genAt = article.genAt
                     /\ job[j].pc = "images" /\ article'.text = job[j].text
  <2>1. CASE Draft(j) /\ ~Goto(j, "failed")
    <3> DEFINE l == [job[j] EXCEPT !.pc = "save", !.text = clock]
    <3>1. job' = [job EXCEPT ![j] = l] /\ UNCHANGED article
      BY <2>1 DEF Draft
    <3>2. l.text = clock /\ l.pc = "save"
      BY DEF TypeOK, Job
    <3> HIDE DEF l
    <3> QED
      BY <3>1, <3>2
  <2>2. CASE Goto(j, "failed") /\ UNCHANGED article
    BY <2>2, Moves
  <2>3. CASE Save(j) /\ ~(Goto(j, "failed") /\ UNCHANGED article)
    <3>1. /\ article'.text = job[j].text /\ article'.genAt = job[j].text
          /\ job[j].pc = "save"
      BY <2>3 DEF Save, Patch, TypeOK, Article
    <3>2. \E pc \in {"images", "apply"} : Goto(j, pc)
      BY <2>3 DEF Save
    <3> QED
      BY <3>1, <3>2, Moves
  <2>4. CASE AddImages(j)
    <3>1. /\ End(j) /\ job[j].pc = "images" /\ article'.genAt = article.genAt
          /\ UNCHANGED article \/ article'.text = job[j].text
      BY <2>4 DEF AddImages, TypeOK, Article
    <3> QED
      BY <3>1, Ends
  <2> QED
    BY <2>1, <2>2, <2>3, <2>4 DEF TextStep, Draft
<1>2. job'[j] = l /\ \A i \in Jobs \ {j} : job'[i] = job[i]
  BY <1>1 DEF TypeOK
<1>3. /\ article.text <= clock /\ \A i \in Jobs : job[i].text <= clock
      /\ ~mixed => /\ \A i \in Jobs \ {j} : job[i].pc \notin AtText
                   /\ article.genAt = article.text
                   /\ job[j].pc = "save" => article.text <= job[j].text
                   /\ job[j].pc = "images" => article.text = job[j].text
  BY <1>0 DEF Serial
<1>4. article'.text <= clock' /\ \A i \in Jobs : job'[i].text <= clock'
  BY <1>0, <1>1, <1>2, <1>3
<1>5. ~mixed => article'.text >= article.text /\ article'.genAt = article'.text
  BY <1>1, <1>3
<1>6. ASSUME ~mixed, NEW i \in Jobs, job'[i].pc \in AtText PROVE i = j
  BY <1>2, <1>3, <1>6
<1>7. ASSUME ~mixed
      PROVE  /\ l.pc = "save" => article'.text <= l.text
             /\ l.pc = "images" => article'.text = l.text
  BY <1>1, <1>3, <1>7
<1>8. ASSUME ~mixed, NEW i \in Jobs
      PROVE  /\ job'[i].pc = "save" => article'.text <= job'[i].text
             /\ job'[i].pc = "images" => article'.text = job'[i].text
  BY <1>2, <1>6, <1>7, <1>8 DEF AtText
<1> QED
  BY <1>0, <1>4, <1>5, <1>6, <1>8 DEF Serial

\* Whoever is at its text, the others leave it alone.
LEMMA OthersSerial ==
  ASSUME OneAccountOnly, TypeOK, Kinded, Serial, [Next]_vars,
         ~\E j \in Jobs : TextStep(j)
  PROVE  Serial' /\ article'.text = article.text
<1>t. clock \in Nat /\ clock' \in Nat
  BY NextType, ConstantsAssumption DEF TypeOK, Time
<1>1. ASSUME NEW j \in Jobs, TakeSlot(j) PROVE Serial' /\ article'.text = article.text
  <2>1. PICK l : job' = [job EXCEPT ![j] = l] /\ l.pc = "draft" /\ l.text = job[j].text
    BY <1>1, Moves DEF TakeSlot
  <2>2. article'.text = article.text /\ article'.genAt = article.genAt /\ clock' = clock
    BY <1>1 DEF TakeSlot, TryToPatch, Patch, SetStatus, TypeOK, Article
  <2>3. l.text <= clock
    BY <2>1 DEF Serial
  <2> QED
    BY <1>1, <2>1, <2>2, <2>3, LockExcludes, NewcomerSerial
<1>2. ASSUME NEW j \in Jobs, NEW kind \in Preparations, StartPrep(j, kind)
      PROVE  Serial' /\ article'.text = article.text
  <2>1. PICK l \in Job : /\ job' = [job EXCEPT ![j] = l]
                         /\ \/ l.pc = "images" /\ l.text = article.text
                            \/ l.pc = "draft" /\ l.text = 0
    BY <1>2, PrepStarts
  <2>2. l.text <= clock
    BY <1>t, <2>1 DEF Serial
  <2>3. ~mixed' => ~mixed /\ \A i \in Jobs \ {j} : job[i].pc \notin AtText
    BY <1>2 DEF StartPrep, OthersAtText, TypeOK, Job
  <2> QED
    BY <1>2, <2>1, <2>2, <2>3, NewcomerSerial DEF StartPrep
<1>3. ASSUME ~\E j \in Jobs : TakeSlot(j) \/ \E kind \in Preparations : StartPrep(j, kind)
      PROVE  Serial' /\ article'.text = article.text
  <2>1. mixed' = mixed
    BY <1>3 DEF Next, vars, history, RunStep, TextStep, Put, ReadRow, ClearError, Apply,
       Abandon, RecordError, Free, Generate, TabStep, Answer, Poll, GiveUp, Load, Watch,
       HearError, Reload, Crash, Stop, ExpireKey, GoLive, Tick
  <2>2. clock' >= clock
    <3>1. CASE Tick
      BY <1>t, <3>1 DEF Tick
    <3>2. clock' = clock \/ Tick
      BY <1>3 DEF Next, vars, RunStep, TextStep, Put, ReadRow, ClearError, Apply, Abandon,
         RecordError, Free, Generate, TabStep, Answer, Poll, GiveUp, Load, Watch, HearError,
         Reload, Crash, Stop, ExpireKey, GoLive
    <3> QED
      BY <1>t, <3>1, <3>2
  <2>3. article'.text = article.text /\ article'.genAt = article.genAt
    <3>1. \/ UNCHANGED article
          \/ \E s : article' = SetStatus(s)
          \/ \E e : article' = SetError(e)
          \/ \E s : article' = [article EXCEPT !.error = TRUE, !.status = s]
          \/ \E s : article' = [article EXCEPT !.live = TRUE, !.status = s]
      BY <1>3 DEF Next, vars, RunStep, TextStep, Put, ReadRow, ClearError, Apply, Abandon,
         RecordError, Free, Generate, TabStep, Answer, Poll, GiveUp, Load, Watch, HearError,
         Reload, Crash, Stop, ExpireKey, GoLive, Tick, TryToPatch, Patch
    <3> QED
      BY <3>1 DEF SetStatus, SetError, TypeOK, Article
  <2> DEFINE Kept(i) == /\ job'[i].text = job[i].text \/ job'[i].text = 0
                        /\ job'[i].pc \in AtText => job'[i] = job[i]
  <2>4. \A i \in Jobs : Kept(i)
    <3>1. ASSUME NEW j \in Jobs, NEW l, job' = [job EXCEPT ![j] = l],
                 l.text \in {job[j].text, 0}, l.pc \notin AtText
          PROVE  \A i \in Jobs : Kept(i)
      BY <3>1 DEF TypeOK
    <3> HIDE DEF Kept
    <3>2. ASSUME NEW j \in Jobs,
                 \/ Put(j) \/ ReadRow(j) \/ ClearError(j) \/ Apply(j) \/ Abandon(j)
                 \/ RecordError(j) \/ Free(j)
          PROVE  \A i \in Jobs : Kept(i)
      <4>1. CASE End(j)
        BY <4>1, <3>1, Ends DEF AtText
      <4>2. CASE \E pc \in {"queued", "slot", "free"} : Goto(j, pc)
        BY <4>2, <3>1, Moves DEF AtText
      <4>3. CASE ReadRow(j) /\ ~End(j)
        <5> DEFINE l == [job[j] EXCEPT !.pc = "clear", !.rest = RestingStatus(article)]
        <5>1. job' = [job EXCEPT ![j] = l]
          BY <4>3 DEF ReadRow
        <5>2. l.text = job[j].text /\ l.pc = "clear"
          BY DEF TypeOK, Job
        <5> HIDE DEF l
        <5> QED
          BY <3>1, <5>1, <5>2 DEF AtText
      <4> QED
        BY <3>2, <4>1, <4>2, <4>3
           DEF Put, ReadRow, ClearError, Apply, Abandon, RecordError, Free
    <3>3. ASSUME NEW t \in Tabs, Generate(t) PROVE \A i \in Jobs : Kept(i)
      <4> DEFINE l == [NoJob EXCEPT !.pc = "put", !.user = UserOf[t]]
      <4>1. PICK j \in Jobs : job' = [job EXCEPT ![j] = l]
        BY <3>3 DEF Generate
      <4>2. l.text = 0 /\ l.pc = "put"
        BY DEF NoJob
      <4> HIDE DEF l
      <4> QED
        BY <3>1, <4>1, <4>2 DEF AtText
    <3>4. CASE Crash
      BY <3>4 DEF Crash, Stop, Ended, NoJob, TypeOK, Kept, AtText
    <3>5. CASE UNCHANGED job
      BY <3>5 DEF Kept
    <3> QED
      BY <1>3, <3>2, <3>3, <3>4, <3>5 DEF Next, vars, RunStep, TextStep, TabStep, Answer, Poll,
         GiveUp, Load, Watch, HearError, Reload, ExpireKey, GoLive, Tick
  <2> QED
    BY <1>t, <2>1, <2>2, <2>3, <2>4, StillSerial
<1> QED
  BY <1>1, <1>2, <1>3

LEMMA InitSerial == Init => Serial
<1> SUFFICES ASSUME Init PROVE Serial
  OBVIOUS
<1>1. article.text <= clock /\ article.genAt = article.text
  BY DEF Init, Beginnings, Written
<1>2. \A j \in Jobs : /\ job[j].text = 0 /\ job[j].pc \in {"none", "draft"}
                      /\ job[j].pc = "draft" => j = 1
  BY ClusterType DEF Init, NoJob
<1> QED
  BY <1>1, <1>2 DEF Init, Serial, AtText

LEMMA NextSerial ==
  OneAccountOnly /\ TypeOK /\ Kinded /\ Serial /\ [Next]_vars
    => Serial' /\ (~mixed => article'.text >= article.text)
<1> SUFFICES ASSUME OneAccountOnly, TypeOK, Kinded, Serial, [Next]_vars
             PROVE  Serial' /\ (~mixed => article'.text >= article.text)
  OBVIOUS
<1>1. article.text \in Nat
  BY Numbers
<1> QED
  BY <1>1, TextSerial, OthersSerial

\* When the article is generated for one account only, whichever job comes first,
\* is late or comes after the key ran out, no run replaces the text of a later one,
\* as long as no preparation is at its text while another run is.
THEOREM SavedInOrder ==
  ASSUME OneAccountOnly PROVE Spec => TextsAreSavedInOrder
<1>1. TypeOK /\ Kinded /\ Serial /\ [Next]_vars => Serial'
  BY NextSerial
<1>2. TypeOK /\ Kinded /\ Serial /\ [Next]_vars
        => [~mixed => article'.text >= article.text]_vars
  BY NextSerial
<1> QED
  BY <1>1, <1>2, InitSerial, InitKinded, NextKinded, TypeCorrect, PTL
     DEF Spec, TextsAreSavedInOrder

-----------------------------------------------------------------------------
(* What a page that asked for a text may show.                             *)

\* The text that a page shows, or will show when it is loaded, was written since
\* the page asked.
Awaited(t) ==
  tab[t].queuedAt # 0 /\ ~mixed =>
    /\ tab[t].pc = "loading" => article.text >= tab[t].queuedAt
    /\ tab[t].pc = "shown" => tab[t].text >= tab[t].queuedAt

\* What was mixed once remains so, and until then texts only get newer.
Newer == mixed' \/ (~mixed /\ article'.text >= article.text)

\* A page that does not move awaits what it did, since texts only get newer.
LEMMA StillAwaited ==
  ASSUME TypeOK, TypeOK', Newer, NEW t \in Tabs, Awaited(t),
         tab'[t] = tab[t] \/ tab'[t].queuedAt = 0 \/ tab'[t].pc \notin {"loading", "shown"}
  PROVE  Awaited(t)'
<1>1. article.text \in Nat /\ article'.text \in Nat /\ tab[t].queuedAt \in Nat
  BY ConstantsAssumption DEF TypeOK, Article, Tab, Time
<1> QED
  BY <1>1 DEF Awaited, Newer

LEMMA NextMixed == ASSUME [Next]_vars PROVE mixed => mixed'
  BY DEF Next, vars, history, RunStep, Put, ReadRow, ClearError, TakeSlot, StartPrep, Draft,
     Save, AddImages, Apply, Abandon, RecordError, Free, Generate, TabStep, Answer, Poll,
     GiveUp, Load, Watch, HearError, Reload, Crash, Stop, ExpireKey, GoLive, Tick

LEMMA PageAwaited ==
  ASSUME TypeOK, TypeOK', Serial, NEW t \in Tabs, Awaited(t), Newer,
         Generate(t) \/ TabStep(t) \/ Watch(t) \/ HearError(t) \/ Reload(t)
  PROVE  Awaited(t)'
<1>1. CASE Generate(t) \/ Answer(t) \/ GiveUp(t) \/ Watch(t) \/ HearError(t) \/ Reload(t)
  <2> DEFINE G == tab'[t].queuedAt = 0 \/ tab'[t].pc \notin {"loading", "shown"}
  <2>1. ASSUME Generate(t) PROVE G
    BY <2>1 DEF Generate, TypeOK, Tab
  <2>2. ASSUME Watch(t) PROVE G
    BY <2>2 DEF Watch, TypeOK, Tab
  <2>3. ASSUME Reload(t) PROVE G
    BY <2>3 DEF Reload, TypeOK, Tab
  <2>4. ASSUME NEW pc, Settle(t, pc) PROVE G
    BY <2>4 DEF Settle, TypeOK
  <2>5. ASSUME NEW pc \in {"waiting", "late"}, TabGoto(t, pc) PROVE G
    BY <2>5 DEF TabGoto, TypeOK, Tab
  <2>6. G
    BY <1>1, <2>1, <2>2, <2>3, <2>4, <2>5 DEF Answer, GiveUp, HearError
  <2> QED
    BY <2>6, StillAwaited
<1>2. CASE Poll(t)
  <2>1. CASE Finished(t, StatusView) /\ TabGoto(t, "loading")
    <3>1. tab[t].queuedAt # 0 /\ ~mixed => article.text >= tab[t].queuedAt
      BY <2>1 DEF Finished, StatusView, Serial
    <3>2. /\ tab'[t].pc = "loading" /\ tab'[t].queuedAt = tab[t].queuedAt
          /\ UNCHANGED <<article, mixed>>
      BY <1>2, <2>1 DEF Poll, TabGoto, TypeOK, Tab, history
    <3> QED
      BY <3>1, <3>2 DEF Awaited
  <2>2. CASE ~(Finished(t, StatusView) /\ TabGoto(t, "loading"))
    <3>1. tab'[t].queuedAt = 0 \/ tab'[t].pc \notin {"loading", "shown"}
      BY <1>2, <2>2 DEF Poll, Settle, TypeOK, Tab
    <3> QED
      BY <3>1, StillAwaited
  <2> QED
    BY <2>1, <2>2
<1>3. CASE Load(t)
  <2>1. CASE tab'[t].pc = "shown"
    <3>1. /\ tab'[t].text = article.text /\ tab'[t].queuedAt = tab[t].queuedAt
          /\ UNCHANGED mixed
      BY <1>3, <2>1 DEF Load, Settle, TypeOK, Tab, history
    <3> QED
      BY <1>3, <2>1, <3>1 DEF Load, Awaited
  <2>2. CASE tab'[t].pc # "shown"
    <3>1. Settle(t, "failed")
      <4> DEFINE new == [tab[t] EXCEPT !.pc = "shown", !.ignored = FALSE,
                                       !.shown = article.genAt, !.text = article.text]
      <4>1. new.pc = "shown"
        BY DEF TypeOK, Tab
      <4>2. tab' = [tab EXCEPT ![t] = new] \/ Settle(t, "failed")
        BY <1>3 DEF Load
      <4> HIDE DEF new
      <4> QED
        BY <2>2, <4>1, <4>2 DEF TypeOK
    <3>2. tab'[t].queuedAt = 0
      BY <3>1 DEF Settle, TypeOK
    <3> QED
      BY <3>2, StillAwaited
  <2> QED
    BY <2>1, <2>2
<1> QED
  BY <1>1, <1>2, <1>3 DEF TabStep

LEMMA NextAwaited ==
  ASSUME OneAccountOnly, TypeOK, Kinded, Serial, \A t \in Tabs : Awaited(t), [Next]_vars
  PROVE  \A t \in Tabs : Awaited(t)'
<1>1. TypeOK' /\ Newer
  <2>1. mixed => mixed'
    BY NextMixed
  <2> QED
    BY <2>1, NextType, NextSerial DEF Newer
<1> SUFFICES ASSUME NEW t \in Tabs PROVE Awaited(t)'
  OBVIOUS
<1>2. CASE Generate(t) \/ TabStep(t) \/ Watch(t) \/ HearError(t) \/ Reload(t)
  BY <1>1, <1>2, PageAwaited
<1>3. ASSUME NEW u \in Tabs, u # t,
             Generate(u) \/ TabStep(u) \/ Watch(u) \/ HearError(u) \/ Reload(u)
      PROVE  Awaited(t)'
  <2>1. tab'[t] = tab[t]
    BY <1>3 DEF Generate, TabStep, Answer, Poll, GiveUp, Load, Watch, HearError, Reload,
                Settle, TabGoto, TypeOK
  <2> QED
    BY <1>1, <2>1, StillAwaited
<1>4. CASE \/ UNCHANGED vars \/ Crash \/ ExpireKey \/ GoLive \/ Tick
           \/ \E j \in Jobs : RunStep(j)
           \/ \E j \in Jobs, kind \in Preparations : StartPrep(j, kind)
  <2>1. tab' = tab
    BY <1>4 DEF vars, Crash, Stop, ExpireKey, GoLive, Tick, RunStep, Put, ReadRow, ClearError,
                TakeSlot, Draft, Save, AddImages, Apply, Abandon, RecordError, Free, StartPrep
  <2> QED
    BY <1>1, <2>1, StillAwaited
<1> QED
  BY <1>2, <1>3, <1>4 DEF Next

\* When the article is generated for one account only, a page that asked for a text
\* never ends up with one written before it asked, not when its own job was dropped
\* as a duplicate and not when the key ran out under a run, as long as no
\* preparation is at its text while another run is.
THEOREM ShownWasAsked == ASSUME OneAccountOnly PROVE Spec => []ShownIsAsked
<1>1. Init => \A t \in Tabs : Awaited(t)
  BY DEF Init, Awaited
<1>2. TypeOK /\ Kinded /\ Serial /\ (\A t \in Tabs : Awaited(t)) /\ [Next]_vars
        => (\A t \in Tabs : Awaited(t))'
  BY NextAwaited
<1>3. TypeOK /\ Kinded /\ Serial /\ [Next]_vars => Serial'
  BY NextSerial
<1>4. (\A t \in Tabs : Awaited(t)) => ShownIsAsked
  BY DEF Awaited, ShownIsAsked
<1> QED
  BY <1>1, <1>2, <1>3, <1>4, InitSerial, InitKinded, NextKinded, TypeCorrect, PTL DEF Spec

-----------------------------------------------------------------------------
(* What becomes of the status of a published article.                      *)

\* A run that is going to write a status knows that the article was published.
Known(j) == job[j].pc \in StatusAhead => job[j].rest = "published"

Undemoted ==
  article.live /\ ~overtaken =>
    /\ article.status \notin {"draft", "pending"}
    /\ \A j \in Jobs : Known(j)

\* A run that reads a published article will put it back as it was.
LEMMA PublishedRests ==
  ASSUME TypeOK, article.live, article.status \notin {"draft", "pending"}
  PROVE  RestingStatus(article) = "published"
  BY DEF TypeOK, Article, Statuses, RestingStatus

LEMMA RunUndemoted ==
  ASSUME TypeOK, Undemoted, NEW j \in Jobs,
         RunStep(j) \/ \E kind \in Preparations : StartPrep(j, kind)
  PROVE  Undemoted'
<1> SUFFICES ASSUME article'.live, ~overtaken' PROVE /\ article'.status \notin {"draft", "pending"}
                                                     /\ \A i \in Jobs : Known(i)'
  BY DEF Undemoted
<1>1. overtaken' = overtaken /\ article'.live = article.live
  BY DEF RunStep, Put, ReadRow, ClearError, TakeSlot, StartPrep, Draft, Save, AddImages,
         Apply, Abandon, RecordError, Free, history, TryToPatch, Patch, SetError, SetStatus,
         TypeOK, Article
<1>2. article.status \notin {"draft", "pending"} /\ \A i \in Jobs : Known(i)
  BY <1>1 DEF Undemoted
<1>3. RestingStatus(article) = "published"
  BY <1>1, <1>2, PublishedRests
<1>4. ASSUME NEW l, job' = [job EXCEPT ![j] = l],
             l.pc \in StatusAhead => l.rest = "published"
      PROVE  \A i \in Jobs : Known(i)'
  BY <1>2, <1>4 DEF Known, TypeOK
<1>5. \A i \in Jobs : Known(i)'
  <2>1. CASE End(j)
    BY <1>4, <2>1, Ends DEF StatusAhead
  <2>2. ASSUME NEW pc, Goto(j, pc), job[j].pc \in StatusAhead \/ pc \notin StatusAhead
        PROVE  \A i \in Jobs : Known(i)'
    BY <1>2, <1>4, <2>2, Moves DEF Known
  <2>3. CASE ReadRow(j) /\ ~End(j)
    <3> DEFINE l == [job[j] EXCEPT !.pc = "clear", !.rest = RestingStatus(article)]
    <3>1. job' = [job EXCEPT ![j] = l]
      BY <2>3 DEF ReadRow
    <3>2. l.rest = "published"
      BY <1>3 DEF TypeOK, Job
    <3> HIDE DEF l
    <3> QED
      BY <1>4, <3>1, <3>2
  <2>4. CASE Draft(j) /\ ~Goto(j, "failed")
    <3> DEFINE l == [job[j] EXCEPT !.pc = "save", !.text = clock]
    <3>1. job' = [job EXCEPT ![j] = l] /\ job[j].pc = "draft"
      BY <2>4 DEF Draft
    <3>2. l.rest = job[j].rest
      BY DEF TypeOK, Job
    <3> HIDE DEF l
    <3> QED
      BY <1>2, <1>4, <3>1, <3>2 DEF Known, StatusAhead
  <2>5. CASE \E kind \in Preparations : StartPrep(j, kind)
    BY <1>3, <1>4, <2>5, PrepStarts DEF StatusAhead
  <2>6. CASE ReadRow(j)
    BY <2>1, <2>3, <2>6
  <2>7. CASE Draft(j)
    <3>1. job[j].pc \in StatusAhead
      BY <2>7 DEF Draft, StatusAhead
    <3> QED
      BY <2>2, <2>4, <2>7, <3>1
  <2>8. CASE Put(j) \/ AddImages(j) \/ Apply(j) \/ Abandon(j) \/ RecordError(j) \/ Free(j)
    <3>1. End(j) \/ Goto(j, "queued") \/ Goto(j, "free")
      BY <2>8 DEF Put, AddImages, Apply, Abandon, RecordError, Free
    <3>2. "queued" \notin StatusAhead /\ "free" \notin StatusAhead
      BY DEF StatusAhead
    <3> QED
      BY <2>1, <2>2, <3>1, <3>2
  <2>9. CASE ClearError(j) \/ TakeSlot(j) \/ Save(j)
    <3>1. /\ job[j].pc \in StatusAhead
          /\ \E pc \in {"slot", "draft", "failed", "images", "apply"} : Goto(j, pc)
      BY <2>9 DEF ClearError, TakeSlot, Save, StatusAhead
    <3> QED
      BY <2>2, <3>1
  <2> QED
    BY <2>5, <2>6, <2>7, <2>8, <2>9 DEF RunStep
<1>6. article'.status \in {article.status, "generating", "published"}
  <2>1. CASE Save(j) \/ RecordError(j)
    <3>1. job[j].rest = "published"
      BY <1>2, <2>1 DEF Save, RecordError, Known, StatusAhead
    <3> QED
      BY <2>1, <3>1 DEF Save, RecordError, Patch, SetError, SetStatus, TypeOK, Article
  <2>2. CASE ~(Save(j) \/ RecordError(j))
    BY <2>2 DEF RunStep, Put, ReadRow, ClearError, TakeSlot, StartPrep, Draft, AddImages,
                Apply, Abandon, Free, TryToPatch, Patch, SetError, SetStatus, TypeOK, Article
  <2> QED
    BY <2>1, <2>2
<1> QED
  BY <1>2, <1>5, <1>6

LEMMA OthersUndemoted ==
  ASSUME TypeOK, Undemoted, [Next]_vars,
         ~\E j \in Jobs : RunStep(j) \/ \E kind \in Preparations : StartPrep(j, kind)
  PROVE  Undemoted'
<1>1. CASE GoLive
  <2>1. job' = job /\ (overtaken' = (overtaken \/ \E j \in Jobs : job[j].pc \in StatusAhead))
    BY <1>1 DEF GoLive
  <2>2. article'.status = "published"
    BY <1>1 DEF GoLive, Patch, TypeOK, Article
  <2>3. ~overtaken' => \A j \in Jobs : Known(j)'
    BY <2>1 DEF Known
  <2> QED
    BY <2>2, <2>3 DEF Undemoted
<1>2. ASSUME NEW t \in Tabs, Generate(t) PROVE Undemoted'
  <2>1. ASSUME NEW i \in Jobs, Known(i) PROVE Known(i)'
    BY <1>2, <2>1 DEF Generate, Known, TypeOK, StatusAhead
  <2> QED
    BY <1>2, <2>1 DEF Generate, Undemoted, history
<1>3. ASSUME NEW t \in Tabs, Answer(t) PROVE Undemoted'
  <2>1. /\ article'.live = article.live
        /\ article'.status \in {article.status, "queued"}
    BY <1>3 DEF Answer, TryToPatch, Patch, SetStatus, TypeOK, Article
  <2> QED
    BY <1>3, <2>1 DEF Answer, Undemoted, Known, history
<1>4. CASE Crash
  <2>1. ASSUME NEW i \in Jobs, Known(i) PROVE Known(i)'
    BY <1>4, <2>1 DEF Crash, Stop, Known, Ended, NoJob, StatusAhead
  <2> QED
    BY <1>4, <2>1 DEF Crash, Stop, Undemoted, history
<1>5. CASE \/ UNCHANGED vars \/ ExpireKey \/ Tick
           \/ \E t \in Tabs : Poll(t) \/ GiveUp(t) \/ Load(t) \/ Watch(t) \/ HearError(t)
                                \/ Reload(t)
  <2>1. UNCHANGED <<article, job, overtaken>>
    BY <1>5 DEF vars, history, ExpireKey, Tick, Poll, GiveUp, Load, Watch, HearError, Reload
  <2> QED
    BY <2>1 DEF Undemoted, Known
<1> QED
  BY <1>1, <1>2, <1>3, <1>4, <1>5 DEF Next, TabStep

LEMMA NextUndemoted == TypeOK /\ Undemoted /\ [Next]_vars => Undemoted'
  BY RunUndemoted, OthersUndemoted

\* For any number of pages, accounts and jobs and with every fault: generating
\* again never turns an article that was published before into a draft.
THEOREM NotDemoted == Spec => []PublishedIsNotDemoted
<1>1. ASSUME Init PROVE Undemoted
  <2>1. article.live => article.status = "published"
    <3>1. ASSUME NEW s, NEW g
          PROVE  Written(s, g).live => Written(s, g).status = "published"
      BY Zenon DEF Written
    <3> QED
      BY <1>1, <3>1 DEF Init, Beginnings
  <2>2. article.live => job = [j \in Jobs |-> NoJob]
    <3>1. CASE article.status = "pending"
      BY <2>1, <3>1
    <3>2. CASE article.status # "pending"
      BY <1>1, <3>2 DEF Init
    <3> QED
      BY <3>1, <3>2
  <2>3. NoJob.pc = "none"
    BY DEF NoJob
  <2> QED
    BY <2>1, <2>2, <2>3 DEF Undemoted, Known, StatusAhead
<1>2. Undemoted => PublishedIsNotDemoted
  BY DEF Undemoted, PublishedIsNotDemoted
<1> QED
  BY <1>1, <1>2, TypeCorrect, NextUndemoted, PTL DEF Spec

================================================================================
