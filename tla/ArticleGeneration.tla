--------------------------- MODULE ArticleGeneration ---------------------------
(***************************************************************************)
(* The runs that write the text of one article, and the browser that waits *)
(* for it.  The button's POST /generate puts a job on the queue and marks  *)
(* the article, the worker generates and saves, and the browser polls a    *)
(* small status document until it believes that its text is there.  The    *)
(* scheduler's preparations and a topic cluster run the same pipeline      *)
(* under keys and locks of their own, and know nothing of the button's.    *)
(*                                                                         *)
(* Every call of the store ends an action.  Times are seconds of one       *)
(* clock; 0 stands for an empty timestamp.  All jobs are of this article.  *)
(* The queue is a set: the worker starts every job as a task of its own.   *)
(***************************************************************************)
EXTENDS Naturals

CONSTANTS
  Tabs,      \* editor pages showing the article
  Users,     \* accounts that generate this article
  UserOf,    \* [Tabs -> Users]
  MaxJobs,   \* bound: runs and jobs of all kinds
  MaxClock,  \* bound: seconds
  Faults     \* what may go wrong

FaultKinds == {"generation", "store", "reply", "crash", "expiry"}

ASSUME ConstantsAssumption ==
  /\ UserOf \in [Tabs -> Users] /\ Users # {}
  /\ MaxJobs \in Nat /\ MaxClock \in Nat \ {0}
  /\ Faults \subseteq FaultKinds

VARIABLES
  clock,
  article,    \* the stored article: the fields generation touches; text is the time
              \* its body was written and genAt its generated_at, error stands for
              \* a non-empty generation_error
  key,        \* the dedup key gen:pid:aid in Redis
  job,        \* [Jobs -> Job]
  tab,        \* [Tabs -> Tab]; ignored is history: the last poll came after an
              \* error was recorded and did not end the wait
  overtaken,  \* history: the article was published under a run's feet
  expired,    \* history: the dedup key ran out
  mixed       \* history: a preparation was at its text while another run was

history == <<overtaken, expired, mixed>>
vars == <<clock, article, key, job, tab, history>>

Jobs     == 1..MaxJobs
Time     == 0..MaxClock
Statuses == {"pending", "draft", "published", "queued", "generating"}
Article  == [hasBody : BOOLEAN, text : Time, genAt : Time, error : BOOLEAN,
             status : Statuses, live : BOOLEAN]

\* The button's runs, those of a cluster, and the preparations: on the worker's
\* queue (scheduled or Post Now) or inline in the scheduler's process.
Preparations == {"prep", "inline"}
Kinds        == {"generate", "cluster"} \cup Preparations

\* A run is at its text from the decision what to write until it is written; until
\* then, or until its failure is dealt with, it has a status to write too.
AtText      == {"draft", "save", "images"}
StatusAhead == {"clear", "slot", "draft", "save", "failed"}
Working     == {"clear", "slot", "failed", "apply", "free"} \cup AtText
Job == [kind : Kinds, pc : {"none", "put", "queued", "end"} \cup Working,
        user : Users, rest : Statuses, text : Time]
NoJob == [kind |-> "generate", pc |-> "none", user |-> CHOOSE u \in Users : TRUE,
          rest |-> "pending", text |-> 0]

Settled == {"idle", "shown", "failed", "late"}
Tab == [pc : Settled \cup {"asked", "waiting", "loading"}, queuedAt : Time,
        shown : Time, text : Time, ignored : BOOLEAN]

TypeOK ==
  /\ clock \in Time
  /\ article \in Article
  /\ key \in BOOLEAN
  /\ job \in [Jobs -> Job]
  /\ tab \in [Tabs -> Tab]
  /\ overtaken \in BOOLEAN /\ expired \in BOOLEAN /\ mixed \in BOOLEAN

\* An article not yet written, one written by hand, one generated and published.
Written(s, g) == [hasBody |-> s # "pending", text |-> g, genAt |-> g, error |-> FALSE,
                  status |-> s, live |-> s = "published"]
Beginnings    == {Written("pending", 0), Written("draft", 0), Written("published", 1)}

\* generate_all inserts an article and gives it its first text, in its owner's slot.
ClusterRun(u) == [NoJob EXCEPT !.kind = "cluster", !.pc = "draft", !.user = u]

Init ==
  /\ clock = 1
  /\ article \in Beginnings
  /\ key = FALSE
  /\ \/ job = [j \in Jobs |-> NoJob]
     \/ /\ article.status = "pending"
        /\ \E u \in Users :
             job = [j \in Jobs |-> IF j = 1 THEN ClusterRun(u) ELSE NoJob]
  /\ tab = [t \in Tabs |-> [pc |-> "idle", queuedAt |-> 0, shown |-> article.genAt,
                            text |-> article.text, ignored |-> FALSE]]
  /\ overtaken = FALSE /\ expired = FALSE /\ mixed = FALSE

Goto(j, pc)    == job' = [job EXCEPT ![j].pc = pc]
Unused(j)      == job[j].pc = "none" /\ \A i \in Jobs : i < j => job[i].pc # "none"
Ended          == [NoJob EXCEPT !.pc = "end"]
End(j)         == job' = [job EXCEPT ![j] = Ended]
TabGoto(t, pc) == tab' = [tab EXCEPT ![t].pc = pc]
Settle(t, pc)  == tab' = [tab EXCEPT ![t] = [tab[t] EXCEPT !.pc = pc, !.queuedAt = 0,
                                                           !.ignored = FALSE]]

\* A patch of the article; most callers swallow the error of a refused one.
Patch(a)      == article' = a
TryToPatch(a) == \/ Patch(a)
                 \/ "store" \in Faults /\ UNCHANGED article

SetStatus(s) == [article EXCEPT !.status = s]
SetError(e)  == [article EXCEPT !.error = e]

-----------------------------------------------------------------------------
(* POST /articles/{id}/generate.                                           *)

\* The handler stamps queued_at, makes the job and a task that will enqueue it.
Generate(t) ==
  /\ tab[t].pc \in Settled
  /\ \E j \in Jobs :
       /\ Unused(j)
       /\ job' = [job EXCEPT ![j] = [NoJob EXCEPT !.pc = "put", !.user = UserOf[t]]]
  /\ tab' = [tab EXCEPT ![t] = [tab[t] EXCEPT !.pc = "asked", !.queuedAt = clock,
                                              !.ignored = FALSE]]
  /\ UNCHANGED <<clock, article, key, history>>

\* Mutant of Put: the dedup key is set but not asked for.
PutTwice(j) ==
  /\ job[j].pc = "put"
  /\ key' = TRUE
  /\ Goto(j, "queued")
  /\ UNCHANGED <<clock, article, tab, history>>

\* enqueue: nobody hears of a job dropped as a duplicate.
Put(j) ==
  /\ job[j].pc = "put"
  /\ key' = TRUE
  /\ IF key THEN End(j) ELSE Goto(j, "queued")
  /\ UNCHANGED <<clock, article, tab, history>>

\* The handler marks the article queued and answers; the page starts to poll.
Answer(t) ==
  /\ tab[t].pc = "asked"
  /\ TryToPatch(SetStatus("queued"))
  /\ \/ TabGoto(t, "waiting")
     \/ "reply" \in Faults /\ Settle(t, "failed")
  /\ UNCHANGED <<clock, key, job, history>>

-----------------------------------------------------------------------------
(* The worker: _handle_article_generate.                                   *)

\* Mutant of RestingStatus: a published article is only known by its status.
RestingStatusUnseen(row) ==
  IF row.status \notin {"queued", "generating"} THEN row.status
  ELSE IF row.hasBody THEN "draft" ELSE "pending"

\* resting_status: sees through the marks that queueing left on the row.
RestingStatus(row) ==
  IF row.status \notin {"queued", "generating"} THEN row.status
  ELSE IF row.live THEN "published"
  ELSE IF row.hasBody THEN "draft" ELSE "pending"

\* The job is taken off the queue and the article read; of the row, the handler
\* later only uses the resting status.  An exception here is
\* outside of the handler's try: it leaves the key and the status behind.
ReadRow(j) ==
  /\ job[j].pc = "queued"
  /\ \/ job' = [job EXCEPT ![j] =
                  [job[j] EXCEPT !.pc = "clear", !.rest = RestingStatus(article)]]
     \/ "store" \in Faults /\ End(j)
  /\ UNCHANGED <<clock, article, key, tab, history>>

ClearError(j) ==
  /\ job[j].pc = "clear"
  /\ TryToPatch(SetError(FALSE))
  /\ Goto(j, "slot")
  /\ UNCHANGED <<clock, key, tab, history>>

OthersAtText(j, kinds) ==
  \E i \in Jobs \ {j} : job[i].kind \in kinds /\ job[i].pc \in AtText

\* The account's lock is held by the button's runs and by a cluster.
HoldsSlot(i) ==
  job[i].kind \in {"generate", "cluster"} /\ job[i].pc \in {"draft", "save", "apply"}

\* Mutant of TakeSlot: without the account's lock.
TakeSlotUnlocked(j) ==
  /\ job[j].pc = "slot"
  /\ TryToPatch(SetStatus("generating"))
  /\ Goto(j, "draft")
  /\ mixed' = (mixed \/ OthersAtText(j, Preparations))
  /\ UNCHANGED <<clock, key, tab, overtaken, expired>>

\* One job of an account at a time; only then does the article say generating.
TakeSlot(j) ==
  /\ job[j].pc = "slot"
  /\ \A i \in Jobs : job[i].user = job[j].user => ~HoldsSlot(i)
  /\ TryToPatch(SetStatus("generating"))
  /\ Goto(j, "draft")
  /\ mixed' = (mixed \/ OthersAtText(j, Preparations))
  /\ UNCHANGED <<clock, key, tab, overtaken, expired>>

-----------------------------------------------------------------------------
(* prepare_article_for_scheduled_job.                                      *)

\* The article is read, and what to do decided from it: generate a text for an
\* article without one, or put inner images into the text just read.  The
\* article is not marked, and neither the key nor the account's lock is taken.
StartPrep(j, kind) ==
  /\ Unused(j)
  /\ job' = [job EXCEPT ![j] =
       IF article.hasBody
       THEN [NoJob EXCEPT !.kind = kind, !.pc = "images", !.text = article.text]
       ELSE [NoJob EXCEPT !.kind = kind, !.pc = "draft", !.rest = RestingStatus(article)]]
  /\ mixed' = (mixed \/ OthersAtText(j, Kinds))
  /\ UNCHANGED <<clock, article, key, tab, overtaken, expired>>

\* add_inner_images saves the text it was given, images added; or no image was
\* asked for or made, or the write was refused, which is only logged.
AddImages(j) ==
  /\ job[j].pc = "images"
  /\ article' \in {article, [article EXCEPT !.text = job[j].text]}
  /\ End(j)
  /\ UNCHANGED <<clock, key, tab, history>>

-----------------------------------------------------------------------------
(* execute_article_generation, and what its callers do afterwards.         *)

\* generate_article_bundle_safe stamps the text that it returns.
Draft(j) ==
  /\ job[j].pc = "draft"
  /\ \/ job' = [job EXCEPT ![j] = [job[j] EXCEPT !.pc = "save", !.text = clock]]
     \/ "generation" \in Faults /\ Goto(j, "failed")
  /\ UNCHANGED <<clock, article, key, tab, history>>

\* Inner images may have taken minutes since.  A preparation adds its own next.
Save(j) ==
  /\ job[j].pc = "save"
  /\ \/ /\ Patch([article EXCEPT
                    !.hasBody = TRUE, !.text = job[j].text, !.genAt = job[j].text,
                    !.status = IF job[j].rest = "published"
                               THEN "published" ELSE "draft"])
        /\ Goto(j, IF job[j].kind \in Preparations THEN "images" ELSE "apply")
     \/ "store" \in Faults /\ Goto(j, "failed") /\ UNCHANGED article
  /\ UNCHANGED <<clock, key, tab, history>>

\* apply_generate_wp_choice, still in the slot; should it publish, see GoLive.
Apply(j) ==
  /\ job[j].pc = "apply"
  /\ \/ job[j].kind = "generate" /\ Goto(j, "free")
     \/ job[j].kind = "cluster" /\ End(j)
  /\ UNCHANGED <<clock, article, key, tab, history>>

\* A cluster and a preparation leave nothing of a failure on the article.
Abandon(j) ==
  /\ job[j].pc = "failed" /\ job[j].kind # "generate"
  /\ End(j)
  /\ UNCHANGED <<clock, article, key, tab, history>>

\* Mutant of RecordError: a status for failed generations.
RecordErrorAsStatus(j) ==
  /\ job[j].pc = "failed" /\ job[j].kind = "generate"
  /\ Patch([article EXCEPT !.error = TRUE, !.status = "failed"])
  /\ Goto(j, "free")
  /\ UNCHANGED <<clock, key, tab, history>>

\* The error is recorded, then the status restored; either may be refused.
RecordError(j) ==
  /\ job[j].pc = "failed" /\ job[j].kind = "generate"
  /\ \/ Patch([article EXCEPT !.error = TRUE, !.status = job[j].rest])
     \/ "store" \in Faults /\ article' \in {article, SetError(TRUE),
                                            SetStatus(job[j].rest)}
  /\ Goto(j, "free")
  /\ UNCHANGED <<clock, key, tab, history>>

Free(j) ==
  /\ job[j].pc = "free"
  /\ key' = FALSE
  /\ End(j)
  /\ UNCHANGED <<clock, article, tab, history>>

\* The worker or the scheduler stops: its tasks are gone, the queue and the keys
\* stay in Redis.  When the stop is an orderly one, the key is cleared on the way.
Stop(kinds) ==
  /\ "crash" \in Faults
  /\ \E j \in Jobs : job[j].kind \in kinds /\ job[j].pc \in Working
  /\ job' = [j \in Jobs |-> IF job[j].kind \in kinds /\ job[j].pc \in Working
                            THEN Ended ELSE job[j]]
  /\ \/ UNCHANGED key
     \/ /\ key' = FALSE
        /\ \E j \in Jobs : /\ job[j].kind = "generate" /\ "generate" \in kinds
                           /\ job[j].pc \in Working \ {"clear"}
  /\ UNCHANGED <<clock, article, tab, history>>

Crash == Stop(Kinds \ {"inline"}) \/ Stop({"inline"})

\* The key lives for 20 minutes, whatever has become of the job.
ExpireKey ==
  /\ "expiry" \in Faults
  /\ key
  /\ key' = FALSE /\ expired' = TRUE
  /\ UNCHANGED <<clock, article, job, tab, overtaken, mixed>>

-----------------------------------------------------------------------------
(* The browser.                                                            *)

\* get_article_generation_status: the status document has no generation_error.
StatusView == [hasBody |-> article.hasBody, genAt |-> article.genAt,
               error |-> FALSE]

\* Mutant of Finished: any text ends the wait.
FinishedByAnyText(t, view) == view.hasBody

\* The test of waitForArticleGenerationComplete.  A page that follows a run it
\* did not start has no queued_at and compares with the text it shows.
Finished(t, view) ==
  /\ view.hasBody
  /\ IF tab[t].queuedAt # 0 THEN view.genAt # 0 /\ view.genAt >= tab[t].queuedAt
     ELSE tab[t].shown # 0 => view.genAt \notin {0, tab[t].shown}

Poll(t) ==
  /\ tab[t].pc = "waiting"
  /\ \/ StatusView.error /\ Settle(t, "failed")
     \/ ~StatusView.error /\ Finished(t, StatusView) /\ TabGoto(t, "loading")
     \/ /\ ~StatusView.error /\ ~Finished(t, StatusView)
        /\ tab' = [tab EXCEPT ![t].ignored = article.error]
  /\ UNCHANGED <<clock, article, key, job, history>>

\* The deadline passes; it does not matter here how long it is.
GiveUp(t) ==
  /\ tab[t].pc = "waiting"
  /\ TabGoto(t, "late")
  /\ UNCHANGED <<clock, article, key, job, history>>

\* refreshArticleEditorPayload, and the editor shows what it returns.
Load(t) ==
  /\ tab[t].pc = "loading"
  /\ \/ tab' = [tab EXCEPT ![t] = [tab[t] EXCEPT !.pc = "shown", !.ignored = FALSE,
                                                 !.shown = article.genAt,
                                                 !.text = article.text]]
     \/ "reply" \in Faults /\ Settle(t, "failed")
  /\ UNCHANGED <<clock, article, key, job, history>>

\* An idle page looks at the status now and then, notices a run that it did not
\* start and follows it.
Watch(t) ==
  /\ tab[t].pc \in Settled /\ article.status \in {"queued", "generating"}
  /\ tab' = [tab EXCEPT ![t] = [tab[t] EXCEPT !.pc = "waiting", !.queuedAt = 0,
                                              !.ignored = FALSE]]
  /\ UNCHANGED <<clock, article, key, job, history>>

\* The live stream told a following page of the failure, if it was listening.
HearError(t) ==
  /\ tab[t].pc = "waiting" /\ tab[t].queuedAt = 0
  /\ \E j \in Jobs : job[j].pc = "failed"
  /\ Settle(t, "failed")
  /\ UNCHANGED <<clock, article, key, job, history>>

Reload(t) ==
  /\ tab[t].pc \in Settled
  /\ tab' = [tab EXCEPT ![t] = [pc |-> "idle", queuedAt |-> 0, ignored |-> FALSE,
                                shown |-> article.genAt, text |-> article.text]]
  /\ UNCHANGED <<clock, article, key, job, history>>

\* The scheduler, a click or the end of a run publishes the article.
GoLive ==
  /\ article.hasBody /\ ~article.live
  /\ Patch([article EXCEPT !.live = TRUE, !.status = "published"])
  /\ overtaken' = (overtaken \/ \E j \in Jobs : job[j].pc \in StatusAhead)
  /\ UNCHANGED <<clock, key, job, tab, expired, mixed>>

Tick ==
  /\ clock < MaxClock
  /\ clock' = clock + 1
  /\ UNCHANGED <<article, key, job, tab, history>>

-----------------------------------------------------------------------------
RunStep(j) ==
  \/ Put(j) \/ ReadRow(j) \/ ClearError(j) \/ TakeSlot(j) \/ Draft(j) \/ Save(j)
  \/ AddImages(j) \/ Apply(j) \/ Abandon(j) \/ RecordError(j) \/ Free(j)

TabStep(t) == Answer(t) \/ Poll(t) \/ GiveUp(t) \/ Load(t)

Next ==
  \/ \E j \in Jobs : RunStep(j) \/ \E kind \in Preparations : StartPrep(j, kind)
  \/ \E t \in Tabs : Generate(t) \/ TabStep(t) \/ Watch(t) \/ HearError(t) \/ Reload(t)
  \/ Crash \/ ExpireKey \/ GoLive \/ Tick

Spec == Init /\ [][Next]_vars

-----------------------------------------------------------------------------
(* Properties.                                                             *)

\* A page that asked for a text never ends up with one written before the second
\* in which it asked: not when its own job was dropped as a duplicate, not when a
\* cluster is at the article, and not when runs overlap because the key ran out.
\* (For pages of one account, and while no preparation was at its text at the same
\* time as another run: only the account's lock puts two texts in order, and
\* preparations do not take it.)
ShownIsAsked ==
  \A t \in Tabs : tab[t].pc = "shown" /\ tab[t].queuedAt # 0 /\ ~mixed
                  => tab[t].text >= tab[t].queuedAt

\* A late run never puts an older text over a newer one; in the same case.
TextsAreSavedInOrder == [][~mixed => article'.text >= article.text]_vars

\* Until the key runs out, one of the button's jobs is at an article at a time,
\* whatever is asked for, dropped, refused by the store or lost in a stop, and
\* whatever preparations and clusters do to the article meanwhile.
OneRunAtATime ==
  LET AtWork(j) == job[j].kind = "generate" /\ job[j].pc \in Working
  IN  ~expired => \A i, j \in Jobs : AtWork(i) /\ AtWork(j) => i = j

\* Generating again, also in vain, never turns a published article into a draft,
\* unless it was published while the run was at work.
PublishedIsNotDemoted ==
  article.live /\ ~overtaken => article.status \notin {"draft", "pending"}

\* What the comments of the code say, and the code does not do.

\* A page whose run failed hears of it at its next poll and does not go on
\* polling until its deadline: a page that gave up never polled after the error
\* was recorded.
FailureIsReported == \A t \in Tabs : tab[t].pc = "late" => ~tab[t].ignored

\* generated_at never promises a newer text than the one it stands beside: a page
\* that sees it change finds fresh content.
FreshAsStamped == article.genAt <= article.text

=============================================================================
