------------------------------ MODULE UsageQuota ------------------------------
(***************************************************************************)
(* What an account has used of its plan: articles of the day and of the    *)
(* month, and tokens of the month, kept in the user document.              *)
(*                                                                         *)
(* A unit is charged before the work and given back when the work fails;   *)
(* the tokens are looked at before and counted after.  Every write reads   *)
(* the document, changes the copy and replaces the document under a lock   *)
(* of its process, so reading and replacing are two actions.  One account  *)
(* pays for everything here; it is no administrator, and no plan leaves an *)
(* amount unlimited.                                                       *)
(***************************************************************************)
EXTENDS Naturals, FiniteSets

CONSTANTS
  Runs,         \* generations of articles
  Serial,       \* those that hold the account's slot; preparations do not
  Requests,     \* publish requests, which charge a unit and never give it back
  Payments,     \* payments that assign a plan
  Processes, ProcessOf,
  Plans, DayLimit, MonthLimit, TokenLimit,
  Estimate,     \* tokens of a generation, estimated before and counted after
  DaysOfMonth,
  MaxDay,       \* bound: days
  Faults        \* what may go wrong

Actors == Runs \cup Requests \cup Payments

ASSUME ConstantsAssumption ==
  /\ IsFiniteSet(Actors) /\ Serial \subseteq Runs
  /\ Runs \cap Requests = {} /\ Runs \cap Payments = {} /\ Requests \cap Payments = {}
  /\ ProcessOf \in [Actors -> Processes]
  /\ Plans # {}
  /\ DayLimit \in [Plans -> Nat \ {0}] /\ MonthLimit \in [Plans -> Nat \ {0}]
  /\ TokenLimit \in [Plans -> Nat \ {0}]
  /\ \A limit \in {DayLimit, MonthLimit, TokenLimit} :   \* one plan allows the most
       \E p \in Plans : \A q \in Plans : limit[q] <= limit[p]
  /\ Estimate \in Nat \ {0} /\ DaysOfMonth \in Nat \ {0} /\ MaxDay \in Nat \ {0}
  /\ Faults \subseteq {"generation", "store", "crash"}

VARIABLES
  today,
  doc,     \* the user document: the plan and three counters, each of the day or
           \* month it was last written in
  actor,   \* [Actors -> Actor]; charged and returned are the days on which the
           \* unit was charged and given back, 0 for never
  bought,  \* history: the plan that was assigned last
  late     \* history: a write stamped before midnight followed one stamped after

vars == <<today, doc, actor, bought, late>>

Days       == 1..MaxDay
MonthOf(d) == ((d - 1) \div DaysOfMonth) + 1

\* A counter: what was used in the day or month of its key.
Counter == [key : Nat, used : Nat]
Unused  == [key |-> 0, used |-> 0]
Doc     == [plan : Plans, day : Counter, month : Counter, tokens : Counter]

Operations == {"charge", "refund", "tokens", "assign"}
Actor == [pc : {"idle", "ready", "work", "wait", "held", "end"}, op : Operations,
          plan : Plans, at : Nat, copy : Doc, charged : Nat, returned : Nat]

\* An actor between two calls, which knows of neither plan nor document.
AtRest(pc, charged, returned) ==
  LET plan == CHOOSE p \in Plans : TRUE
  IN  [pc |-> pc, op |-> "charge", plan |-> plan, at |-> 0, charged |-> charged,
       returned |-> returned,
       copy |-> [plan |-> plan, day |-> Unused, month |-> Unused, tokens |-> Unused]]

TypeOK ==
  /\ today \in Days
  /\ doc \in Doc
  /\ actor \in [Actors -> Actor]
  /\ bought \in Plans /\ late \in BOOLEAN

Init ==
  /\ today = 1
  /\ doc \in [plan : Plans, day : {Unused}, month : {Unused}, tokens : {Unused}]
  /\ actor = [a \in Actors |-> AtRest("idle", 0, 0)]
  /\ bought = doc.plan
  /\ late = FALSE

End(a) == actor' = [actor EXCEPT ![a] = AtRest("end", actor[a].charged, actor[a].returned)]

\* The storage function is called: it stamps the day and goes for the lock.
Call(a, op) ==
  actor' = [actor EXCEPT ![a] = [actor[a] EXCEPT !.pc = "wait", !.op = op, !.at = today]]

Locked(p) == \E a \in Actors : ProcessOf[a] = p /\ actor[a].pc = "held"

-----------------------------------------------------------------------------
(* The storage functions.                                                  *)

\* Mutant of UsedIn: the counter of an earlier day or month goes on.
UsedEver(counter, key) == counter.used

UsedIn(counter, key) == IF counter.key = key THEN counter.used ELSE 0

\* Mutant of LimitAllows: one more than the limit.
LimitAllowsOneMore(used, limit) == used <= limit

LimitAllows(used, limit) == used + 1 <= limit

Add(counter, key, n) == [key |-> key, used |-> UsedIn(counter, key) + n]

\* Mutant of GiveBack: the counter may drop below zero.
GiveBackUnfloored(counter, key) ==
  IF counter.key = key THEN [counter EXCEPT !.used = counter.used - 1] ELSE counter

\* A counter of another day or month stays as it is; none drops below zero.
GiveBack(counter, key) ==
  IF counter.key = key /\ counter.used > 0 THEN [counter EXCEPT !.used = counter.used - 1]
  ELSE counter

\* Are both limits of the plan as the caller knows it respected?
Allowed(a) ==
  LET d == actor[a].copy
      c == actor[a]
  IN  /\ LimitAllows(UsedIn(d.day, c.at), DayLimit[c.plan])
      /\ LimitAllows(UsedIn(d.month, MonthOf(c.at)), MonthLimit[c.plan])

\* The changed copy.
Applied(a) ==
  LET d == actor[a].copy
      c == actor[a]
      m == MonthOf(c.at)
  IN  CASE c.op = "charge" -> [d EXCEPT !.day = Add(d.day, c.at, 1), !.month = Add(d.month, m, 1)]
        [] c.op = "refund" -> [d EXCEPT !.day = GiveBack(d.day, c.at),
                                        !.month = GiveBack(d.month, m)]
        [] c.op = "tokens" -> [d EXCEPT !.tokens = Add(d.tokens, m, Estimate)]
        [] c.op = "assign" -> [d EXCEPT !.plan = c.plan]

\* Where the caller goes on after the call.
After(a) ==
  IF actor[a].op = "charge" /\ a \in Runs THEN "work" ELSE "end"

\* Mutant of Read: the lock is not taken.
ReadUnlocked(a) ==
  /\ actor[a].pc = "wait"
  /\ actor' = [actor EXCEPT ![a] = [actor[a] EXCEPT !.pc = "held", !.copy = doc]]
  /\ UNCHANGED <<today, doc, bought, late>>

\* The lock is taken and the document read.
Read(a) ==
  /\ actor[a].pc = "wait" /\ ~Locked(ProcessOf[a])
  /\ actor' = [actor EXCEPT ![a] = [actor[a] EXCEPT !.pc = "held", !.copy = doc]]
  /\ UNCHANGED <<today, doc, bought, late>>

\* The copy is over a limit: the caller hears of it and nothing is written.
Refuse(a) ==
  /\ actor[a].pc = "held" /\ actor[a].op = "charge" /\ ~Allowed(a)
  /\ End(a)
  /\ UNCHANGED <<today, doc, bought, late>>

\* The document is replaced by the changed copy.
Replace(a) ==
  LET c == actor[a]
  IN  /\ c.pc = "held"
      /\ c.op = "charge" => Allowed(a)
      /\ doc' = Applied(a)
      /\ actor' = [actor EXCEPT ![a] =
                     AtRest(After(a), IF c.op = "charge" THEN c.at ELSE c.charged,
                                      IF c.op = "refund" THEN c.at ELSE c.returned)]
      /\ bought' = IF c.op = "assign" THEN c.plan ELSE bought
      /\ late' = (late \/ (c.op \in {"charge", "tokens"} /\ c.at < c.copy.day.key))
      /\ UNCHANGED today

\* The store refuses the write.  A charge, an assignment and the tokens raise to
\* the caller, who is then done for; a refund that fails is swallowed.  Either way
\* a unit that was charged stays charged.
WriteFails(a) ==
  /\ "store" \in Faults
  /\ actor[a].pc = "held"
  /\ End(a)
  /\ UNCHANGED <<today, doc, bought, late>>

-----------------------------------------------------------------------------
(* A generation: execute_article_generation.                               *)

\* The task reads the user, long before it has the slot.
Load(r) ==
  /\ actor[r].pc = "idle"
  /\ actor' = [actor EXCEPT ![r] = [actor[r] EXCEPT !.pc = "ready", !.plan = doc.plan]]
  /\ UNCHANGED <<today, doc, bought, late>>

InSlot(r) == r \in Serial /\ actor[r].pc \in {"wait", "held", "work"}

HasSlot(r) == r \in Serial => \A s \in Runs : ProcessOf[s] = ProcessOf[r] => ~InSlot(s)

\* Mutant of Check: the slot is not waited for.
CheckUnserialized(r) ==
  LET used == UsedIn(doc.tokens, MonthOf(today))
  IN  /\ actor[r].pc = "ready" /\ ~Locked(ProcessOf[r])
      /\ IF used + Estimate <= TokenLimit[actor[r].plan] THEN Call(r, "charge")
         ELSE End(r)
      /\ UNCHANGED <<today, doc, bought, late>>

\* The account's slot is taken if the run needs it, the budget of tokens checked,
\* and the unit asked for.
Check(r) ==
  LET used == UsedIn(doc.tokens, MonthOf(today))
  IN  /\ actor[r].pc = "ready" /\ HasSlot(r) /\ ~Locked(ProcessOf[r])
      /\ IF used + Estimate <= TokenLimit[actor[r].plan] THEN Call(r, "charge")
         ELSE End(r)
      /\ UNCHANGED <<today, doc, bought, late>>

\* The model answers, or fails; either takes minutes.
Generate(r) ==
  /\ actor[r].pc = "work"
  /\ \/ Call(r, "tokens")
     \/ "generation" \in Faults /\ Call(r, "refund")
  /\ UNCHANGED <<today, doc, bought, late>>

\* A publish request, or Post Now, charges the owner of the project.
Publish(q) ==
  /\ actor[q].pc = "idle"
  /\ actor' = [actor EXCEPT ![q] = [actor[q] EXCEPT !.pc = "wait", !.op = "charge",
                                                    !.at = today, !.plan = doc.plan]]
  /\ UNCHANGED <<today, doc, bought, late>>

\* A payment assigns the plan that was paid for.
Pay(y) ==
  /\ actor[y].pc = "idle"
  /\ \E p \in Plans :
       actor' = [actor EXCEPT ![y] = [actor[y] EXCEPT !.pc = "wait", !.op = "assign",
                                                      !.plan = p]]
  /\ UNCHANGED <<today, doc, bought, late>>

\* A process stops: its calls and runs are gone, with the lock.
Crash(p) ==
  /\ "crash" \in Faults
  /\ \E a \in Actors : ProcessOf[a] = p /\ actor[a].pc \notin {"idle", "end"}
  /\ actor' = [a \in Actors |->
                 IF ProcessOf[a] = p /\ actor[a].pc \notin {"idle", "end"}
                 THEN AtRest("end", actor[a].charged, actor[a].returned) ELSE actor[a]]
  /\ UNCHANGED <<today, doc, bought, late>>

Midnight ==
  /\ today < MaxDay
  /\ today' = today + 1
  /\ UNCHANGED <<doc, actor, bought, late>>

CallStep(a) == Read(a) \/ Refuse(a) \/ Replace(a) \/ WriteFails(a)
RunStep(r)  == Load(r) \/ Check(r) \/ Generate(r)

Next ==
  \/ \E a \in Actors : CallStep(a)
  \/ \E r \in Runs : RunStep(r)
  \/ \E q \in Requests : Publish(q)
  \/ \E y \in Payments : Pay(y)
  \/ \E p \in Processes : Crash(p)
  \/ Midnight

Spec == Init /\ [][Next]_vars

-----------------------------------------------------------------------------
(* Properties.                                                             *)

\* Charges of the days in D that were not given back on one of these days, and
\* units given back on these days that had been charged before.
Standing(D) == {a \in Actors : actor[a].charged \in D /\ actor[a].returned \notin D}
Strays(D)   == {a \in Actors : actor[a].returned \in D /\ actor[a].charged \notin D}
DaysIn(m)   == {d \in Days : MonthOf(d) = m}

\* The counters say how many charges stand, whatever runs at the same time, fails,
\* is refused by the store or dies: no charge is forgotten and none that was given
\* back still counts.  Only units charged before midnight and given back after it
\* may be missing.
BooksBalance ==
  LET Balances(counter, D) ==
        /\ counter.used <= Cardinality(Standing(D))
        /\ Cardinality(Standing(D)) <= counter.used + Cardinality(Strays(D))
  IN  ~late => /\ Balances(doc.day, {doc.day.key})
               /\ Balances(doc.month, DaysIn(doc.month.key))

Largest(limit) == CHOOSE n \in {limit[p] : p \in Plans} : \A p \in Plans : limit[p] <= n

\* No day and no month gets more articles than the largest plan allows, except for
\* units charged before midnight and given back after it; a plan that changes
\* under a run that read it earlier makes no difference.
NotOverdrawn ==
  ~late => /\ \A d \in Days : Cardinality(Standing({d}))
                              <= Largest(DayLimit) + Cardinality(Strays({d}))
           /\ \A m \in {MonthOf(d) : d \in Days} :
                Cardinality(Standing(DaysIn(m)))
                  <= Largest(MonthLimit) + Cardinality(Strays(DaysIn(m)))

\* Though the budget is checked minutes before the tokens are counted, runs that
\* hold the slot never exceed it; each run without the slot may exceed it once.
BudgetHolds ==
  LET unserialized == {r \in Runs \ Serial : actor[r].charged # 0}
  IN  doc.tokens.used <= Largest(TokenLimit) + Estimate * Cardinality(unserialized)

\* No counter that is written back undoes the assignment of a plan.
PlanIsKept == doc.plan = bought

\* What a comment of the code says, and the code does not do: a unit charged on an
\* earlier day is given back to no later one (docstring of refund_article_usage).
RefundAfterMidnightIsNoOp ==
  [][\A r \in Runs :
       actor[r].returned = 0 /\ actor'[r].returned > actor[r].charged => doc'.day = doc.day]_vars

=============================================================================
