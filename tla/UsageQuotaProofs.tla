--------------------------- MODULE UsageQuotaProofs ---------------------------
(***************************************************************************)
(* Proofs about UsageQuota: every variable keeps to its type, so that no   *)
(* counter drops below zero, and in one process no counter undoes a plan.  *)
(***************************************************************************)
EXTENDS UsageQuota, Integers, TLAPS

LEMMA MonthIsNat ==
  ASSUME NEW d \in Nat PROVE MonthOf(d) \in Nat
<1> DEFINE q == (d - 1) \div DaysOfMonth
<1>1. DaysOfMonth \in Nat /\ DaysOfMonth >= 1
  BY ConstantsAssumption
<1>2. q \in Int /\ q >= -1
  BY <1>1
<1>3. QED
  BY <1>2 DEF MonthOf

LEMMA RestIsTyped ==
  ASSUME NEW pc \in {"idle", "ready", "work", "wait", "held", "end"},
         NEW charged \in Nat, NEW returned \in Nat
  PROVE  AtRest(pc, charged, returned) \in Actor
<1>1. (CHOOSE p \in Plans : TRUE) \in Plans
  BY ConstantsAssumption
<1>2. QED
  BY <1>1 DEF AtRest, Actor, Operations, Doc, Counter, Unused

-----------------------------------------------------------------------------
(* Types.                                                                  *)

\* One actor moves; the rest of the state is as it was.
LEMMA OneMoves ==
  ASSUME TypeOK, NEW a \in Actors, NEW x \in Actor,
         actor' = [actor EXCEPT ![a] = x], UNCHANGED <<today, doc, bought, late>>
  PROVE  TypeOK'
  BY DEF TypeOK

LEMMA CountersAreTyped ==
  ASSUME NEW counter \in Counter, NEW key \in Nat, NEW n \in Nat
  PROVE  /\ UsedIn(counter, key) \in Nat
         /\ Add(counter, key, n) \in Counter
         /\ GiveBack(counter, key) \in Counter
  BY DEF Counter, UsedIn, Add, GiveBack

LEMMA AppliedIsTyped ==
  ASSUME TypeOK, NEW a \in Actors
  PROVE  Applied(a) \in Doc
<1> DEFINE c == actor[a]
           d == c.copy
           m == MonthOf(c.at)
<1>1. c \in Actor
  BY DEF TypeOK
<1>2. c.at \in Nat /\ c.plan \in Plans /\ d \in Doc /\ c.op \in Operations
  BY <1>1 DEF Actor
<1>3. m \in Nat
  BY <1>2, MonthIsNat
<1>4. /\ d.plan \in Plans /\ d.day \in Counter /\ d.month \in Counter /\ d.tokens \in Counter
  BY <1>2 DEF Doc
<1>5. /\ Add(d.day, c.at, 1) \in Counter /\ Add(d.month, m, 1) \in Counter
      /\ GiveBack(d.day, c.at) \in Counter /\ GiveBack(d.month, m) \in Counter
  BY <1>2, <1>3, <1>4, CountersAreTyped
<1>6. Add(d.tokens, m, Estimate) \in Counter
  BY <1>3, <1>4, CountersAreTyped, ConstantsAssumption
<1>7. CASE c.op = "charge"
  <2>1. Applied(a) = [d EXCEPT !.day = Add(d.day, c.at, 1), !.month = Add(d.month, m, 1)]
    BY <1>7 DEF Applied
  <2>2. QED  BY <2>1, <1>2, <1>5 DEF Doc
<1>8. CASE c.op = "refund"
  <2>1. Applied(a) = [d EXCEPT !.day = GiveBack(d.day, c.at), !.month = GiveBack(d.month, m)]
    BY <1>8 DEF Applied
  <2>2. QED  BY <2>1, <1>2, <1>5 DEF Doc
<1>9. CASE c.op = "tokens"
  <2>1. Applied(a) = [d EXCEPT !.tokens = Add(d.tokens, m, Estimate)]
    BY <1>9 DEF Applied
  <2>2. QED  BY <2>1, <1>2, <1>6 DEF Doc
<1>10. CASE c.op = "assign"
  <2>1. Applied(a) = [d EXCEPT !.plan = c.plan]
    BY <1>10 DEF Applied
  <2>2. QED  BY <2>1, <1>2 DEF Doc
<1>11. QED
  BY <1>2, <1>7, <1>8, <1>9, <1>10 DEF Operations

\* An actor comes to rest, its two days as they were.
LEMMA EndIsTyped ==
  ASSUME TypeOK, NEW a \in Actors
  PROVE  AtRest("end", actor[a].charged, actor[a].returned) \in Actor
<1>1. actor[a].charged \in Nat /\ actor[a].returned \in Nat
  BY DEF TypeOK, Actor
<1>2. QED
  BY <1>1, RestIsTyped

LEMMA ReplaceIsTyped ==
  ASSUME TypeOK, NEW a \in Actors, Replace(a)
  PROVE  TypeOK'
<1> DEFINE c == actor[a]
           x == AtRest(After(a), IF c.op = "charge" THEN c.at ELSE c.charged,
                                 IF c.op = "refund" THEN c.at ELSE c.returned)
<1>1. c \in Actor
  BY DEF TypeOK
<1>2. x \in Actor
  <2>1. After(a) \in {"work", "end"}
    BY DEF After
  <2>2. /\ (IF c.op = "charge" THEN c.at ELSE c.charged) \in Nat
        /\ (IF c.op = "refund" THEN c.at ELSE c.returned) \in Nat
    BY <1>1 DEF Actor
  <2>3. QED
    BY <2>1, <2>2, RestIsTyped
<1>3. actor' = [actor EXCEPT ![a] = x]
  BY DEF Replace
<1>4. doc' \in Doc
  BY AppliedIsTyped DEF Replace
<1>5. bought' \in Plans
  BY <1>1 DEF Replace, TypeOK, Actor
<1>6. today' \in Days /\ late' \in BOOLEAN
  BY DEF Replace, TypeOK
<1>7. QED
  BY <1>2, <1>3, <1>4, <1>5, <1>6 DEF TypeOK

LEMMA CallStepIsTyped ==
  ASSUME TypeOK, NEW a \in Actors, CallStep(a)
  PROVE  TypeOK'
<1>1. actor[a] \in Actor /\ doc \in Doc
  BY DEF TypeOK
<1>2. CASE Read(a)
  <2>1. [actor[a] EXCEPT !.pc = "held", !.copy = doc] \in Actor
    BY <1>1 DEF Actor
  <2>2. QED  BY <1>2, <2>1, OneMoves DEF Read
<1>3. CASE Refuse(a)
  BY <1>3, EndIsTyped, OneMoves DEF Refuse, End
<1>4. CASE Replace(a)
  BY <1>4, ReplaceIsTyped
<1>5. CASE WriteFails(a)
  BY <1>5, EndIsTyped, OneMoves DEF WriteFails, End
<1>6. QED
  BY <1>2, <1>3, <1>4, <1>5 DEF CallStep

LEMMA CallIsTyped ==
  ASSUME TypeOK, NEW a \in Actors, NEW op \in Operations, Call(a, op),
         UNCHANGED <<today, doc, bought, late>>
  PROVE  TypeOK'
<1>1. actor[a] \in Actor /\ today \in Nat
  BY ConstantsAssumption DEF TypeOK, Days
<1>2. [actor[a] EXCEPT !.pc = "wait", !.op = op, !.at = today] \in Actor
  BY <1>1 DEF Actor
<1>3. QED
  BY <1>2, OneMoves DEF Call

LEMMA RunStepIsTyped ==
  ASSUME TypeOK, NEW r \in Runs, RunStep(r)
  PROVE  TypeOK'
<1>1. r \in Actors /\ actor[r] \in Actor /\ doc.plan \in Plans
  BY DEF TypeOK, Actors, Doc
<1>2. CASE Load(r)
  <2>1. [actor[r] EXCEPT !.pc = "ready", !.plan = doc.plan] \in Actor
    BY <1>1 DEF Actor
  <2>2. QED  BY <1>1, <1>2, <2>1, OneMoves DEF Load
<1>3. CASE Check(r)
  <2>1. UNCHANGED <<today, doc, bought, late>> /\ (Call(r, "charge") \/ End(r))
    BY <1>3 DEF Check
  <2>2. CASE Call(r, "charge")
    BY <1>1, <2>1, <2>2, CallIsTyped DEF Operations
  <2>3. CASE End(r)
    BY <1>1, <2>1, <2>3, EndIsTyped, OneMoves DEF End
  <2>4. QED  BY <2>1, <2>2, <2>3
<1>4. CASE Generate(r)
  <2>1. UNCHANGED <<today, doc, bought, late>> /\ (Call(r, "tokens") \/ Call(r, "refund"))
    BY <1>4 DEF Generate
  <2>2. QED  BY <1>1, <2>1, CallIsTyped DEF Operations
<1>5. QED
  BY <1>2, <1>3, <1>4 DEF RunStep

LEMMA NextIsTyped ==
  ASSUME TypeOK, [Next]_vars
  PROVE  TypeOK'
<1>1. CASE UNCHANGED vars
  BY <1>1 DEF vars, TypeOK
<1>2. ASSUME NEW a \in Actors, CallStep(a) PROVE TypeOK'
  BY <1>2, CallStepIsTyped
<1>3. ASSUME NEW r \in Runs, RunStep(r) PROVE TypeOK'
  BY <1>3, RunStepIsTyped
<1>4. ASSUME NEW q \in Requests, Publish(q) PROVE TypeOK'
  <2>1. q \in Actors /\ actor[q] \in Actor /\ doc.plan \in Plans /\ today \in Nat
    BY ConstantsAssumption DEF TypeOK, Actors, Doc, Days
  <2>2. [actor[q] EXCEPT !.pc = "wait", !.op = "charge", !.at = today, !.plan = doc.plan]
          \in Actor
    BY <2>1 DEF Actor, Operations
  <2>3. QED  BY <1>4, <2>1, <2>2, OneMoves DEF Publish
<1>5. ASSUME NEW y \in Payments, Pay(y) PROVE TypeOK'
  <2>1. y \in Actors /\ actor[y] \in Actor
    BY DEF TypeOK, Actors
  <2>2. PICK p \in Plans :
          actor' = [actor EXCEPT ![y] = [actor[y] EXCEPT !.pc = "wait", !.op = "assign",
                                                         !.plan = p]]
    BY <1>5 DEF Pay
  <2>3. [actor[y] EXCEPT !.pc = "wait", !.op = "assign", !.plan = p] \in Actor
    BY <2>1 DEF Actor, Operations
  <2>4. QED  BY <1>5, <2>1, <2>2, <2>3, OneMoves DEF Pay
<1>6. ASSUME NEW p \in Processes, Crash(p) PROVE TypeOK'
  <2>1. \A a \in Actors : actor[a] \in Actor
                          /\ AtRest("end", actor[a].charged, actor[a].returned) \in Actor
    BY EndIsTyped DEF TypeOK
  <2>2. actor' \in [Actors -> Actor]
    BY <1>6, <2>1 DEF Crash
  <2>3. QED  BY <1>6, <2>2 DEF Crash, TypeOK
<1>7. CASE Midnight
  BY <1>7, ConstantsAssumption DEF Midnight, TypeOK, Days
<1>8. QED
  BY <1>1, <1>2, <1>3, <1>4, <1>5, <1>6, <1>7 DEF Next

\* Every variable keeps to its type: the counters, which every storage function
\* writes back, never drop below zero.
THEOREM TypeCorrect == Spec => []TypeOK
<1>1. Init => TypeOK
  <2> SUFFICES ASSUME Init PROVE TypeOK
    OBVIOUS
  <2>1. doc \in Doc
    BY DEF Init, Doc, Counter, Unused
  <2>2. actor \in [Actors -> Actor]
    BY RestIsTyped DEF Init
  <2>3. today \in Days
    BY ConstantsAssumption DEF Init, Days
  <2>4. QED  BY <2>1, <2>2, <2>3 DEF Init, TypeOK, Doc
<1>2. TypeOK /\ [Next]_vars => TypeOK'
  BY NextIsTyped
<1>3. QED
  BY <1>1, <1>2, PTL DEF Spec

-----------------------------------------------------------------------------
(* Plans.  Of the actors of one process only one holds the lock, and what  *)
(* it read is what the store still has.                                    *)

OneProcess == \A a, b \in Actors : ProcessOf[a] = ProcessOf[b]

Held(a) == actor[a].pc = "held"

CopyIsFresh ==
  /\ \A a, b \in Actors : Held(a) /\ Held(b) => a = b
  /\ \A a \in Actors : Held(a) => actor[a].copy = doc

Kept == CopyIsFresh /\ PlanIsKept

\* Nobody takes the lock, and neither does the document change.
LEMMA BystanderKeeps ==
  ASSUME Kept, UNCHANGED <<doc, bought>>,
         \A a \in Actors : Held(a)' => Held(a) /\ actor'[a] = actor[a]
  PROVE  Kept'
<1>1. CopyIsFresh'
  BY DEF Kept, CopyIsFresh, Held
<1>2. PlanIsKept'
  BY DEF Kept, PlanIsKept
<1>3. QED
  BY <1>1, <1>2 DEF Kept

LEMMA OneMovesUnheld ==
  ASSUME TypeOK, Kept, NEW a \in Actors, NEW x, x.pc # "held",
         actor' = [actor EXCEPT ![a] = x], UNCHANGED <<doc, bought>>
  PROVE  Kept'
<1>1. \A b \in Actors : Held(b)' => Held(b) /\ actor'[b] = actor[b]
  BY DEF TypeOK, Held
<1>2. QED
  BY <1>1, BystanderKeeps

LEMMA RestIsUnheld ==
  ASSUME NEW pc, NEW charged, NEW returned
  PROVE  AtRest(pc, charged, returned).pc = pc
  BY DEF AtRest

LEMMA ReadKeeps ==
  ASSUME OneProcess, TypeOK, Kept, NEW a \in Actors, Read(a)
  PROVE  Kept'
<1>1. \A b \in Actors : ~Held(b)
  BY DEF Read, Locked, Held, OneProcess
<1>2. /\ \A b \in Actors : Held(b)' => b = a
      /\ actor'[a].copy = doc
  BY <1>1 DEF Read, Held, TypeOK, Actor
<1>3. doc' = doc /\ bought' = bought
  BY DEF Read
<1>4. QED
  BY <1>2, <1>3 DEF Kept, CopyIsFresh, PlanIsKept

\* Only an assignment changes the plan of the copy.
LEMMA AppliedPlan ==
  ASSUME TypeOK, NEW a \in Actors
  PROVE  Applied(a).plan = IF actor[a].op = "assign" THEN actor[a].plan
                           ELSE actor[a].copy.plan
<1> DEFINE c == actor[a]
           d == c.copy
<1>1. c.op \in Operations /\ d \in Doc
  BY DEF TypeOK, Actor
<1>2. CASE c.op = "charge"
  BY <1>1, <1>2 DEF Applied, Doc
<1>3. CASE c.op = "refund"
  BY <1>1, <1>3 DEF Applied, Doc
<1>4. CASE c.op = "tokens"
  BY <1>1, <1>4 DEF Applied, Doc
<1>5. CASE c.op = "assign"
  BY <1>1, <1>5 DEF Applied, Doc
<1>6. QED
  BY <1>1, <1>2, <1>3, <1>4, <1>5 DEF Operations

LEMMA ReplaceKeeps ==
  ASSUME TypeOK, Kept, NEW a \in Actors, Replace(a)
  PROVE  Kept'
<1>1. Held(a) /\ actor[a].copy = doc
  BY DEF Replace, Held, Kept, CopyIsFresh
<1>2. \A b \in Actors : ~Held(b)'
  <2>1. After(a) # "held"
    BY DEF After
  <2>2. actor'[a].pc = After(a)
    BY RestIsUnheld DEF Replace, TypeOK
  <2>3. \A b \in Actors \ {a} : actor'[b] = actor[b] /\ ~Held(b)
    BY <1>1 DEF Replace, Kept, CopyIsFresh, TypeOK
  <2>4. QED  BY <2>1, <2>2, <2>3 DEF Held
<1>3. doc'.plan = bought'
  BY <1>1, AppliedPlan DEF Replace, Kept, PlanIsKept
<1>4. QED
  BY <1>2, <1>3 DEF Kept, CopyIsFresh, PlanIsKept

LEMMA EndKeeps ==
  ASSUME TypeOK, Kept, NEW a \in Actors, End(a), UNCHANGED <<doc, bought>>
  PROVE  Kept'
<1> DEFINE x == AtRest("end", actor[a].charged, actor[a].returned)
<1>1. x.pc # "held"
  BY RestIsUnheld
<1>2. actor' = [actor EXCEPT ![a] = x]
  BY DEF End
<1> HIDE DEF x
<1>3. QED
  BY <1>1, <1>2, OneMovesUnheld

LEMMA CallKeeps ==
  ASSUME TypeOK, Kept, NEW a \in Actors, NEW op, Call(a, op), UNCHANGED <<doc, bought>>
  PROVE  Kept'
<1>1. [actor[a] EXCEPT !.pc = "wait", !.op = op, !.at = today].pc # "held"
  BY DEF TypeOK, Actor
<1>2. QED
  BY <1>1, OneMovesUnheld DEF Call

LEMMA NextKeeps ==
  ASSUME OneProcess, TypeOK, Kept, [Next]_vars
  PROVE  Kept'
<1>1. CASE UNCHANGED vars
  BY <1>1, BystanderKeeps DEF vars, Held
<1>2. ASSUME NEW a \in Actors, CallStep(a) PROVE Kept'
  <2>1. CASE Read(a)        BY <2>1, ReadKeeps
  <2>2. CASE Refuse(a)      BY <2>2, EndKeeps DEF Refuse
  <2>3. CASE Replace(a)     BY <2>3, ReplaceKeeps
  <2>4. CASE WriteFails(a)  BY <2>4, EndKeeps DEF WriteFails
  <2>5. QED  BY <1>2, <2>1, <2>2, <2>3, <2>4 DEF CallStep
<1>3. ASSUME NEW r \in Runs, RunStep(r) PROVE Kept'
  <2>1. r \in Actors
    BY DEF Actors
  <2>2. CASE Load(r)
    <3>1. [actor[r] EXCEPT !.pc = "ready", !.plan = doc.plan].pc # "held"
      BY <2>1 DEF TypeOK, Actor
    <3>2. QED  BY <2>1, <2>2, <3>1, OneMovesUnheld DEF Load
  <2>3. CASE Check(r)
    <3>1. UNCHANGED <<doc, bought>> /\ (Call(r, "charge") \/ End(r))
      BY <2>3 DEF Check
    <3>2. QED  BY <2>1, <3>1, EndKeeps, CallKeeps
  <2>4. CASE Generate(r)
    <3>1. UNCHANGED <<doc, bought>> /\ (Call(r, "tokens") \/ Call(r, "refund"))
      BY <2>4 DEF Generate
    <3>2. QED  BY <2>1, <3>1, CallKeeps
  <2>5. QED  BY <1>3, <2>2, <2>3, <2>4 DEF RunStep
<1>4. ASSUME NEW q \in Requests, Publish(q) PROVE Kept'
  <2>1. q \in Actors
    BY DEF Actors
  <2>2. [actor[q] EXCEPT !.pc = "wait", !.op = "charge", !.at = today, !.plan = doc.plan].pc
          # "held"
    BY <2>1 DEF TypeOK, Actor
  <2>3. QED  BY <1>4, <2>1, <2>2, OneMovesUnheld DEF Publish
<1>5. ASSUME NEW y \in Payments, Pay(y) PROVE Kept'
  <2>1. y \in Actors
    BY DEF Actors
  <2>2. PICK p \in Plans :
          actor' = [actor EXCEPT ![y] = [actor[y] EXCEPT !.pc = "wait", !.op = "assign",
                                                         !.plan = p]]
    BY <1>5 DEF Pay
  <2>3. [actor[y] EXCEPT !.pc = "wait", !.op = "assign", !.plan = p].pc # "held"
    BY <2>1 DEF TypeOK, Actor
  <2>4. QED  BY <1>5, <2>1, <2>2, <2>3, OneMovesUnheld DEF Pay
<1>6. ASSUME NEW p \in Processes, Crash(p) PROVE Kept'
  <2>1. \A a \in Actors : Held(a)' => Held(a) /\ actor'[a] = actor[a]
    BY <1>6, RestIsUnheld DEF Crash, Held
  <2>2. QED  BY <1>6, <2>1, BystanderKeeps DEF Crash
<1>7. CASE Midnight
  BY <1>7, BystanderKeeps DEF Midnight, Held
<1>8. QED
  BY <1>1, <1>2, <1>3, <1>4, <1>5, <1>6, <1>7 DEF Next

LEMMA InitKept ==
  ASSUME Init PROVE Kept
<1>1. \A a \in Actors : ~Held(a)
  BY RestIsUnheld DEF Init, Held
<1>2. QED
  BY <1>1 DEF Init, Kept, CopyIsFresh, PlanIsKept

\* In one process the lock keeps every reading fresh until it is written back, so
\* that no counter undoes the assignment of a plan.
THEOREM PlanKept ==
  ASSUME OneProcess PROVE Spec => []PlanIsKept
<1>1. Init => Kept
  BY InitKept
<1>2. TypeOK /\ Kept /\ [Next]_vars => Kept'
  BY NextKeeps
<1>3. Kept => PlanIsKept
  BY DEF Kept
<1>4. QED
  BY <1>1, <1>2, <1>3, TypeCorrect, PTL DEF Spec

=============================================================================
