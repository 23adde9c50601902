---------------------------- MODULE UsageQuotaBooks ----------------------------
(***************************************************************************)
(* Proofs that the counters of UsageQuota say what was charged, and that   *)
(* no limit is exceeded, for one process.                                  *)
(***************************************************************************)
EXTENDS UsageQuotaProofs, FiniteSetTheorems

-----------------------------------------------------------------------------
(* The two sides of the books, for any function f in the place of actor.   *)

StandingIn(f, D) == {a \in Actors : f[a].charged \in D /\ f[a].returned \notin D}
StraysIn(f, D)   == {a \in Actors : f[a].returned \in D /\ f[a].charged \notin D}

Balance(f, used, D) ==
  /\ used <= Cardinality(StandingIn(f, D))
  /\ Cardinality(StandingIn(f, D)) <= used + Cardinality(StraysIn(f, D))

\* The sides grow and shrink with the charge or refund of one actor.
SameExcept(f, g, a) ==
  \A b \in Actors \ {a} : g[b].charged = f[b].charged /\ g[b].returned = f[b].returned

Charges(f, g, a) == /\ SameExcept(f, g, a)
                    /\ f[a].charged = 0 /\ f[a].returned = 0 /\ g[a].returned = 0

Refunds(f, g, a) == /\ SameExcept(f, g, a)
                    /\ g[a].charged = f[a].charged /\ f[a].returned = 0

LEMMA SidesAreFinite ==
  ASSUME NEW f, NEW D
  PROVE  /\ IsFiniteSet(StandingIn(f, D)) /\ IsFiniteSet(StraysIn(f, D))
         /\ Cardinality(StandingIn(f, D)) \in Nat /\ Cardinality(StraysIn(f, D)) \in Nat
<1>1. StandingIn(f, D) \in SUBSET Actors /\ StraysIn(f, D) \in SUBSET Actors
  BY DEF StandingIn, StraysIn
<1>2. IsFiniteSet(Actors)
  BY ConstantsAssumption
<1>3. IsFiniteSet(StandingIn(f, D)) /\ IsFiniteSet(StraysIn(f, D))
  BY <1>1, <1>2, FS_Subset
<1>4. QED
  BY <1>3, FS_CardinalityType

LEMMA SidesStay ==
  ASSUME NEW f, NEW g, NEW D,
         \A b \in Actors : g[b].charged = f[b].charged /\ g[b].returned = f[b].returned
  PROVE  StandingIn(g, D) = StandingIn(f, D) /\ StraysIn(g, D) = StraysIn(f, D)
  BY DEF StandingIn, StraysIn

LEMMA SidesAfterCharge ==
  ASSUME NEW f, NEW g, NEW D, NEW a \in Actors, Charges(f, g, a), 0 \notin D
  PROVE  /\ Cardinality(StraysIn(g, D)) = Cardinality(StraysIn(f, D))
         /\ Cardinality(StandingIn(g, D))
              = Cardinality(StandingIn(f, D)) + (IF g[a].charged \in D THEN 1 ELSE 0)
<1>1. StraysIn(g, D) = StraysIn(f, D)
  BY DEF Charges, SameExcept, StraysIn
<1>2. CASE g[a].charged \in D
  <2>1. StandingIn(g, D) = StandingIn(f, D) \cup {a} /\ a \notin StandingIn(f, D)
    BY <1>2 DEF Charges, SameExcept, StandingIn
  <2>2. QED  BY <1>1, <1>2, <2>1, SidesAreFinite, FS_AddElement
<1>3. CASE g[a].charged \notin D
  <2>1. StandingIn(g, D) = StandingIn(f, D)
    BY <1>3 DEF Charges, SameExcept, StandingIn
  <2>2. QED  BY <1>1, <1>3, <2>1, SidesAreFinite
<1>4. QED
  BY <1>2, <1>3

LEMMA SidesAfterRefund ==
  ASSUME NEW f, NEW g, NEW D, NEW a \in Actors, Refunds(f, g, a), 0 \notin D
  PROVE  LET hits == g[a].returned \in D
             own  == f[a].charged \in D
         IN  /\ Cardinality(StandingIn(g, D))
                  = Cardinality(StandingIn(f, D)) - (IF hits /\ own THEN 1 ELSE 0)
             /\ Cardinality(StraysIn(g, D))
                  = Cardinality(StraysIn(f, D)) + (IF hits /\ ~own THEN 1 ELSE 0)
             /\ hits /\ own => Cardinality(StandingIn(f, D)) >= 1
<1>1. CASE g[a].returned \notin D
  <2>1. StandingIn(g, D) = StandingIn(f, D) /\ StraysIn(g, D) = StraysIn(f, D)
    BY <1>1 DEF Refunds, SameExcept, StandingIn, StraysIn
  <2>2. QED  BY <1>1, <2>1, SidesAreFinite
<1>2. CASE g[a].returned \in D /\ f[a].charged \in D
  <2>1. /\ StandingIn(g, D) = StandingIn(f, D) \ {a} /\ a \in StandingIn(f, D)
        /\ StraysIn(g, D) = StraysIn(f, D)
    BY <1>2 DEF Refunds, SameExcept, StandingIn, StraysIn
  <2>2. Cardinality(StandingIn(g, D)) = Cardinality(StandingIn(f, D)) - 1
    BY <2>1, SidesAreFinite, FS_RemoveElement
  <2>3. Cardinality(StandingIn(g, D)) \in Nat /\ Cardinality(StandingIn(f, D)) \in Nat
    BY SidesAreFinite
  <2>4. QED  BY <1>2, <2>1, <2>2, <2>3, SidesAreFinite
<1>3. CASE g[a].returned \in D /\ f[a].charged \notin D
  <2>1. /\ StandingIn(g, D) = StandingIn(f, D)
        /\ StraysIn(g, D) = StraysIn(f, D) \cup {a} /\ a \notin StraysIn(f, D)
    BY <1>3 DEF Refunds, SameExcept, StandingIn, StraysIn
  <2>2. Cardinality(StraysIn(g, D)) = Cardinality(StraysIn(f, D)) + 1
    BY <2>1, SidesAreFinite, FS_AddElement
  <2>3. QED  BY <1>3, <2>1, <2>2, SidesAreFinite
<1>4. QED
  BY <1>1, <1>2, <1>3

\* A charge that is counted balances, and so does a refund.
LEMMA ChargeBalances ==
  ASSUME NEW f, NEW g, NEW D, NEW a \in Actors, Charges(f, g, a), 0 \notin D,
         g[a].charged \in D, NEW used \in Nat, Balance(f, used, D)
  PROVE  Balance(g, used + 1, D)
<1>1. /\ Cardinality(StraysIn(g, D)) = Cardinality(StraysIn(f, D))
      /\ Cardinality(StandingIn(g, D))
           = Cardinality(StandingIn(f, D)) + (IF g[a].charged \in D THEN 1 ELSE 0)
  BY SidesAfterCharge
<1>2. /\ Cardinality(StandingIn(f, D)) \in Nat /\ Cardinality(StraysIn(f, D)) \in Nat
      /\ Cardinality(StandingIn(g, D)) \in Nat /\ Cardinality(StraysIn(g, D)) \in Nat
  BY SidesAreFinite
<1>3. QED
  BY <1>1, <1>2 DEF Balance

\* The first charge of a day or month.
LEMMA FirstChargeBalances ==
  ASSUME NEW f, NEW g, NEW D, NEW a \in Actors, Charges(f, g, a), 0 \notin D,
         g[a].charged \in D, \A b \in Actors : f[b].charged \notin D
  PROVE  Balance(g, 1, D)
<1>1. StandingIn(f, D) = {}
  BY DEF StandingIn
<1>2. Cardinality(StandingIn(f, D)) = 0
  BY <1>1, FS_EmptySet
<1>3. Balance(f, 0, D)
  BY <1>2, SidesAreFinite DEF Balance
<1>4. QED
  BY <1>3, ChargeBalances

LEMMA RefundBalances ==
  ASSUME NEW f, NEW g, NEW D, NEW a \in Actors, Refunds(f, g, a), 0 \notin D,
         NEW used \in Nat, Balance(f, used, D)
  PROVE  Balance(g, IF g[a].returned \in D /\ used > 0 THEN used - 1 ELSE used, D)
<1>1. LET hits == g[a].returned \in D
          own  == f[a].charged \in D
      IN  /\ Cardinality(StandingIn(g, D))
               = Cardinality(StandingIn(f, D)) - (IF hits /\ own THEN 1 ELSE 0)
          /\ Cardinality(StraysIn(g, D))
               = Cardinality(StraysIn(f, D)) + (IF hits /\ ~own THEN 1 ELSE 0)
          /\ hits /\ own => Cardinality(StandingIn(f, D)) >= 1
  BY SidesAfterRefund
<1>2. /\ Cardinality(StandingIn(f, D)) \in Nat /\ Cardinality(StraysIn(f, D)) \in Nat
      /\ Cardinality(StandingIn(g, D)) \in Nat /\ Cardinality(StraysIn(g, D)) \in Nat
  BY SidesAreFinite
<1>3. QED
  BY <1>1, <1>2 DEF Balance

\* No refund, and no charge elsewhere, takes D further above a limit.
Within(f, limit, D) ==
  Cardinality(StandingIn(f, D)) <= limit + Cardinality(StraysIn(f, D))

LEMMA RefundStaysWithin ==
  ASSUME NEW f, NEW g, NEW D, NEW a \in Actors, Refunds(f, g, a), 0 \notin D,
         NEW limit \in Nat, Within(f, limit, D)
  PROVE  Within(g, limit, D)
<1>1. LET hits == g[a].returned \in D
          own  == f[a].charged \in D
      IN  /\ Cardinality(StandingIn(g, D))
               = Cardinality(StandingIn(f, D)) - (IF hits /\ own THEN 1 ELSE 0)
          /\ Cardinality(StraysIn(g, D))
               = Cardinality(StraysIn(f, D)) + (IF hits /\ ~own THEN 1 ELSE 0)
          /\ hits /\ own => Cardinality(StandingIn(f, D)) >= 1
  BY SidesAfterRefund
<1>2. /\ Cardinality(StandingIn(f, D)) \in Nat /\ Cardinality(StraysIn(f, D)) \in Nat
      /\ Cardinality(StandingIn(g, D)) \in Nat /\ Cardinality(StraysIn(g, D)) \in Nat
  BY SidesAreFinite
<1>3. QED
  BY <1>1, <1>2 DEF Within

LEMMA ChargeElsewhereStaysWithin ==
  ASSUME NEW f, NEW g, NEW D, NEW a \in Actors, Charges(f, g, a), 0 \notin D,
         g[a].charged \notin D, NEW limit \in Nat, Within(f, limit, D)
  PROVE  Within(g, limit, D)
<1>1. /\ Cardinality(StraysIn(g, D)) = Cardinality(StraysIn(f, D))
      /\ Cardinality(StandingIn(g, D))
           = Cardinality(StandingIn(f, D)) + (IF g[a].charged \in D THEN 1 ELSE 0)
  BY SidesAfterCharge
<1>2. /\ Cardinality(StandingIn(f, D)) \in Nat /\ Cardinality(StraysIn(f, D)) \in Nat
      /\ Cardinality(StandingIn(g, D)) \in Nat /\ Cardinality(StraysIn(g, D)) \in Nat
  BY SidesAreFinite
<1>3. QED
  BY <1>1, <1>2 DEF Within

LEMMA BalanceIsWithin ==
  ASSUME NEW f, NEW D, NEW used \in Nat, NEW limit \in Nat,
         used <= limit, Balance(f, used, D)
  PROVE  Within(f, limit, D)
  BY SidesAreFinite DEF Within, Balance

-----------------------------------------------------------------------------
(* Days and months.                                                        *)

LEMMA MonthsGrow ==
  ASSUME NEW d \in Nat, NEW e \in Nat, d <= e
  PROVE  MonthOf(d) <= MonthOf(e)
<1> DEFINE n == DaysOfMonth
           p == (d - 1) \div n
           q == (e - 1) \div n
<1>1. n \in Nat /\ n >= 1
  BY ConstantsAssumption
<1>2. /\ p \in Int /\ q \in Int
      /\ n * p <= d - 1 /\ d - 1 < n * p + n
      /\ n * q <= e - 1 /\ e - 1 < n * q + n
  BY <1>1
<1>3. p <= q
  <2>1. n * p < n * (q + 1)
    BY <1>1, <1>2
  <2>2. p < q + 1
    BY <1>1, <1>2, <2>1
  <2>3. QED  BY <1>2, <2>2
<1>4. QED
  BY <1>2, <1>3 DEF MonthOf

LEMMA MonthsBegin ==
  /\ MonthOf(0) = 0
  /\ \A d \in Nat \ {0} : MonthOf(d) >= 1
<1>1. DaysOfMonth \in Nat /\ DaysOfMonth >= 1
  BY ConstantsAssumption
<1>2. (0 - 1) \div DaysOfMonth = 0 - 1
  BY <1>1
<1>3. \A d \in Nat \ {0} : (d - 1) \div DaysOfMonth \in Nat
  BY <1>1
<1>4. QED
  BY <1>2, <1>3 DEF MonthOf

-----------------------------------------------------------------------------
(* The inductive invariant.                                                *)

\* An actor is charged once, before its work, and given back once, after it.
InOrder(c) ==
  /\ c.charged \in Days \cup {0} /\ c.returned \in Days \cup {0}
  /\ c.charged = 0 => c.returned = 0
  /\ c.pc \in {"idle", "ready"} => c.charged = 0
  /\ c.pc = "work" => c.charged # 0 /\ c.returned = 0
  /\ c.pc \in {"wait", "held"} =>
       /\ c.op # "assign" => c.at \in Days
       /\ c.op = "charge" => c.charged = 0
       /\ c.op = "refund" => c.charged # 0 /\ c.returned = 0

Accounts == \A a \in Actors : InOrder(actor[a])

\* Every charge writes the day and its month.
KeysAgree ==
  /\ doc.day.key \in Days \cup {0} /\ doc.month.key = MonthOf(doc.day.key)
  /\ doc.day.key = 0 => doc.day.used = 0 /\ doc.month.used = 0

NoneAhead == \A a \in Actors : actor[a].charged <= doc.day.key

InBalance ==
  /\ Balance(actor, doc.day.used, {doc.day.key})
  /\ Balance(actor, doc.month.used, DaysIn(doc.month.key))

WithinLimits ==
  /\ \A d \in Days : Within(actor, Largest(DayLimit), {d})
  /\ \A m \in {MonthOf(d) : d \in Days} : Within(actor, Largest(MonthLimit), DaysIn(m))

Books == /\ Accounts /\ KeysAgree
         /\ ~late => NoneAhead /\ InBalance /\ WithinLimits

LEMMA BooksSuffice ==
  ASSUME Books PROVE BooksBalance /\ NotOverdrawn
<1>1. BooksBalance
  BY DEF Books, InBalance, BooksBalance, Balance, Standing, Strays, StandingIn, StraysIn
<1>2. NotOverdrawn
  BY DEF Books, WithinLimits, NotOverdrawn, Within, Standing, Strays, StandingIn, StraysIn
<1>3. QED
  BY <1>1, <1>2

LEMMA LargestIsLargest ==
  ASSUME NEW limit \in {DayLimit, MonthLimit, TokenLimit}
  PROVE  /\ Largest(limit) \in Nat
         /\ \A p \in Plans : limit[p] <= Largest(limit)
<1>1. limit \in [Plans -> Nat \ {0}]
  BY ConstantsAssumption
<1>2. PICK p \in Plans : \A q \in Plans : limit[q] <= limit[p]
  BY ConstantsAssumption
<1> DEFINE S == {limit[q] : q \in Plans}
<1>3. \E n \in S : \A q \in Plans : limit[q] <= n
  BY <1>2
<1>4. Largest(limit) \in S /\ \A q \in Plans : limit[q] <= Largest(limit)
  BY <1>3 DEF Largest
<1>5. QED
  BY <1>1, <1>4

\* No day of a month is day 0.
LEMMA DaysAreReal ==
  /\ 0 \notin Days /\ Days \subseteq Nat
  /\ \A m : 0 \notin DaysIn(m) /\ DaysIn(m) \subseteq Days
  /\ \A d \in Days : d \in DaysIn(MonthOf(d)) /\ MonthOf(d) >= 1
<1>1. 0 \notin Days /\ Days \subseteq Nat
  BY ConstantsAssumption DEF Days
<1>2. QED
  BY <1>1, MonthsBegin DEF DaysIn

LEMMA RestFields ==
  ASSUME NEW pc, NEW charged, NEW returned
  PROVE  /\ AtRest(pc, charged, returned).pc = pc
         /\ AtRest(pc, charged, returned).charged = charged
         /\ AtRest(pc, charged, returned).returned = returned
  BY DEF AtRest

LEMMA InitBooks ==
  ASSUME Init PROVE Books
<1>1. \A a \in Actors : actor[a] = AtRest("idle", 0, 0)
  BY DEF Init
<1>2. \A a \in Actors : /\ actor[a].pc = "idle" /\ actor[a].charged = 0
                        /\ actor[a].returned = 0
  BY <1>1, RestFields
<1>3. /\ doc.day.key = 0 /\ doc.day.used = 0 /\ doc.month.key = 0 /\ doc.month.used = 0
  BY DEF Init, Unused
<1>4. Accounts
  BY <1>2 DEF Accounts, InOrder
<1>5. KeysAgree
  BY <1>3, MonthsBegin DEF KeysAgree
<1>6. \A D : Cardinality(StandingIn(actor, D)) = 0
  <2>1. \A D : StandingIn(actor, D) = {}
    BY <1>2 DEF StandingIn
  <2>2. QED  BY <2>1, FS_EmptySet
<1>7. \A D : Balance(actor, 0, D)
  BY <1>6, SidesAreFinite DEF Balance
<1>8. \A D : \A limit \in Nat : Within(actor, limit, D)
  BY <1>6, SidesAreFinite DEF Within
<1>9. InBalance
  BY <1>3, <1>7 DEF InBalance
<1>10. WithinLimits
  BY <1>8, LargestIsLargest DEF WithinLimits
<1>11. NoneAhead
  BY <1>2, <1>3 DEF NoneAhead
<1>12. QED
  BY <1>4, <1>5, <1>9, <1>10, <1>11 DEF Books

-----------------------------------------------------------------------------
(* Steps that charge nothing and give nothing back.                        *)

LEMMA Unbooked ==
  ASSUME Books, Accounts', doc'.day = doc.day, doc'.month = doc.month,
         late => late',
         \A b \in Actors : /\ actor'[b].charged = actor[b].charged
                           /\ actor'[b].returned = actor[b].returned
  PROVE  Books'
<1>1. KeysAgree'
  BY DEF Books, KeysAgree
<1>2. ASSUME ~late' PROVE NoneAhead' /\ InBalance' /\ WithinLimits'
  <2>1. NoneAhead /\ InBalance /\ WithinLimits
    BY <1>2 DEF Books
  <2>2. \A D : StandingIn(actor', D) = StandingIn(actor, D)
               /\ StraysIn(actor', D) = StraysIn(actor, D)
    BY SidesStay
  <2>3. NoneAhead'
    BY <2>1 DEF NoneAhead
  <2>4. InBalance'
    BY <2>1, <2>2 DEF InBalance, Balance
  <2>5. WithinLimits'
    BY <2>1, <2>2 DEF WithinLimits, Within
  <2>6. QED  BY <2>3, <2>4, <2>5
<1>3. QED
  BY <1>1, <1>2 DEF Books

\* One actor moves, and its two days stay.
LEMMA OneMovesUnbooked ==
  ASSUME TypeOK, Books, NEW a \in Actors, NEW x, InOrder(x),
         x.charged = actor[a].charged, x.returned = actor[a].returned,
         actor' = [actor EXCEPT ![a] = x], doc' = doc, late' = late
  PROVE  Books'
<1>1. \A b \in Actors : actor'[b] = IF b = a THEN x ELSE actor[b]
  BY DEF TypeOK
<1>2. Accounts'
  BY <1>1 DEF Books, Accounts
<1>3. QED
  BY <1>1, <1>2, Unbooked

LEMMA EndIsInOrder ==
  ASSUME NEW c, InOrder(c)
  PROVE  InOrder(AtRest("end", c.charged, c.returned))
  BY RestFields DEF InOrder

LEMMA EndUnbooked ==
  ASSUME TypeOK, Books, NEW a \in Actors, End(a), doc' = doc, late' = late
  PROVE  Books'
<1> DEFINE x == AtRest("end", actor[a].charged, actor[a].returned)
<1>1. InOrder(x)
  BY EndIsInOrder DEF Books, Accounts
<1>2. x.charged = actor[a].charged /\ x.returned = actor[a].returned
  BY RestFields
<1>3. actor' = [actor EXCEPT ![a] = x]
  BY DEF End
<1> HIDE DEF x
<1>4. QED
  BY <1>1, <1>2, <1>3, OneMovesUnbooked

LEMMA CallUnbooked ==
  ASSUME TypeOK, Books, NEW a \in Actors, NEW op \in Operations, Call(a, op),
         op = "charge" => actor[a].charged = 0,
         op = "refund" => actor[a].charged # 0 /\ actor[a].returned = 0,
         doc' = doc, late' = late
  PROVE  Books'
<1> DEFINE x == [actor[a] EXCEPT !.pc = "wait", !.op = op, !.at = today]
<1>1. /\ x.pc = "wait" /\ x.op = op /\ x.at = today
      /\ x.charged = actor[a].charged /\ x.returned = actor[a].returned
  BY DEF TypeOK, Actor
<1>2. InOrder(actor[a]) /\ today \in Days
  BY DEF Books, Accounts, TypeOK
<1>3. actor' = [actor EXCEPT ![a] = x]
  BY DEF Call
<1> HIDE DEF x
<1>4. InOrder(x)
  BY <1>1, <1>2 DEF InOrder
<1>5. QED
  BY <1>1, <1>3, <1>4, OneMovesUnbooked

-----------------------------------------------------------------------------
(* The writes.                                                             *)

\* What Replace does to the two days of its actor.
LEMMA ReplaceMoves ==
  ASSUME TypeOK, Books, NEW a \in Actors, Replace(a)
  PROVE  LET c == actor[a]
         IN  /\ \A b \in Actors \ {a} : actor'[b] = actor[b]
             /\ actor'[a].pc = After(a)
             /\ actor'[a].charged = IF c.op = "charge" THEN c.at ELSE c.charged
             /\ actor'[a].returned = IF c.op = "refund" THEN c.at ELSE c.returned
             /\ Accounts'
<1> DEFINE c == actor[a]
           ch == IF c.op = "charge" THEN c.at ELSE c.charged
           re == IF c.op = "refund" THEN c.at ELSE c.returned
           x == AtRest(After(a), ch, re)
<1>1. actor' = [actor EXCEPT ![a] = x]
  BY DEF Replace
<1>2. x.pc = After(a) /\ x.charged = ch /\ x.returned = re
  BY RestFields
<1> HIDE DEF x
<1>3. \A b \in Actors : actor'[b] = IF b = a THEN x ELSE actor[b]
  BY <1>1 DEF TypeOK
<1>4. InOrder(c) /\ c.pc = "held" /\ c.op \in Operations
  BY DEF Books, Accounts, Replace, TypeOK, Actor
<1>5. /\ After(a) \in {"work", "end"}
      /\ After(a) = "work" => c.op = "charge"
  BY DEF After
<1>6. InOrder(x)
  <2>1. CASE c.op = "charge"
    BY <2>1, <1>2, <1>4, <1>5, DaysAreReal DEF InOrder
  <2>2. CASE c.op = "refund"
    BY <2>2, <1>2, <1>4, <1>5 DEF InOrder
  <2>3. CASE c.op \notin {"charge", "refund"}
    BY <2>3, <1>2, <1>4, <1>5 DEF InOrder
  <2>4. QED  BY <2>1, <2>2, <2>3
<1>7. Accounts'
  BY <1>3, <1>6 DEF Books, Accounts
<1>8. QED
  BY <1>2, <1>3, <1>7

\* A charge that is let through.
LEMMA ChargeBooked ==
  ASSUME TypeOK, Kept, Books, NEW a \in Actors, Replace(a), actor[a].op = "charge"
  PROVE  Books'
<1> DEFINE at == actor[a].at
           m  == MonthOf(at)
<1>1. /\ InOrder(actor[a]) /\ actor[a].pc = "held" /\ actor[a].copy = doc
      /\ actor[a].plan \in Plans
  BY DEF Books, Accounts, Replace, Kept, CopyIsFresh, Held, TypeOK, Actor
<1>2. /\ at \in Days /\ at \in Nat /\ at # 0
      /\ actor[a].charged = 0 /\ actor[a].returned = 0
  BY <1>1, DaysAreReal DEF InOrder
<1>3. /\ \A b \in Actors \ {a} : actor'[b] = actor[b]
      /\ actor'[a].charged = at /\ actor'[a].returned = 0
      /\ Accounts'
  BY <1>2, ReplaceMoves
<1>4. Charges(actor, actor', a)
  BY <1>2, <1>3 DEF Charges, SameExcept
<1>5. /\ doc.day \in Counter /\ doc.month \in Counter /\ doc \in Doc
      /\ doc.day.key \in Nat /\ doc.month.key \in Nat
      /\ doc.day.used \in Nat /\ doc.month.used \in Nat
  BY DEF TypeOK, Doc, Counter
<1>6. doc'.day = Add(doc.day, at, 1) /\ doc'.month = Add(doc.month, m, 1)
  <2>1. doc' = [doc EXCEPT !.day = Add(doc.day, at, 1), !.month = Add(doc.month, m, 1)]
    BY <1>1 DEF Replace, Applied
  <2>2. QED  BY <2>1, <1>5 DEF Doc
<1>7. /\ doc'.day.key = at /\ doc'.month.key = m
      /\ doc'.day.used = UsedIn(doc.day, at) + 1 /\ doc'.month.used = UsedIn(doc.month, m) + 1
  BY <1>6 DEF Add
<1>8. KeysAgree'
  BY <1>2, <1>7 DEF KeysAgree
<1>9. ASSUME ~late' PROVE NoneAhead' /\ InBalance' /\ WithinLimits'
  <2>1. ~late /\ doc.day.key <= at
    <3>1. late' = (late \/ (actor[a].op \in {"charge", "tokens"} /\ at < actor[a].copy.day.key))
      BY DEF Replace
    <3>2. ~late /\ ~(at < actor[a].copy.day.key)
      BY <1>9, <3>1, Zenon
    <3>3. QED  BY <1>1, <1>2, <1>5, <3>2
  <2>2. NoneAhead /\ InBalance /\ WithinLimits /\ doc.month.key = MonthOf(doc.day.key)
    BY <2>1 DEF Books, KeysAgree
  <2>3. \A b \in Actors : actor[b].charged \in Nat /\ actor[b].charged <= doc.day.key
    BY <2>2 DEF NoneAhead, TypeOK, Actor
  <2>4. NoneAhead'
    <3>1. \A b \in Actors : actor'[b].charged <= at
      BY <1>2, <1>3, <1>5, <2>1, <2>3
    <3>2. QED  BY <3>1, <1>7 DEF NoneAhead
  <2>5. Balance(actor', doc'.day.used, {at})
    <3>1. CASE doc.day.key = at
      <4>1. Balance(actor, doc.day.used, {at}) /\ doc'.day.used = doc.day.used + 1
        BY <3>1, <2>2, <1>7 DEF InBalance, UsedIn
      <4>2. QED  BY <4>1, <1>2, <1>3, <1>4, <1>5, ChargeBalances
    <3>2. CASE doc.day.key # at
      <4>1. doc'.day.used = 1
        BY <3>2, <1>7 DEF UsedIn
      <4>2. \A b \in Actors : actor[b].charged \notin {at}
        BY <3>2, <1>2, <1>5, <2>1, <2>3
      <4>3. QED  BY <4>1, <4>2, <1>2, <1>3, <1>4, FirstChargeBalances
    <3>3. QED  BY <3>1, <3>2
  <2>6. /\ 0 \notin DaysIn(m) /\ at \in DaysIn(m)
    BY <1>2, DaysAreReal
  <2>7. Balance(actor', doc'.month.used, DaysIn(m))
    <3>1. CASE doc.month.key = m
      <4>1. Balance(actor, doc.month.used, DaysIn(m)) /\ doc'.month.used = doc.month.used + 1
        BY <3>1, <2>2, <1>7 DEF InBalance, UsedIn
      <4>2. QED  BY <4>1, <1>3, <1>4, <1>5, <2>6, ChargeBalances
    <3>2. CASE doc.month.key # m
      <4>1. doc'.month.used = 1
        BY <3>2, <1>7 DEF UsedIn
      <4>2. doc.month.key <= m /\ m \in Nat
        BY <1>2, <1>5, <2>1, <2>2, MonthsGrow, MonthIsNat
      <4>3. ASSUME NEW b \in Actors PROVE actor[b].charged \notin DaysIn(m)
        <5>1. MonthOf(actor[b].charged) <= doc.month.key
          BY <1>5, <2>2, <2>3, MonthsGrow
        <5>2. MonthOf(actor[b].charged) \in Nat
          BY <2>3, MonthIsNat
        <5>3. QED  BY <3>2, <4>2, <5>1, <5>2, <1>5 DEF DaysIn
      <4>4. QED  BY <4>1, <4>3, <1>3, <1>4, <2>6, FirstChargeBalances
    <3>3. QED  BY <3>1, <3>2
  <2>8. InBalance'
    BY <2>5, <2>7, <1>7 DEF InBalance, DaysIn, Days
  <2>9. /\ doc'.day.used \in Nat /\ doc'.day.used <= Largest(DayLimit)
        /\ doc'.month.used \in Nat /\ doc'.month.used <= Largest(MonthLimit)
    <3>1. Allowed(a)
      BY DEF Replace
    <3>2. /\ UsedIn(doc.day, at) + 1 <= DayLimit[actor[a].plan]
          /\ UsedIn(doc.month, m) + 1 <= MonthLimit[actor[a].plan]
      BY <1>1, <3>1 DEF Allowed, LimitAllows
    <3>3. /\ DayLimit[actor[a].plan] <= Largest(DayLimit)
          /\ MonthLimit[actor[a].plan] <= Largest(MonthLimit)
          /\ Largest(DayLimit) \in Nat /\ Largest(MonthLimit) \in Nat
          /\ DayLimit[actor[a].plan] \in Nat /\ MonthLimit[actor[a].plan] \in Nat
      BY <1>1, LargestIsLargest, ConstantsAssumption
    <3>4. m \in Nat
      BY <1>2, MonthIsNat
    <3>5. UsedIn(doc.day, at) \in Nat /\ UsedIn(doc.month, m) \in Nat
      BY <1>2, <1>5, <3>4 DEF UsedIn
    <3>6. QED  BY <1>7, <3>2, <3>3, <3>5
  <2>10. Largest(DayLimit) \in Nat /\ Largest(MonthLimit) \in Nat
    BY LargestIsLargest
  <2>11. ASSUME NEW d \in Days PROVE Within(actor', Largest(DayLimit), {d})
    <3>1. CASE d = at
      BY <3>1, <2>5, <2>9, <2>10, BalanceIsWithin
    <3>2. CASE d # at
      <4>1. 0 \notin {d} /\ actor'[a].charged \notin {d} /\ Within(actor, Largest(DayLimit), {d})
        BY <3>2, <1>3, <2>2, DaysAreReal DEF WithinLimits
      <4>2. QED  BY <4>1, <1>4, <2>10, ChargeElsewhereStaysWithin
    <3>3. QED  BY <3>1, <3>2
  <2>12. ASSUME NEW n \in {MonthOf(d) : d \in Days}
         PROVE  Within(actor', Largest(MonthLimit), DaysIn(n))
    <3>1. CASE n = m
      BY <3>1, <2>7, <2>9, <2>10, BalanceIsWithin
    <3>2. CASE n # m
      <4>1. 0 \notin DaysIn(n) /\ Within(actor, Largest(MonthLimit), DaysIn(n))
        BY <2>2, DaysAreReal DEF WithinLimits
      <4>2. actor'[a].charged \notin DaysIn(n)
        BY <3>2, <1>3 DEF DaysIn
      <4>3. QED  BY <4>1, <4>2, <1>4, <2>10, ChargeElsewhereStaysWithin
    <3>3. QED  BY <3>1, <3>2
  <2>13. WithinLimits'
    BY <2>11, <2>12 DEF WithinLimits, DaysIn, Days
  <2>14. QED  BY <2>4, <2>8, <2>13
<1>10. QED
  BY <1>3, <1>8, <1>9 DEF Books

\* A unit that is given back.
LEMMA RefundBooked ==
  ASSUME TypeOK, Kept, Books, NEW a \in Actors, Replace(a), actor[a].op = "refund"
  PROVE  Books'
<1> DEFINE at == actor[a].at
           m  == MonthOf(at)
           k  == doc.day.key
           n  == doc.month.key
<1>1. /\ InOrder(actor[a]) /\ actor[a].pc = "held" /\ actor[a].copy = doc
  BY DEF Books, Accounts, Replace, Kept, CopyIsFresh, Held
<1>2. /\ at \in Days /\ actor[a].charged # 0 /\ actor[a].returned = 0
      /\ actor[a].charged \in Days
  BY <1>1 DEF InOrder
<1>3. /\ \A b \in Actors \ {a} : actor'[b] = actor[b]
      /\ actor'[a].charged = actor[a].charged /\ actor'[a].returned = at
      /\ Accounts'
  BY <1>2, ReplaceMoves
<1>4. Refunds(actor, actor', a)
  BY <1>2, <1>3 DEF Refunds, SameExcept
<1>5. /\ doc.day \in Counter /\ doc.month \in Counter /\ doc \in Doc
      /\ k \in Nat /\ n \in Nat /\ doc.day.used \in Nat /\ doc.month.used \in Nat
  BY DEF TypeOK, Doc, Counter
<1>6. doc'.day = GiveBack(doc.day, at) /\ doc'.month = GiveBack(doc.month, m)
  <2>1. doc' = [doc EXCEPT !.day = GiveBack(doc.day, at), !.month = GiveBack(doc.month, m)]
    BY <1>1 DEF Replace, Applied
  <2>2. QED  BY <2>1, <1>5 DEF Doc
<1>7. /\ doc'.day.key = k /\ doc'.month.key = n
      /\ doc'.day.used = IF at = k /\ doc.day.used > 0
                         THEN doc.day.used - 1 ELSE doc.day.used
      /\ doc'.month.used = IF m = n /\ doc.month.used > 0
                           THEN doc.month.used - 1 ELSE doc.month.used
  BY <1>5, <1>6 DEF GiveBack, Counter
<1>8. KeysAgree'
  BY <1>5, <1>7 DEF Books, KeysAgree
<1>9. ASSUME ~late' PROVE NoneAhead' /\ InBalance' /\ WithinLimits'
  <2>1. ~late
    <3>1. late' = (late \/ (actor[a].op \in {"charge", "tokens"} /\ at < actor[a].copy.day.key))
      BY DEF Replace
    <3>2. QED  BY <1>9, <3>1, Zenon
  <2>2. NoneAhead /\ InBalance /\ WithinLimits /\ n = MonthOf(k)
    BY <2>1 DEF Books, KeysAgree
  <2>3. k # 0 /\ 0 \notin {k} /\ 0 \notin DaysIn(n)
    <3>1. actor[a].charged <= k
      BY <2>2 DEF NoneAhead
    <3>2. actor[a].charged \in Nat
      BY <1>2, DaysAreReal
    <3>3. 0 \notin DaysIn(n)
      BY DaysAreReal
    <3>4. QED  BY <1>2, <1>5, <3>1, <3>2, <3>3
  <2>4. NoneAhead'
    BY <1>3, <1>7, <2>2 DEF NoneAhead
  <2>5. Balance(actor', doc'.day.used, {k})
    <3>1. Balance(actor', IF actor'[a].returned \in {k} /\ doc.day.used > 0
                          THEN doc.day.used - 1 ELSE doc.day.used, {k})
      BY <1>4, <1>5, <2>2, <2>3, RefundBalances DEF InBalance
    <3>2. QED  BY <1>3, <1>7, <3>1
  <2>6. Balance(actor', doc'.month.used, DaysIn(n))
    <3>1. Balance(actor', IF actor'[a].returned \in DaysIn(n) /\ doc.month.used > 0
                          THEN doc.month.used - 1 ELSE doc.month.used, DaysIn(n))
      BY <1>4, <1>5, <2>2, <2>3, RefundBalances DEF InBalance
    <3>2. at \in DaysIn(n) <=> m = n
      BY <1>2 DEF DaysIn
    <3>3. QED  BY <1>3, <1>7, <3>1, <3>2
  <2>7. InBalance'
    BY <2>5, <2>6, <1>7 DEF InBalance, DaysIn, Days
  <2>8. Largest(DayLimit) \in Nat /\ Largest(MonthLimit) \in Nat
    BY LargestIsLargest
  <2>9. ASSUME NEW d \in Days PROVE Within(actor', Largest(DayLimit), {d})
    <3>1. 0 \notin {d} /\ Within(actor, Largest(DayLimit), {d})
      BY <2>2, DaysAreReal DEF WithinLimits
    <3>2. QED  BY <3>1, <1>4, <2>8, RefundStaysWithin
  <2>10. ASSUME NEW l \in {MonthOf(d) : d \in Days}
         PROVE  Within(actor', Largest(MonthLimit), DaysIn(l))
    <3>1. 0 \notin DaysIn(l) /\ Within(actor, Largest(MonthLimit), DaysIn(l))
      BY <2>2, DaysAreReal DEF WithinLimits
    <3>2. QED  BY <3>1, <1>4, <2>8, RefundStaysWithin
  <2>11. WithinLimits'
    BY <2>9, <2>10 DEF WithinLimits, DaysIn, Days
  <2>12. QED  BY <2>4, <2>7, <2>11
<1>10. QED
  BY <1>3, <1>8, <1>9 DEF Books

\* Tokens and assignments leave the books alone.
LEMMA OtherBooked ==
  ASSUME TypeOK, Kept, Books, NEW a \in Actors, Replace(a),
         actor[a].op \notin {"charge", "refund"}
  PROVE  Books'
<1>1. actor[a].copy = doc /\ doc \in Doc /\ actor[a].op \in Operations
  BY DEF Replace, Kept, CopyIsFresh, Held, TypeOK, Actor
<1>2. /\ \A b \in Actors \ {a} : actor'[b] = actor[b]
      /\ actor'[a].charged = actor[a].charged /\ actor'[a].returned = actor[a].returned
      /\ Accounts'
  BY ReplaceMoves
<1>3. doc'.day = doc.day /\ doc'.month = doc.month
  <2>1. CASE actor[a].op = "tokens"
    BY <1>1, <2>1 DEF Replace, Applied, Doc
  <2>2. CASE actor[a].op = "assign"
    BY <1>1, <2>2 DEF Replace, Applied, Doc
  <2>3. QED  BY <1>1, <2>1, <2>2 DEF Operations
<1>4. late => late'
  BY DEF Replace
<1>5. QED
  BY <1>2, <1>3, <1>4, Unbooked

-----------------------------------------------------------------------------

LEMMA NextBooks ==
  ASSUME TypeOK, Kept, Books, [Next]_vars
  PROVE  Books'
<1>1. CASE UNCHANGED vars
  <2>1. Accounts'
    BY <1>1 DEF vars, Books, Accounts, InOrder
  <2>2. QED  BY <1>1, <2>1, Unbooked DEF vars
<1>2. ASSUME NEW a \in Actors, CallStep(a) PROVE Books'
  <2>1. CASE Read(a)
    <3> DEFINE x == [actor[a] EXCEPT !.pc = "held", !.copy = doc]
    <3>1. /\ x.pc = "held" /\ x.op = actor[a].op /\ x.at = actor[a].at
          /\ x.charged = actor[a].charged /\ x.returned = actor[a].returned
      BY DEF TypeOK, Actor
    <3>2. actor' = [actor EXCEPT ![a] = x] /\ actor[a].pc = "wait" /\ InOrder(actor[a])
      BY <2>1 DEF Read, Books, Accounts
    <3> HIDE DEF x
    <3>3. InOrder(x)
      BY <3>1, <3>2 DEF InOrder
    <3>4. QED  BY <2>1, <3>1, <3>2, <3>3, OneMovesUnbooked DEF Read
  <2>2. CASE Refuse(a)
    BY <2>2, EndUnbooked DEF Refuse
  <2>3. CASE Replace(a)
    BY <2>3, ChargeBooked, RefundBooked, OtherBooked
  <2>4. CASE WriteFails(a)
    BY <2>4, EndUnbooked DEF WriteFails
  <2>5. QED  BY <1>2, <2>1, <2>2, <2>3, <2>4 DEF CallStep
<1>3. ASSUME NEW r \in Runs, RunStep(r) PROVE Books'
  <2>1. r \in Actors /\ InOrder(actor[r])
    BY DEF Actors, Books, Accounts
  <2>2. CASE Load(r)
    <3> DEFINE x == [actor[r] EXCEPT !.pc = "ready", !.plan = doc.plan]
    <3>1. /\ x.pc = "ready" /\ x.charged = actor[r].charged /\ x.returned = actor[r].returned
      BY <2>1 DEF TypeOK, Actor
    <3>2. actor' = [actor EXCEPT ![r] = x] /\ actor[r].pc = "idle"
      BY <2>2 DEF Load
    <3> HIDE DEF x
    <3>3. InOrder(x)
      BY <2>1, <3>1, <3>2 DEF InOrder
    <3>4. QED  BY <2>1, <2>2, <3>1, <3>2, <3>3, OneMovesUnbooked DEF Load
  <2>3. CASE Check(r)
    <3>1. /\ doc' = doc /\ late' = late /\ actor[r].charged = 0
          /\ Call(r, "charge") \/ End(r)
      BY <2>1, <2>3 DEF Check, InOrder
    <3>2. QED  BY <2>1, <3>1, EndUnbooked, CallUnbooked DEF Operations
  <2>4. CASE Generate(r)
    <3>1. /\ doc' = doc /\ late' = late /\ actor[r].charged # 0 /\ actor[r].returned = 0
          /\ Call(r, "tokens") \/ Call(r, "refund")
      BY <2>1, <2>4 DEF Generate, InOrder
    <3>2. QED  BY <2>1, <3>1, CallUnbooked DEF Operations
  <2>5. QED  BY <1>3, <2>2, <2>3, <2>4 DEF RunStep
<1>4. ASSUME NEW q \in Requests, Publish(q) PROVE Books'
  <2> DEFINE x == [actor[q] EXCEPT !.pc = "wait", !.op = "charge", !.at = today,
                                   !.plan = doc.plan]
  <2>1. q \in Actors /\ InOrder(actor[q]) /\ actor[q].pc = "idle" /\ today \in Days
    BY <1>4 DEF Actors, Books, Accounts, Publish, TypeOK
  <2>2. /\ x.pc = "wait" /\ x.op = "charge" /\ x.at = today
        /\ x.charged = actor[q].charged /\ x.returned = actor[q].returned
    BY <2>1 DEF TypeOK, Actor
  <2>3. actor' = [actor EXCEPT ![q] = x]
    BY <1>4 DEF Publish
  <2> HIDE DEF x
  <2>4. InOrder(x)
    BY <2>1, <2>2 DEF InOrder
  <2>5. QED  BY <1>4, <2>1, <2>2, <2>3, <2>4, OneMovesUnbooked DEF Publish
<1>5. ASSUME NEW y \in Payments, Pay(y) PROVE Books'
  <2>1. PICK p \in Plans :
          actor' = [actor EXCEPT ![y] = [actor[y] EXCEPT !.pc = "wait", !.op = "assign",
                                                         !.plan = p]]
    BY <1>5 DEF Pay
  <2> DEFINE x == [actor[y] EXCEPT !.pc = "wait", !.op = "assign", !.plan = p]
  <2>2. y \in Actors /\ InOrder(actor[y])
    BY DEF Actors, Books, Accounts
  <2>3. /\ x.pc = "wait" /\ x.op = "assign"
        /\ x.charged = actor[y].charged /\ x.returned = actor[y].returned
    BY <2>2 DEF TypeOK, Actor
  <2>4. actor' = [actor EXCEPT ![y] = x]
    BY <2>1
  <2> HIDE DEF x
  <2>5. InOrder(x)
    BY <2>2, <2>3 DEF InOrder
  <2>6. QED  BY <1>5, <2>2, <2>3, <2>4, <2>5, OneMovesUnbooked DEF Pay
<1>6. ASSUME NEW p \in Processes, Crash(p) PROVE Books'
  <2>1. \A a \in Actors :
          \/ actor'[a] = actor[a]
          \/ actor'[a] = AtRest("end", actor[a].charged, actor[a].returned)
    BY <1>6 DEF Crash
  <2>2. \A a \in Actors : /\ actor'[a].charged = actor[a].charged
                          /\ actor'[a].returned = actor[a].returned
    BY <2>1, RestFields
  <2>3. Accounts'
    <3>1. \A a \in Actors : InOrder(AtRest("end", actor[a].charged, actor[a].returned))
      BY EndIsInOrder DEF Books, Accounts
    <3>2. \A a \in Actors : InOrder(actor'[a])
      BY <2>1, <3>1 DEF Books, Accounts
    <3>3. QED  BY <3>2 DEF Accounts, InOrder, Days
  <2>4. QED  BY <1>6, <2>2, <2>3, Unbooked DEF Crash
<1>7. CASE Midnight
  <2>1. Accounts'
    BY <1>7 DEF Midnight, Books, Accounts, InOrder
  <2>2. QED  BY <1>7, <2>1, Unbooked DEF Midnight
<1>8. QED
  BY <1>1, <1>2, <1>3, <1>4, <1>5, <1>6, <1>7 DEF Next

\* In one process the counters say how many charges stand.
THEOREM BooksAreBalanced ==
  ASSUME OneProcess PROVE Spec => []BooksBalance
<1>1. Init => Kept /\ Books
  BY InitKept, InitBooks
<1>2. TypeOK /\ Kept /\ Books /\ [Next]_vars => Kept' /\ Books'
  BY NextKeeps, NextBooks
<1>3. Books => BooksBalance
  BY BooksSuffice
<1>4. QED
  BY <1>1, <1>2, <1>3, TypeCorrect, PTL DEF Spec

\* In one process no day and no month gets more articles than the largest plan
\* allows, save for units charged before midnight and given back after it.
THEOREM NeverOverdrawn ==
  ASSUME OneProcess PROVE Spec => []NotOverdrawn
<1>1. Init => Kept /\ Books
  BY InitKept, InitBooks
<1>2. TypeOK /\ Kept /\ Books /\ [Next]_vars => Kept' /\ Books'
  BY NextKeeps, NextBooks
<1>3. Books => NotOverdrawn
  BY BooksSuffice
<1>4. QED
  BY <1>1, <1>2, <1>3, TypeCorrect, PTL DEF Spec

-----------------------------------------------------------------------------
(* The budget of tokens.  A run in the slot found room for its estimate,   *)
(* and since then only runs without the slot have used tokens.             *)

\* Runs without the slot that may have counted their tokens.
EndedIn(f) == {r \in Runs \ Serial : f[r].pc = "end" /\ f[r].charged # 0}
Ceiling(f) == Largest(TokenLimit) + Estimate * Cardinality(EndedIn(f))

\* The day on which a run in the slot looked at the budget.
CheckedOn(c) == IF c.charged = 0 THEN c.at ELSE c.charged

OnTime(a, c) ==
  /\ c.charged <= today /\ c.at <= today
  /\ c.pc \in {"wait", "held"} /\ c.op = "tokens" =>
       a \in Runs /\ c.charged # 0 /\ c.charged <= c.at
  /\ a \in Runs /\ c.pc \in {"wait", "held", "work"} => Estimate <= Largest(TokenLimit)

Clocked == /\ doc.tokens.key <= MonthOf(today)
           /\ \A a \in Actors : OnTime(a, actor[a])

Room ==
  /\ \A s, t \in Serial : InSlot(s) /\ InSlot(t) => s = t
  /\ \A s \in Serial : InSlot(s) =>
       \/ doc.tokens.key < MonthOf(CheckedOn(actor[s]))
       \/ doc.tokens.used + Estimate <= Ceiling(actor)

Budget == Clocked /\ Room /\ doc.tokens.used <= Ceiling(actor)

LEMMA SerialAreRuns == Serial \subseteq Runs /\ Runs \subseteq Actors
  BY ConstantsAssumption DEF Actors

LEMMA EndedIsFinite ==
  ASSUME NEW f PROVE IsFiniteSet(EndedIn(f)) /\ Cardinality(EndedIn(f)) \in Nat
<1>1. EndedIn(f) \in SUBSET Actors /\ IsFiniteSet(Actors)
  BY ConstantsAssumption DEF EndedIn, Actors
<1>2. IsFiniteSet(EndedIn(f))
  BY <1>1, FS_Subset
<1>3. QED
  BY <1>2, FS_CardinalityType

LEMMA ProductGrows ==
  ASSUME NEW e \in Nat, NEW m \in Nat, NEW n \in Nat
  PROVE  /\ e * m \in Nat /\ e * (m + 1) = e * m + e
         /\ m <= n => e * m <= e * n
<1>1. e * m \in Nat /\ e * (m + 1) = e * m + e
  OBVIOUS
<1>2. ASSUME m <= n PROVE e * m <= e * n
  <2>1. n - m \in Nat
    BY <1>2
  <2>2. e * (n - m) \in Nat
    BY <2>1
  <2>3. e * n = e * m + e * (n - m)
    BY <2>1
  <2>4. QED  BY <2>2, <2>3, <1>1
<1>3. QED
  BY <1>1, <1>2

LEMMA CeilingIsNat ==
  ASSUME NEW f
  PROVE  Ceiling(f) \in Nat /\ Largest(TokenLimit) \in Nat /\ Largest(TokenLimit) <= Ceiling(f)
<1>1. Largest(TokenLimit) \in Nat /\ Estimate \in Nat
  BY LargestIsLargest, ConstantsAssumption
<1>2. Estimate * Cardinality(EndedIn(f)) \in Nat
  BY <1>1, EndedIsFinite, ProductGrows
<1>3. QED
  BY <1>1, <1>2 DEF Ceiling

LEMMA CeilingGrows ==
  ASSUME NEW f, NEW g, EndedIn(f) \subseteq EndedIn(g)
  PROVE  Ceiling(f) <= Ceiling(g)
<1>1. Cardinality(EndedIn(f)) <= Cardinality(EndedIn(g))
  BY EndedIsFinite, FS_Subset
<1>2. Estimate * Cardinality(EndedIn(f)) <= Estimate * Cardinality(EndedIn(g))
  BY <1>1, EndedIsFinite, ProductGrows, ConstantsAssumption
<1>3. /\ Largest(TokenLimit) \in Nat /\ Estimate * Cardinality(EndedIn(f)) \in Nat
      /\ Estimate * Cardinality(EndedIn(g)) \in Nat
  BY LargestIsLargest, ConstantsAssumption, EndedIsFinite, ProductGrows
<1>4. QED
  BY <1>2, <1>3 DEF Ceiling

LEMMA CeilingSteps ==
  ASSUME NEW f, NEW g, NEW r, r \notin EndedIn(f), EndedIn(g) = EndedIn(f) \cup {r}
  PROVE  Ceiling(g) = Ceiling(f) + Estimate
<1>1. Cardinality(EndedIn(g)) = Cardinality(EndedIn(f)) + 1
  BY EndedIsFinite, FS_AddElement
<1>2. Estimate * Cardinality(EndedIn(g)) = Estimate * Cardinality(EndedIn(f)) + Estimate
  BY <1>1, EndedIsFinite, ProductGrows, ConstantsAssumption
<1>3. /\ Largest(TokenLimit) \in Nat /\ Estimate * Cardinality(EndedIn(f)) \in Nat
      /\ Estimate \in Nat
  BY LargestIsLargest, ConstantsAssumption, EndedIsFinite, ProductGrows
<1>4. QED
  BY <1>2, <1>3 DEF Ceiling

LEMMA BudgetSuffices ==
  ASSUME TypeOK, Budget PROVE BudgetHolds
<1> DEFINE U == {r \in Runs \ Serial : actor[r].charged # 0}
<1>1. EndedIn(actor) \subseteq U
  BY DEF EndedIn
<1>2. IsFiniteSet(U)
  <2>1. U \in SUBSET Actors /\ IsFiniteSet(Actors)
    BY ConstantsAssumption DEF Actors
  <2>2. QED  BY <2>1, FS_Subset
<1>3. Cardinality(EndedIn(actor)) <= Cardinality(U) /\ Cardinality(U) \in Nat
  BY <1>1, <1>2, FS_Subset, FS_CardinalityType
<1> HIDE DEF U
<1>4. Estimate * Cardinality(EndedIn(actor)) <= Estimate * Cardinality(U)
  BY <1>3, EndedIsFinite, ProductGrows, ConstantsAssumption
<1>5. /\ Largest(TokenLimit) \in Nat /\ Estimate * Cardinality(EndedIn(actor)) \in Nat
      /\ Estimate * Cardinality(U) \in Nat /\ doc.tokens.used \in Nat
  BY <1>3, LargestIsLargest, ConstantsAssumption, EndedIsFinite, ProductGrows
  DEF TypeOK, Doc, Counter
<1>6. doc.tokens.used <= Largest(TokenLimit) + Estimate * Cardinality(U)
  BY <1>4, <1>5 DEF Budget, Ceiling
<1>7. QED
  BY <1>6 DEF BudgetHolds, U

InTheSlot == {"wait", "held", "work"}

\* Nobody enters the slot, and no tokens are counted.
LEMMA BudgetStays ==
  ASSUME TypeOK, Budget, doc'.tokens = doc.tokens, today' = today,
         \A a \in Actors : OnTime(a, actor'[a]), EndedIn(actor) \subseteq EndedIn(actor'),
         \A s \in Serial : actor'[s].pc \in InTheSlot =>
           actor[s].pc \in InTheSlot /\ CheckedOn(actor'[s]) = CheckedOn(actor[s])
  PROVE  Budget'
<1>1. Clocked'
  BY DEF Budget, Clocked, OnTime, MonthOf
<1>2. /\ Ceiling(actor) <= Ceiling(actor') /\ Ceiling(actor) \in Nat /\ Ceiling(actor') \in Nat
      /\ doc.tokens.used \in Nat /\ Estimate \in Nat
  BY CeilingGrows, CeilingIsNat, ConstantsAssumption DEF TypeOK, Doc, Counter
<1>3. Room'
  <2>1. ASSUME NEW s \in Serial, NEW t \in Serial, InSlot(s)', InSlot(t)' PROVE s = t
    BY <2>1 DEF Budget, Room, InSlot, InTheSlot
  <2>2. ASSUME NEW s \in Serial, InSlot(s)'
        PROVE  \/ doc'.tokens.key < MonthOf(CheckedOn(actor'[s]))
               \/ doc'.tokens.used + Estimate <= Ceiling(actor')
    <3>1. InSlot(s) /\ CheckedOn(actor'[s]) = CheckedOn(actor[s])
      BY <2>2 DEF InSlot, InTheSlot
    <3>2. \/ doc.tokens.key < MonthOf(CheckedOn(actor[s]))
          \/ doc.tokens.used + Estimate <= Ceiling(actor)
      BY <3>1 DEF Budget, Room
    <3>3. CASE doc.tokens.key < MonthOf(CheckedOn(actor[s]))
      BY <3>1, <3>3
    <3>4. CASE doc.tokens.used + Estimate <= Ceiling(actor)
      BY <1>2, <3>4
    <3>5. QED  BY <3>2, <3>3, <3>4
  <2>3. QED  BY <2>1, <2>2 DEF Room, Ceiling, EndedIn, CheckedOn, MonthOf, Largest
<1>4. doc'.tokens.used <= Ceiling(actor')
  BY <1>2 DEF Budget
<1>5. QED
  BY <1>1, <1>3, <1>4 DEF Budget, Ceiling, EndedIn, Largest

LEMMA OneMovesInBudget ==
  ASSUME TypeOK, Budget, NEW a \in Actors, NEW x, OnTime(a, x), actor[a].pc # "end",
         a \in Serial /\ x.pc \in InTheSlot =>
           actor[a].pc \in InTheSlot /\ CheckedOn(x) = CheckedOn(actor[a]),
         actor' = [actor EXCEPT ![a] = x], doc'.tokens = doc.tokens, today' = today
  PROVE  Budget'
<1>1. \A b \in Actors : actor'[b] = IF b = a THEN x ELSE actor[b]
  BY DEF TypeOK
<1>2. \A b \in Actors : OnTime(b, actor'[b])
  BY <1>1 DEF Budget, Clocked
<1>3. EndedIn(actor) \subseteq EndedIn(actor')
  BY <1>1, SerialAreRuns DEF EndedIn
<1>4. \A s \in Serial : actor'[s].pc \in InTheSlot =>
        actor[s].pc \in InTheSlot /\ CheckedOn(actor'[s]) = CheckedOn(actor[s])
  BY <1>1, SerialAreRuns
<1>5. QED
  BY <1>2, <1>3, <1>4, BudgetStays

LEMMA EndIsOnTime ==
  ASSUME NEW a, NEW c, OnTime(a, c), today \in Nat
  PROVE  OnTime(a, AtRest("end", c.charged, c.returned))
<1>1. AtRest("end", c.charged, c.returned).at = 0
  BY DEF AtRest
<1>2. QED
  BY <1>1, RestFields DEF OnTime

LEMMA EndInBudget ==
  ASSUME TypeOK, Budget, NEW a \in Actors, End(a), actor[a].pc # "end",
         doc' = doc, today' = today
  PROVE  Budget'
<1> DEFINE x == AtRest("end", actor[a].charged, actor[a].returned)
<1>1. OnTime(a, x)
  BY EndIsOnTime, DaysAreReal DEF Budget, Clocked, TypeOK
<1>2. x.pc = "end"
  BY RestFields
<1>3. actor' = [actor EXCEPT ![a] = x]
  BY DEF End
<1> HIDE DEF x
<1>4. QED
  BY <1>1, <1>2, <1>3, OneMovesInBudget DEF InTheSlot

\* The run takes the slot, nobody else is in it, and there is room.
LEMMA CheckInBudget ==
  ASSUME OneProcess, TypeOK, Books, Budget, NEW r \in Runs, Check(r)
  PROVE  Budget'
<1>1. /\ r \in Actors /\ actor[r].pc = "ready" /\ actor[r].charged = 0
      /\ doc' = doc /\ today' = today
  BY DEF Check, Actors, Books, Accounts, InOrder
<1> DEFINE used == UsedIn(doc.tokens, MonthOf(today))
           limit == TokenLimit[actor[r].plan]
<1>2. CASE End(r)
  BY <1>1, <1>2, EndInBudget
<1>3. CASE Call(r, "charge") /\ used + Estimate <= limit
  <2> DEFINE x == [actor[r] EXCEPT !.pc = "wait", !.op = "charge", !.at = today]
  <2>1. /\ x.pc = "wait" /\ x.op = "charge" /\ x.at = today /\ x.charged = 0
    BY <1>1 DEF TypeOK, Actor
  <2>2. actor' = [actor EXCEPT ![r] = x]
    BY <1>3 DEF Call
  <2> HIDE DEF x
  <2>3. \A b \in Actors : actor'[b] = IF b = r THEN x ELSE actor[b]
    BY <2>2 DEF TypeOK
  <2>4. /\ today \in Nat /\ MonthOf(today) \in Nat
        /\ doc.tokens.key \in Nat /\ doc.tokens.used \in Nat /\ Estimate \in Nat
    BY DaysAreReal, MonthIsNat, ConstantsAssumption DEF TypeOK, Doc, Counter
  <2>5. used \in Nat /\ used + Estimate <= Largest(TokenLimit) /\ Largest(TokenLimit) \in Nat
    <3>1. actor[r].plan \in Plans
      BY <1>1 DEF TypeOK, Actor
    <3>2. limit \in Nat /\ limit <= Largest(TokenLimit) /\ Largest(TokenLimit) \in Nat
      BY <3>1, LargestIsLargest, ConstantsAssumption
    <3>3. used \in Nat
      BY <2>4 DEF UsedIn
    <3>4. QED  BY <1>3, <2>4, <3>2, <3>3
  <2>6. Estimate <= Largest(TokenLimit)
    BY <2>4, <2>5
  <2>7. \A b \in Actors : OnTime(b, actor'[b])
    BY <1>1, <2>1, <2>3, <2>4, <2>6 DEF Budget, Clocked, OnTime
  <2>8. EndedIn(actor') = EndedIn(actor)
    BY <1>1, <2>1, <2>3, SerialAreRuns DEF EndedIn
  <2>9. Ceiling(actor') = Ceiling(actor)
    BY <2>8 DEF Ceiling
  <2>10. Clocked'
    BY <1>1, <2>7 DEF Budget, Clocked, OnTime, MonthOf
  <2>11. Room'
    <3>1. r \in Serial => \A s \in Serial : ~InSlot(s)
      BY <1>1, SerialAreRuns DEF Check, HasSlot, OneProcess
    <3>2. ASSUME NEW s \in Serial, NEW t \in Serial, InSlot(s)', InSlot(t)' PROVE s = t
      <4>1. \A u \in Serial : InSlot(u)' => u = r \/ InSlot(u)
        BY <2>3, SerialAreRuns DEF InSlot
      <4>2. QED  BY <3>1, <3>2, <4>1 DEF Budget, Room
    <3>3. ASSUME NEW s \in Serial, InSlot(s)'
          PROVE  \/ doc'.tokens.key < MonthOf(CheckedOn(actor'[s]))
                 \/ doc'.tokens.used + Estimate <= Ceiling(actor')
      <4>1. CASE s = r
        <5>1. CheckedOn(actor'[s]) = today
          BY <1>1, <2>1, <2>3, <4>1 DEF CheckedOn
        <5>2. doc.tokens.key <= MonthOf(today)
          BY DEF Budget, Clocked
        <5>3. CASE doc.tokens.key = MonthOf(today)
          <6>1. doc.tokens.used + Estimate <= Largest(TokenLimit)
            BY <2>5, <5>3 DEF UsedIn
          <6>2. QED  BY <1>1, <2>4, <2>5, <2>9, <6>1, CeilingIsNat
        <5>4. CASE doc.tokens.key # MonthOf(today)
          BY <1>1, <2>4, <5>1, <5>2, <5>4
        <5>5. QED  BY <5>3, <5>4
      <4>2. CASE s # r
        <5>1. InSlot(s) /\ actor'[s] = actor[s]
          BY <2>3, <3>3, <4>2, SerialAreRuns DEF InSlot
        <5>2. QED  BY <1>1, <2>9, <5>1 DEF Budget, Room
      <4>3. QED  BY <4>1, <4>2
    <3>4. QED  BY <3>2, <3>3 DEF Room, Ceiling, EndedIn, CheckedOn, MonthOf, Largest
  <2>12. doc'.tokens.used <= Ceiling(actor')
    BY <1>1, <2>9 DEF Budget
  <2>13. QED
    BY <2>10, <2>11, <2>12 DEF Budget, Ceiling, EndedIn, Largest
<1>4. QED
  BY <1>2, <1>3 DEF Check

LEMMA GenerateInBudget ==
  ASSUME TypeOK, Books, Budget, NEW r \in Runs, Generate(r)
  PROVE  Budget'
<1>1. /\ r \in Actors /\ actor[r].pc = "work" /\ actor[r].charged # 0
      /\ doc' = doc /\ today' = today
  BY DEF Generate, Actors, Books, Accounts, InOrder
<1>2. PICK op \in {"tokens", "refund"} : Call(r, op)
  BY DEF Generate
<1> DEFINE x == [actor[r] EXCEPT !.pc = "wait", !.op = op, !.at = today]
<1>3. x.pc = "wait" /\ x.op = op /\ x.at = today /\ x.charged = actor[r].charged
  BY <1>1 DEF TypeOK, Actor
<1>4. actor' = [actor EXCEPT ![r] = x]
  BY <1>2 DEF Call
<1> HIDE DEF x
<1>5. OnTime(r, x)
  BY <1>1, <1>3, DaysAreReal DEF Budget, Clocked, OnTime, TypeOK
<1>6. CheckedOn(x) = CheckedOn(actor[r])
  BY <1>1, <1>3 DEF CheckedOn
<1>7. QED
  BY <1>1, <1>4, <1>5, <1>6, OneMovesInBudget DEF InTheSlot

\* Tokens are counted.
LEMMA TokensInBudget ==
  ASSUME TypeOK, Kept, Books, Budget, NEW a \in Actors, Replace(a), actor[a].op = "tokens"
  PROVE  Budget'
<1> DEFINE c == actor[a]
           m == MonthOf(c.at)
<1>1. /\ c.pc = "held" /\ c.copy = doc /\ today' = today
      /\ a \in Runs /\ c.charged # 0 /\ c.charged <= c.at /\ c.at <= today
      /\ Estimate <= Largest(TokenLimit)
  BY DEF Replace, Kept, CopyIsFresh, Held, Budget, Clocked, OnTime
<1>2. /\ doc \in Doc /\ doc.tokens.key \in Nat /\ doc.tokens.used \in Nat /\ Estimate \in Nat
      /\ c.at \in Nat /\ c.charged \in Nat /\ today \in Nat
      /\ m \in Nat /\ MonthOf(c.charged) \in Nat /\ MonthOf(c.charged) <= m
      /\ m <= MonthOf(today)
  <2>1. /\ c.at \in Nat /\ c.charged \in Nat /\ today \in Nat /\ doc \in Doc
    BY DaysAreReal DEF TypeOK, Actor
  <2>2. QED
    BY <1>1, <2>1, MonthIsNat, MonthsGrow, ConstantsAssumption DEF Doc, Counter
<1>3. /\ \A b \in Actors \ {a} : actor'[b] = actor[b]
      /\ actor'[a].pc = "end" /\ actor'[a].charged = c.charged
  BY ReplaceMoves DEF After
<1>4. actor'[a].at = 0
  BY DEF Replace, TypeOK, AtRest
<1>5. doc'.tokens.key = m /\ doc'.tokens.used = UsedIn(doc.tokens, m) + Estimate
  <2>1. doc' = [doc EXCEPT !.tokens = Add(doc.tokens, m, Estimate)]
    BY <1>1 DEF Replace, Applied
  <2>2. QED  BY <1>2, <2>1 DEF Doc, Add
<1>6. Clocked'
  <2>1. OnTime(a, actor'[a])
    BY <1>1, <1>2, <1>3, <1>4 DEF OnTime
  <2>2. \A b \in Actors : OnTime(b, actor'[b])
    BY <1>3, <2>1 DEF Budget, Clocked
  <2>3. QED  BY <1>1, <1>2, <1>5, <2>2 DEF Clocked, OnTime, MonthOf
<1>7. /\ Ceiling(actor) \in Nat /\ Largest(TokenLimit) \in Nat
      /\ Largest(TokenLimit) <= Ceiling(actor) /\ Ceiling(actor') \in Nat
  BY CeilingIsNat
<1>8. \A s \in Serial : InSlot(s)' => s # a /\ InSlot(s) /\ actor'[s] = actor[s]
  BY <1>3, SerialAreRuns DEF InSlot
<1>9. CASE a \in Serial
  <2>1. InSlot(a) /\ CheckedOn(c) = c.charged
    BY <1>1, <1>9 DEF InSlot, CheckedOn
  <2>2. EndedIn(actor') = EndedIn(actor)
    BY <1>3, <1>9, SerialAreRuns DEF EndedIn
  <2>3. Ceiling(actor') = Ceiling(actor)
    BY <2>2 DEF Ceiling
  <2>4. doc'.tokens.used <= Ceiling(actor')
    <3>1. CASE doc.tokens.key = m
      <4>1. doc.tokens.used + Estimate <= Ceiling(actor)
        BY <1>2, <1>9, <2>1, <3>1 DEF Budget, Room
      <4>2. QED  BY <1>5, <2>3, <3>1, <4>1 DEF UsedIn
    <3>2. CASE doc.tokens.key # m
      BY <1>1, <1>2, <1>5, <1>7, <2>3, <3>2 DEF UsedIn
    <3>3. QED  BY <3>1, <3>2
  <2>5. \A s \in Serial : ~InSlot(s)'
    BY <1>8, <1>9, <2>1 DEF Budget, Room
  <2>6. Room'
    BY <2>5 DEF Room
  <2>7. QED  BY <1>6, <2>4, <2>6 DEF Budget, Ceiling, EndedIn, Largest
<1>10. CASE a \notin Serial
  <2>1. a \notin EndedIn(actor) /\ EndedIn(actor') = EndedIn(actor) \cup {a}
    BY <1>1, <1>3, <1>10, SerialAreRuns DEF EndedIn
  <2>2. Ceiling(actor') = Ceiling(actor) + Estimate
    BY <2>1, CeilingSteps
  <2>3. doc.tokens.used <= Ceiling(actor)
    BY DEF Budget
  <2>4. doc'.tokens.used <= Ceiling(actor')
    BY <1>2, <1>5, <1>7, <2>2, <2>3 DEF UsedIn
  <2>5. ASSUME NEW s \in Serial, InSlot(s)'
        PROVE  \/ doc'.tokens.key < MonthOf(CheckedOn(actor'[s]))
               \/ doc'.tokens.used + Estimate <= Ceiling(actor')
    <3>1. InSlot(s) /\ actor'[s] = actor[s]
      BY <1>8, <2>5
    <3>2. \/ doc.tokens.key < MonthOf(CheckedOn(actor[s]))
          \/ doc.tokens.used + Estimate <= Ceiling(actor)
      BY <3>1 DEF Budget, Room
    <3>3. CASE doc.tokens.key = m
      <4>1. doc'.tokens.used = doc.tokens.used + Estimate
        BY <1>5, <3>3 DEF UsedIn
      <4>2. QED  BY <1>2, <1>5, <1>7, <2>2, <3>1, <3>2, <3>3, <4>1
    <3>4. CASE doc.tokens.key # m
      <4>1. doc'.tokens.used = Estimate
        BY <1>2, <1>5, <3>4 DEF UsedIn
      <4>2. QED  BY <1>1, <1>2, <1>7, <2>2, <4>1
    <3>5. QED  BY <3>3, <3>4
  <2>6. \A s, t \in Serial : InSlot(s)' /\ InSlot(t)' => s = t
    BY <1>8 DEF Budget, Room
  <2>7. Room'
    BY <2>5, <2>6 DEF Room, Ceiling, EndedIn, CheckedOn, MonthOf, Largest
  <2>8. QED  BY <1>6, <2>4, <2>7 DEF Budget, Ceiling, EndedIn, Largest
<1>11. QED
  BY <1>9, <1>10

\* The other writes.
LEMMA OtherInBudget ==
  ASSUME TypeOK, Kept, Books, Budget, NEW a \in Actors, Replace(a), actor[a].op # "tokens"
  PROVE  Budget'
<1> DEFINE c == actor[a]
           ch == IF c.op = "charge" THEN c.at ELSE c.charged
           x == AtRest(After(a), ch, IF c.op = "refund" THEN c.at ELSE c.returned)
<1>1. /\ c.pc = "held" /\ c.copy = doc /\ today' = today /\ c.op \in Operations /\ doc \in Doc
      /\ InOrder(c) /\ OnTime(a, c)
  BY DEF Replace, Kept, CopyIsFresh, Held, Books, Accounts, Budget, Clocked, TypeOK, Actor
<1>2. doc'.tokens = doc.tokens
  <2>1. CASE c.op = "charge"
    BY <1>1, <2>1 DEF Replace, Applied, Doc
  <2>2. CASE c.op = "refund"
    BY <1>1, <2>2 DEF Replace, Applied, Doc
  <2>3. CASE c.op = "assign"
    BY <1>1, <2>3 DEF Replace, Applied, Doc
  <2>4. QED  BY <1>1, <2>1, <2>2, <2>3 DEF Operations
<1>3. actor' = [actor EXCEPT ![a] = x]
  BY DEF Replace
<1>4. x.pc = After(a) /\ x.charged = ch /\ x.at = 0
  BY RestFields DEF AtRest
<1> HIDE DEF x
<1>5. /\ After(a) \in {"work", "end"}
      /\ After(a) = "work" => c.op = "charge"
  BY DEF After
<1>6. OnTime(a, x)
  BY <1>1, <1>4, <1>5, DaysAreReal DEF OnTime, TypeOK
<1>7. x.pc \in InTheSlot => c.pc \in InTheSlot /\ CheckedOn(x) = CheckedOn(c)
  BY <1>1, <1>4, <1>5, DaysAreReal DEF InTheSlot, CheckedOn, InOrder
<1>8. QED
  BY <1>1, <1>2, <1>3, <1>6, <1>7, OneMovesInBudget

LEMMA InitBudget ==
  ASSUME Init PROVE Budget
<1>1. \A a \in Actors : /\ actor[a].pc = "idle" /\ actor[a].at = 0 /\ actor[a].charged = 0
  BY DEF Init, AtRest
<1>2. doc.tokens.key = 0 /\ doc.tokens.used = 0 /\ today = 1
  BY DEF Init, Unused
<1>3. MonthOf(today) \in Nat
  BY <1>2, MonthIsNat
<1>4. Clocked
  BY <1>1, <1>2, <1>3 DEF Clocked, OnTime
<1>5. Room
  BY <1>1, SerialAreRuns DEF Room, InSlot
<1>6. QED
  BY <1>2, <1>4, <1>5, CeilingIsNat DEF Budget

LEMMA CallStepInBudget ==
  ASSUME TypeOK, Kept, Books, Budget, NEW a \in Actors, CallStep(a)
  PROVE  Budget'
<1>1. CASE Read(a)
  <2> DEFINE x == [actor[a] EXCEPT !.pc = "held", !.copy = doc]
  <2>1. /\ x.pc = "held" /\ x.op = actor[a].op /\ x.at = actor[a].at
        /\ x.charged = actor[a].charged
    BY DEF TypeOK, Actor
  <2>2. /\ actor' = [actor EXCEPT ![a] = x] /\ actor[a].pc = "wait"
        /\ doc' = doc /\ today' = today
    BY <1>1 DEF Read
  <2> HIDE DEF x
  <2>3. OnTime(a, x)
    BY <2>1, <2>2 DEF Budget, Clocked, OnTime
  <2>4. CheckedOn(x) = CheckedOn(actor[a])
    BY <2>1 DEF CheckedOn
  <2>5. QED  BY <2>2, <2>3, <2>4, OneMovesInBudget DEF InTheSlot
<1>2. CASE Refuse(a)
  BY <1>2, EndInBudget DEF Refuse
<1>3. CASE Replace(a)
  BY <1>3, TokensInBudget, OtherInBudget
<1>4. CASE WriteFails(a)
  BY <1>4, EndInBudget DEF WriteFails
<1>5. QED
  BY <1>1, <1>2, <1>3, <1>4 DEF CallStep

LEMMA LoadInBudget ==
  ASSUME TypeOK, Books, Budget, NEW r \in Runs, Load(r)
  PROVE  Budget'
<1> DEFINE x == [actor[r] EXCEPT !.pc = "ready", !.plan = doc.plan]
<1>1. r \in Actors
  BY DEF Actors
<1>2. /\ x.pc = "ready" /\ x.op = actor[r].op /\ x.at = actor[r].at
      /\ x.charged = actor[r].charged
  BY <1>1 DEF TypeOK, Actor
<1>3. /\ actor' = [actor EXCEPT ![r] = x] /\ actor[r].pc = "idle"
      /\ doc' = doc /\ today' = today
  BY DEF Load
<1> HIDE DEF x
<1>4. OnTime(r, x)
  BY <1>1, <1>2, <1>3 DEF Budget, Clocked, OnTime
<1>5. QED
  BY <1>1, <1>2, <1>3, <1>4, OneMovesInBudget DEF InTheSlot

\* Those who are no runs never count tokens and never enter the slot.
LEMMA PublishInBudget ==
  ASSUME TypeOK, Books, Budget, NEW q \in Requests, Publish(q)
  PROVE  Budget'
<1> DEFINE x == [actor[q] EXCEPT !.pc = "wait", !.op = "charge", !.at = today,
                                 !.plan = doc.plan]
<1>1. q \in Actors /\ q \notin Runs /\ q \notin Serial
  BY ConstantsAssumption DEF Actors
<1>2. /\ x.pc = "wait" /\ x.op = "charge" /\ x.at = today /\ x.charged = actor[q].charged
  BY <1>1 DEF TypeOK, Actor
<1>3. /\ actor' = [actor EXCEPT ![q] = x] /\ actor[q].pc = "idle"
      /\ doc' = doc /\ today' = today /\ today \in Nat
  BY DaysAreReal DEF Publish, TypeOK
<1> HIDE DEF x
<1>4. OnTime(q, x)
  BY <1>1, <1>2, <1>3 DEF Budget, Clocked, OnTime
<1>5. QED
  BY <1>1, <1>2, <1>3, <1>4, OneMovesInBudget DEF InTheSlot

LEMMA PayInBudget ==
  ASSUME TypeOK, Books, Budget, NEW y \in Payments, Pay(y)
  PROVE  Budget'
<1>1. y \in Actors /\ y \notin Runs /\ y \notin Serial
  BY ConstantsAssumption DEF Actors
<1>2. PICK p \in Plans :
        actor' = [actor EXCEPT ![y] = [actor[y] EXCEPT !.pc = "wait", !.op = "assign",
                                                       !.plan = p]]
  BY DEF Pay
<1> DEFINE x == [actor[y] EXCEPT !.pc = "wait", !.op = "assign", !.plan = p]
<1>3. /\ x.pc = "wait" /\ x.op = "assign" /\ x.at = actor[y].at
      /\ x.charged = actor[y].charged
  BY <1>1 DEF TypeOK, Actor
<1>4. /\ actor' = [actor EXCEPT ![y] = x] /\ actor[y].pc = "idle"
      /\ doc' = doc /\ today' = today
  BY <1>2 DEF Pay
<1> HIDE DEF x
<1>5. OnTime(y, x)
  BY <1>1, <1>3, <1>4 DEF Budget, Clocked, OnTime
<1>6. QED
  BY <1>1, <1>3, <1>4, <1>5, OneMovesInBudget DEF InTheSlot

LEMMA CrashInBudget ==
  ASSUME TypeOK, Budget, NEW p \in Processes, Crash(p)
  PROVE  Budget'
<1>1. \A a \in Actors :
        \/ actor'[a] = actor[a]
        \/ /\ actor[a].pc # "end"
           /\ actor'[a] = AtRest("end", actor[a].charged, actor[a].returned)
  BY DEF Crash
<1>2. doc' = doc /\ today' = today /\ today \in Nat
  BY DaysAreReal DEF Crash, TypeOK
<1>3. \A a \in Actors : OnTime(a, actor'[a])
  <2>1. \A a \in Actors : OnTime(a, AtRest("end", actor[a].charged, actor[a].returned))
    BY <1>2, EndIsOnTime DEF Budget, Clocked
  <2>2. QED  BY <1>1, <2>1 DEF Budget, Clocked
<1>4. EndedIn(actor) \subseteq EndedIn(actor')
  BY <1>1, SerialAreRuns DEF EndedIn
<1>5. \A s \in Serial : actor'[s].pc \in InTheSlot => actor'[s] = actor[s]
  BY <1>1, RestFields, SerialAreRuns DEF InTheSlot
<1>6. QED
  BY <1>2, <1>3, <1>4, <1>5, BudgetStays

LEMMA MidnightInBudget ==
  ASSUME TypeOK, Budget, Midnight
  PROVE  Budget'
<1>1. /\ today \in Nat /\ today' = today + 1 /\ doc' = doc /\ actor' = actor
      /\ doc.tokens.key \in Nat
  BY DaysAreReal DEF TypeOK, Midnight, Doc, Counter
<1>2. \A a \in Actors : actor[a].charged \in Nat /\ actor[a].at \in Nat
  BY DEF TypeOK, Actor
<1>3. /\ MonthOf(today) \in Nat /\ MonthOf(today + 1) \in Nat
      /\ MonthOf(today) <= MonthOf(today + 1)
  BY <1>1, MonthIsNat, MonthsGrow
<1>4. Clocked'
  <2>1. doc'.tokens.key <= MonthOf(today + 1)
    BY <1>1, <1>3 DEF Budget, Clocked
  <2>2. \A a \in Actors : actor[a].charged <= today + 1 /\ actor[a].at <= today + 1
    BY <1>1, <1>2 DEF Budget, Clocked, OnTime
  <2>3. QED  BY <1>1, <2>1, <2>2 DEF Budget, Clocked, OnTime, MonthOf, Largest
<1>5. Room' /\ doc'.tokens.used <= Ceiling(actor')
  BY <1>1 DEF Budget, Room, InSlot, MonthOf, CheckedOn, Ceiling, EndedIn, Largest
<1>6. QED
  BY <1>4, <1>5 DEF Budget, Ceiling, EndedIn, Largest

LEMMA NextInBudget ==
  ASSUME OneProcess, TypeOK, Kept, Books, Budget, [Next]_vars
  PROVE  Budget'
<1>1. CASE UNCHANGED vars
  BY <1>1 DEF vars, Budget, Clocked, OnTime, Room, InSlot, MonthOf, CheckedOn, Ceiling,
              EndedIn, Largest
<1>2. ASSUME NEW a \in Actors, CallStep(a) PROVE Budget'
  BY <1>2, CallStepInBudget
<1>3. ASSUME NEW r \in Runs, RunStep(r) PROVE Budget'
  BY <1>3, LoadInBudget, CheckInBudget, GenerateInBudget DEF RunStep
<1>4. ASSUME NEW q \in Requests, Publish(q) PROVE Budget'
  BY <1>4, PublishInBudget
<1>5. ASSUME NEW y \in Payments, Pay(y) PROVE Budget'
  BY <1>5, PayInBudget
<1>6. ASSUME NEW p \in Processes, Crash(p) PROVE Budget'
  BY <1>6, CrashInBudget
<1>7. CASE Midnight
  BY <1>7, MidnightInBudget
<1>8. QED
  BY <1>1, <1>2, <1>3, <1>4, <1>5, <1>6, <1>7 DEF Next

\* In one process the tokens of a month stay within the largest plan's budget, but
\* for one estimate of each charged run without the slot, though the budget is
\* checked minutes before the tokens are counted.
THEOREM BudgetIsHeld ==
  ASSUME OneProcess PROVE Spec => []BudgetHolds
<1>1. Init => Kept /\ Books /\ Budget
  BY InitKept, InitBooks, InitBudget
<1>2. TypeOK /\ Kept /\ Books /\ Budget /\ [Next]_vars => Kept' /\ Books' /\ Budget'
  BY NextKeeps, NextBooks, NextInBudget
<1>3. TypeOK /\ Budget => BudgetHolds
  BY BudgetSuffices
<1>4. QED
  BY <1>1, <1>2, <1>3, TypeCorrect, PTL DEF Spec

=============================================================================
