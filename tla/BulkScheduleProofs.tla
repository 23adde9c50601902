-------------------------- MODULE BulkScheduleProofs --------------------------
(***************************************************************************)
(* Proofs that the cadences of BulkSchedule keep what the form promises,   *)
(* for every calendar, number of articles, choice of days and start.       *)
(***************************************************************************)
EXTENDS BulkSchedule, Integers, FiniteSetTheorems, WellFoundedInduction, TLAPS

-----------------------------------------------------------------------------
(* Least numbers, induction and recursion, on sets of numbers in the place *)
(* of predicates.                                                          *)

Smaller == OpToRel(<, Nat)

LEMMA SmallerPairs == Smaller = {p \in Nat \X Nat : p[1] < p[2]}
  BY DEF Smaller, OpToRel

LEMMA LeastNumber ==
  ASSUME NEW T \in SUBSET Nat, T # {}
  PROVE  \E x \in T : \A y \in T : x <= y
<1>1. IsWellFoundedOn(Smaller, Nat)
  BY NatLessThanWellFounded DEF Smaller
<1>2. PICK x \in T : \A y \in T : ~ (<<y, x>> \in Smaller)
  BY <1>1, WFMin
<1>3. ASSUME NEW y \in T, y < x PROVE FALSE
  <2>1. <<y, x>> \in Nat \X Nat
    OBVIOUS
  <2>2. QED
    BY <1>2, <1>3, <2>1, SmallerPairs
<1>4. QED
  BY <1>3

LEMMA FirstNumber ==
  ASSUME NEW n \in Nat, NEW T \in SUBSET (0..n), T # {}
  PROVE  \E k \in 0..n : k \in T /\ \A j \in 0..(k - 1) : j \in 0..n /\ j \notin T
<1>1. PICK k \in T : \A j \in T : k <= j
  <2>1. T \in SUBSET Nat
    OBVIOUS
  <2>2. QED
    BY <2>1, LeastNumber
<1>2. ASSUME NEW j \in 0..(k - 1) PROVE j \in 0..n /\ j \notin T
  <2>1. ~(k <= j)
    OBVIOUS
  <2>2. QED
    BY <1>1, <2>1
<1>3. QED
  BY <1>2

LEMMA Induction ==
  ASSUME NEW T \in SUBSET Nat, 0 \in T, \A n \in T : n + 1 \in T
  PROVE  T = Nat
<1>1. SUFFICES ASSUME Nat \ T # {} PROVE FALSE
  OBVIOUS
<1>2. PICK x \in Nat \ T : \A y \in Nat \ T : x <= y
  BY <1>1, LeastNumber
<1>3. x # 0 /\ x - 1 \in Nat
  OBVIOUS
<1>4. x - 1 \in T
  BY <1>2, <1>3
<1>5. QED
  BY <1>4

\* The function f starts at x0 and goes on as G says.
Follows(f, X, x0, G) ==
  /\ f \in [Nat -> X]
  /\ f[0] = x0
  /\ \A n \in Nat : f[n + 1] = G[<<n, f[n]>>]

FollowsUpTo(N, f, X, x0, G) ==
  /\ f \in [0..N -> X]
  /\ f[0] = x0
  /\ \A n \in 1..N : f[n] = G[<<n, f[n - 1]>>]

LEMMA Recursion ==
  ASSUME NEW X, NEW x0 \in X, NEW G \in [Nat \X X -> X]
  PROVE  \E f : Follows(f, X, x0, G)
<1> DEFINE Parts(n) == {g \in [0..n -> X] :
                          g[0] = x0 /\ \A i \in 0..(n - 1) : g[i + 1] = G[<<i, g[i]>>]}
           T == {n \in Nat : Parts(n) # {}}
<1>1. 0 \in T
  <2>1. [i \in 0..0 |-> x0] \in Parts(0)
    OBVIOUS
  <2>2. QED
    BY <2>1
<1>2. ASSUME NEW n \in T PROVE n + 1 \in T
  <2>1. PICK g \in [0..n -> X] : g[0] = x0 /\ \A i \in 0..(n - 1) : g[i + 1] = G[<<i, g[i]>>]
    OBVIOUS
  <2> DEFINE h == [i \in 0..(n + 1) |-> IF i <= n THEN g[i] ELSE G[<<n, g[n]>>]]
  <2>2. h \in [0..(n + 1) -> X]
    OBVIOUS
  <2>3. h[0] = x0
    BY <2>1
  <2>4. ASSUME NEW i \in 0..n PROVE h[i + 1] = G[<<i, h[i]>>]
    <3>1. CASE i = n
      <4>1. h[n + 1] = G[<<n, g[n]>>] /\ h[n] = g[n]
        OBVIOUS
      <4>2. QED
        BY <3>1, <4>1
    <3>2. CASE i < n
      <4>1. h[i + 1] = g[i + 1] /\ h[i] = g[i]
        BY <3>2
      <4>2. QED
        BY <2>1, <3>2, <4>1
    <3>3. QED
      BY <3>1, <3>2
  <2> HIDE DEF h
  <2>5. h \in Parts(n + 1)
    BY <2>2, <2>3, <2>4
  <2>6. QED
    BY <2>5
<1>3. T = Nat
  <2> HIDE DEF T
  <2>1. T \in SUBSET Nat
    BY DEF T
  <2>2. QED
    BY <1>1, <1>2, <2>1, Induction
<1>4. ASSUME NEW m \in Nat, NEW n \in Nat, NEW g \in Parts(m), NEW h \in Parts(n),
             m <= n
      PROVE  g[m] = h[m]
  <2> DEFINE U == {i \in Nat : i <= m => g[i] = h[i]}
  <2>1. 0 \in U
    OBVIOUS
  <2>2. ASSUME NEW i \in U PROVE i + 1 \in U
    <3>1. CASE i + 1 <= m
      <4>1. i \in 0..(m - 1) /\ i \in 0..(n - 1) /\ g[i] = h[i]
        BY <1>4, <3>1
      <4>2. g[i + 1] = G[<<i, g[i]>>] /\ h[i + 1] = G[<<i, h[i]>>]
        BY <4>1
      <4>3. QED
        BY <4>1, <4>2
    <3>2. QED
      BY <3>1
  <2>3. U \in SUBSET Nat
    OBVIOUS
  <2> HIDE DEF U
  <2>4. U = Nat
    BY <2>1, <2>2, <2>3, Induction
  <2>5. QED
    BY <2>4 DEF U
<1> DEFINE Part(n) == CHOOSE g : g \in Parts(n)
           f == [n \in Nat |-> Part(n)[n]]
<1> HIDE DEF Parts
<1>5. \A n \in Nat : Part(n) \in Parts(n)
  BY <1>3
<1> HIDE DEF Part
<1>6. ASSUME NEW n \in Nat
      PROVE  /\ f[n] \in X
             /\ f[0] = x0
             /\ f[n + 1] = G[<<n, f[n]>>]
  <2>1. Part(n)[n] = Part(n + 1)[n]
    BY <1>4, <1>5
  <2>2. Part(n)[n] \in X
    BY <1>5 DEF Parts
  <2>3. Part(0)[0] = x0
    BY <1>5 DEF Parts
  <2>4. Part(n + 1)[n + 1] = G[<<n, Part(n + 1)[n]>>]
    BY <1>5 DEF Parts
  <2>5. QED
    BY <2>1, <2>2, <2>3, <2>4
<1> HIDE DEF f
<1>7. f \in [Nat -> X]
  BY <1>6 DEF f
<1>8. Follows(f, X, x0, G)
  BY <1>6, <1>7 DEF Follows
<1>9. QED
  BY <1>8

LEMMA FiniteRecursion ==
  ASSUME NEW N \in Nat, NEW D, NEW d \in D, NEW F \in [(1..N) \X D -> D]
  PROVE  \E f : FollowsUpTo(N, f, D, d, F)
<1> DEFINE H == [p \in Nat \X D |-> IF p[1] + 1 \in 1..N THEN F[<<p[1] + 1, p[2]>>] ELSE p[2]]
<1>1. H \in [Nat \X D -> D]
  <2>1. ASSUME NEW p \in Nat \X D
        PROVE  (IF p[1] + 1 \in 1..N THEN F[<<p[1] + 1, p[2]>>] ELSE p[2]) \in D
    <3>1. PICK n \in Nat, x \in D : p = <<n, x>>
      OBVIOUS
    <3>2. n + 1 \in 1..N => <<n + 1, x>> \in (1..N) \X D
      OBVIOUS
    <3>3. QED
      BY <3>1, <3>2
  <2>2. QED
    BY <2>1
<1>2. \A n \in Nat, x \in D : n + 1 \in 1..N => H[<<n, x>>] = F[<<n + 1, x>>]
  OBVIOUS
<1> HIDE DEF H
<1>3. PICK h \in [Nat -> D] : h[0] = d /\ \A n \in Nat : h[n + 1] = H[<<n, h[n]>>]
  <2>1. \E h : Follows(h, D, d, H)
    BY <1>1, Recursion
  <2>2. QED
    BY <2>1 DEF Follows
<1> DEFINE f == [n \in 0..N |-> h[n]]
<1>4. ASSUME NEW n \in 1..N PROVE f[n] = F[<<n, f[n - 1]>>]
  <2>1. n - 1 \in Nat /\ (n - 1) + 1 = n /\ f[n] = h[n] /\ f[n - 1] = h[n - 1]
    OBVIOUS
  <2>2. h[n] = H[<<n - 1, h[n - 1]>>]
    BY <1>3, <2>1
  <2>3. H[<<n - 1, h[n - 1]>>] = F[<<n, h[n - 1]>>]
    BY <1>2, <2>1
  <2>4. QED
    BY <2>1, <2>2, <2>3
<1>5. f \in [0..N -> D] /\ f[0] = d
  BY <1>3
<1>6. FollowsUpTo(N, f, D, d, F)
  BY <1>4, <1>5 DEF FollowsUpTo
<1>7. QED
  BY <1>6

-----------------------------------------------------------------------------
(* The calendar.                                                           *)

Positive == Nat \ {0}

LEMMA LengthOfMonth ==
  ASSUME NEW m \in Positive PROVE MonthLength(m) \in 28..31
<1> DEFINE L == Len(MonthLengths)
<1>1. L \in Nat /\ L >= 1 /\ MonthLengths \in [1..L -> 28..31]
  BY ConstantsAssumption
<1>2. (m - 1) % L \in 0..(L - 1)
  BY <1>1 DEF Positive
<1>3. QED
  BY <1>1, <1>2 DEF MonthLength

LEMMA StartOfMonth ==
  /\ MonthStart \in [Positive -> Positive]
  /\ MonthStart[1] = 1
  /\ \A m \in Positive : MonthStart[m + 1] = MonthStart[m] + MonthLength(m)
<1> DEFINE G == [p \in Nat \X Positive |-> p[2] + MonthLength(p[1] + 1)]
           Body(f) == [m \in Positive |-> IF m = 1 THEN 1 ELSE f[m - 1] + MonthLength(m - 1)]
<1>1. G \in [Nat \X Positive -> Positive]
  BY LengthOfMonth DEF Positive
<1>2. \A n \in Nat, x \in Positive : G[<<n, x>>] = x + MonthLength(n + 1)
  OBVIOUS
<1> HIDE DEF G
<1>3. PICK h \in [Nat -> Positive] : h[0] = 1 /\ \A n \in Nat : h[n + 1] = G[<<n, h[n]>>]
  <2>1. 1 \in Positive
    BY DEF Positive
  <2>2. \E h : Follows(h, Positive, 1, G)
    BY <1>1, <2>1, Recursion
  <2>3. QED
    BY <2>2 DEF Follows
<1> DEFINE s == [m \in Positive |-> h[m - 1]]
<1>4. s = Body(s)
  <2>1. ASSUME NEW m \in Positive, m # 1 PROVE s[m] = s[m - 1] + MonthLength(m - 1)
    <3>1. m - 2 \in Nat /\ (m - 2) + 1 = m - 1 /\ m - 1 \in Positive
      BY <2>1 DEF Positive
    <3>2. s[m] = h[m - 1] /\ s[m - 1] = h[m - 2]
      BY <3>1
    <3>3. h[m - 1] = h[m - 2] + MonthLength(m - 1)
      BY <1>2, <1>3, <3>1
    <3>4. QED
      BY <3>2, <3>3
  <2>2. s[1] = 1
    BY <1>3 DEF Positive
  <2>3. QED
    BY <2>1, <2>2
<1>5. MonthStart = Body(MonthStart)
  BY <1>4 DEF MonthStart, Positive
<1>6. MonthStart[1] = 1 /\ \A m \in Positive : MonthStart[m + 1] = MonthStart[m] + MonthLength(m)
  <2>1. 1 \in Positive /\ \A m \in Positive : m + 1 \in Positive /\ m + 1 # 1 /\ (m + 1) - 1 = m
    BY DEF Positive
  <2>2. QED
    BY <1>5, <2>1
<1> DEFINE T == {n \in Nat : MonthStart[n + 1] \in Positive}
<1>7. T = Nat
  <2>1. 0 \in T
    BY <1>6 DEF Positive
  <2>2. ASSUME NEW n \in T PROVE n + 1 \in T
    <3>1. n + 1 \in Positive /\ MonthStart[n + 1] \in Positive
      BY DEF Positive
    <3>2. MonthLength(n + 1) \in 28..31
      BY <3>1, LengthOfMonth
    <3>3. MonthStart[(n + 1) + 1] = MonthStart[n + 1] + MonthLength(n + 1)
      BY <1>6, <3>1
    <3>4. QED
      BY <3>1, <3>2, <3>3 DEF Positive
  <2>3. T \in SUBSET Nat
    OBVIOUS
  <2> HIDE DEF T
  <2>4. QED
    BY <2>1, <2>2, <2>3, Induction
<1>8. ASSUME NEW m \in Positive PROVE MonthStart[m] \in Positive
  <2>1. m - 1 \in Nat /\ (m - 1) + 1 = m
    BY DEF Positive
  <2>2. \A n \in Nat : MonthStart[n + 1] \in Positive
    BY <1>7
  <2>3. QED
    BY <2>1, <2>2
<1>9. QED
  BY <1>5, <1>6, <1>8

LEMMA MonthsInOrder ==
  ASSUME NEW m \in Positive, NEW n \in Positive, m < n
  PROVE  MonthStart[m] + MonthLength(m) <= MonthStart[n]
<1> DEFINE T == {k \in Nat : MonthStart[m] + MonthLength(m) <= MonthStart[m + 1 + k]}
<1>1. 0 \in T
  BY StartOfMonth, LengthOfMonth DEF Positive
<1>2. ASSUME NEW k \in T PROVE k + 1 \in T
  <2>1. m + 1 + k \in Positive /\ m + 1 + (k + 1) = (m + 1 + k) + 1
    BY DEF Positive
  <2>2. /\ MonthStart[(m + 1 + k) + 1] = MonthStart[m + 1 + k] + MonthLength(m + 1 + k)
        /\ MonthStart[m + 1 + k] \in Nat /\ MonthStart[m] \in Nat
    BY <2>1, StartOfMonth DEF Positive
  <2>3. MonthLength(m + 1 + k) \in 28..31 /\ MonthLength(m) \in 28..31
    BY <2>1, LengthOfMonth
  <2>4. QED
    BY <2>1, <2>2, <2>3
<1>3. T \in SUBSET Nat
  OBVIOUS
<1> HIDE DEF T
<1>4. T = Nat
  BY <1>1, <1>2, <1>3, Induction
<1>5. n - m - 1 \in Nat /\ m + 1 + (n - m - 1) = n
  BY DEF Positive
<1>6. n - m - 1 \in T
  BY <1>4, <1>5
<1>7. QED
  BY <1>5, <1>6 DEF T

LEMMA MonthStartsLate ==
  ASSUME NEW m \in Positive PROVE MonthStart[m] >= m
<1>1. CASE m = 1
  BY <1>1, StartOfMonth
<1> DEFINE T == {k \in Nat : MonthStart[k + 1] >= k + 1}
<1>2. 0 \in T
  BY StartOfMonth
<1>3. ASSUME NEW k \in T PROVE k + 1 \in T
  <2>1. k + 1 \in Positive
    BY DEF Positive
  <2>2. MonthStart[(k + 1) + 1] = MonthStart[k + 1] + MonthLength(k + 1)
        /\ MonthStart[k + 1] \in Nat
    BY <2>1, StartOfMonth DEF Positive
  <2>3. MonthLength(k + 1) \in 28..31
    BY <2>1, LengthOfMonth
  <2>4. QED
    BY <2>2, <2>3
<1>4. T \in SUBSET Nat
  OBVIOUS
<1> HIDE DEF T
<1>5. T = Nat
  BY <1>2, <1>3, <1>4, Induction
<1>6. m - 1 \in T /\ (m - 1) + 1 = m
  BY <1>5 DEF Positive
<1>7. QED
  BY <1>6 DEF T

\* Every day is in one month.
LEMMA MonthOfDay ==
  ASSUME NEW day \in Positive
  PROVE  /\ MonthOf(day) \in Positive
         /\ MonthStart[MonthOf(day)] <= day
         /\ day < MonthStart[MonthOf(day) + 1]
<1> DEFINE T == {m \in Positive : day < MonthStart[m + 1]}
<1>1. day \in T
  BY MonthStartsLate, StartOfMonth DEF Positive
<1>2. T \in SUBSET Nat /\ T # {}
  BY <1>1 DEF Positive
<1>3. PICK m \in T : \A n \in T : m <= n
  <2> HIDE DEF T
  <2>1. QED
    BY <1>2, LeastNumber
<1>4. MonthStart[m] <= day
  <2>1. CASE m = 1
    BY <2>1, StartOfMonth DEF Positive
  <2>2. CASE m # 1
    <3>1. m - 1 \in Positive /\ (m - 1) + 1 = m /\ m - 1 \notin T
      BY <1>3, <2>2 DEF Positive
    <3>2. ~(day < MonthStart[m])
      BY <3>1
    <3>3. QED
      BY <3>2, StartOfMonth DEF Positive
  <2>3. QED
    BY <2>1, <2>2
<1>5. m \in 1..day
  <2>1. m <= day
    BY <1>1, <1>3
  <2>2. QED
    BY <2>1 DEF Positive
<1>6. \E k \in 1..day : MonthStart[k] <= day /\ day < MonthStart[k + 1]
  BY <1>4, <1>5
<1>7. MonthOf(day) \in 1..day
      /\ MonthStart[MonthOf(day)] <= day /\ day < MonthStart[MonthOf(day) + 1]
  BY <1>6 DEF MonthOf
<1>8. QED
  BY <1>7 DEF Positive

LEMMA OneMonth ==
  ASSUME NEW m \in Positive, NEW d \in 1..MonthLength(m)
  PROVE  /\ MonthStart[m] + d - 1 \in Positive
         /\ MonthOf(MonthStart[m] + d - 1) = m
<1> DEFINE day == MonthStart[m] + d - 1
           n   == MonthOf(day)
<1>1. MonthStart[m] \in Positive /\ MonthLength(m) \in 28..31
  BY StartOfMonth, LengthOfMonth
<1>2. day \in Positive
  BY <1>1 DEF Positive
<1>3. n \in Positive /\ MonthStart[n] <= day /\ day < MonthStart[n + 1]
  BY <1>2, MonthOfDay
<1>4. MonthStart[n + 1] = MonthStart[n] + MonthLength(n)
      /\ MonthStart[n] \in Nat /\ MonthLength(n) \in 28..31
  BY <1>3, StartOfMonth, LengthOfMonth DEF Positive
<1> HIDE DEF n
<1>5. ~(m < n)
  <2>1. SUFFICES ASSUME m < n PROVE FALSE
    OBVIOUS
  <2>2. MonthStart[m] + MonthLength(m) <= MonthStart[n]
    BY <1>3, <2>1, MonthsInOrder
  <2>3. QED
    BY <1>1, <1>3, <1>4, <2>2 DEF Positive
<1>6. ~(n < m)
  <2>1. SUFFICES ASSUME n < m PROVE FALSE
    OBVIOUS
  <2>2. MonthStart[n] + MonthLength(n) <= MonthStart[m]
    BY <1>3, <2>1, MonthsInOrder
  <2>3. QED
    BY <1>1, <1>3, <1>4, <2>2 DEF Positive
<1>7. n = m
  BY <1>3, <1>5, <1>6 DEF Positive
<1>8. QED
  BY <1>2, <1>7 DEF n

LEMMA MinOfTwo ==
  ASSUME NEW a \in Int, NEW b \in Int
  PROVE  Min({a, b}) = IF a <= b THEN a ELSE b
<1>1. \E x \in {a, b} : \A y \in {a, b} : x <= y
  OBVIOUS
<1>2. Min({a, b}) \in {a, b} /\ Min({a, b}) <= a /\ Min({a, b}) <= b
  BY <1>1 DEF Min
<1>3. QED
  BY <1>2

LEMMA MaxOfTwo ==
  ASSUME NEW a \in Int, NEW b \in Int
  PROVE  Max({a, b}) = IF a >= b THEN a ELSE b
<1>1. \E x \in {a, b} : \A y \in {a, b} : x >= y
  OBVIOUS
<1>2. Max({a, b}) \in {a, b} /\ Max({a, b}) >= a /\ Max({a, b}) >= b
  BY <1>1 DEF Max
<1>3. QED
  BY <1>2

\* A moment is a day and an hour.
LEMMA DayAndHour ==
  ASSUME NEW day \in Int, NEW hour \in 0..23
  PROVE  DayOf(24 * day + hour) = day /\ (24 * day + hour) % 24 = hour
  BY DEF DayOf

LEMMA MomentDay ==
  ASSUME NEW moment \in Moment
  PROVE  /\ DayOf(moment) \in Positive
         /\ moment % 24 \in 0..23
         /\ moment = 24 * DayOf(moment) + (moment % 24)
  BY DEF DayOf, Moment, Positive

LEMMA DayMoment ==
  ASSUME NEW day \in Positive, NEW hour \in 0..23
  PROVE  24 * day + hour \in Moment
  BY DEF Moment, Positive

LEMMA NextMonthIsLater ==
  ASSUME NEW moment \in Moment
  PROVE  NextMonth(moment) \in Moment /\ NextMonth(moment) > moment
<1> DEFINE day  == DayOf(moment)
           mo   == MonthOf(day)
           dom  == DayOfMonth(day)
           m    == IF dom <= MonthLength(mo + 1) THEN mo + 1 ELSE (mo + 1) + 1
           x    == Min({dom, MonthLength(m)})
           hour == moment % 24
<1>1. day \in Positive /\ hour \in 0..23 /\ moment = 24 * day + hour
  BY MomentDay
<1>2. mo \in Positive /\ MonthStart[mo] <= day /\ day < MonthStart[mo + 1]
  BY <1>1, MonthOfDay
<1>3. MonthStart[mo] \in Nat
  BY <1>2, StartOfMonth DEF Positive
<1>4. dom = day - MonthStart[mo] + 1
  BY DEF DayOfMonth
<1>5. NextMonth(moment) = 24 * (MonthStart[m] + x - 1) + hour
  BY DEF NextMonth
<1> HIDE DEF mo, dom
<1>6. dom \in Int /\ dom >= 1
  BY <1>1, <1>2, <1>3, <1>4 DEF Positive
<1>7. m \in Positive /\ mo < m
  BY <1>2 DEF Positive
<1> HIDE DEF m
<1>8. MonthLength(m) \in 28..31
  BY <1>7, LengthOfMonth
<1>9. x \in Int /\ x >= 1
  <2>1. x = IF dom <= MonthLength(m) THEN dom ELSE MonthLength(m)
    BY <1>6, <1>8, MinOfTwo
  <2>2. QED
    BY <1>6, <1>8, <2>1
<1>10. MonthStart[m] \in Int /\ MonthStart[m] > day
  <2>1. MonthStart[mo] + MonthLength(mo) <= MonthStart[m]
    BY <1>2, <1>7, MonthsInOrder
  <2>2. MonthStart[mo + 1] = MonthStart[mo] + MonthLength(mo) /\ MonthStart[m] \in Nat
    BY <1>2, <1>7, StartOfMonth DEF Positive
  <2>3. QED
    BY <1>1, <1>2, <1>3, <2>1, <2>2, LengthOfMonth DEF Positive
<1> DEFINE d == MonthStart[m] + x - 1
<1>11. d \in Int /\ d > day
  BY <1>1, <1>9, <1>10 DEF Positive
<1> HIDE DEF d, x
<1>12. d \in Positive
  BY <1>1, <1>11 DEF Positive
<1>13. 24 * d + hour \in Moment
  BY <1>1, <1>12, DayMoment
<1>14. 24 * d + hour > moment
  BY <1>1, <1>11 DEF Positive
<1>15. QED
  BY <1>5, <1>13, <1>14 DEF d

-----------------------------------------------------------------------------
(* The operators that choose.                                              *)

LEMMA NthOfSet ==
  ASSUME NEW S \in SUBSET Nat, IsFiniteSet(S), NEW n \in 1..Cardinality(S)
  PROVE  Nth(S, n) \in S /\ Cardinality({y \in S : y < Nth(S, n)}) = n - 1
<1> DEFINE Below(x) == {y \in S : y < x}
           T == {k \in Nat : k < Cardinality(S) => \E x \in S : Cardinality(Below(x)) = k}
<1>1. \A x : IsFiniteSet(Below(x))
  BY FS_Subset
<1>2. Cardinality(S) \in Nat
  BY FS_CardinalityType
<1>3. 0 \in T
  <2>1. CASE S = {}
    BY <2>1, FS_EmptySet
  <2>2. CASE S # {}
    <3>1. PICK x \in S : \A y \in S : x <= y
      BY <2>2, LeastNumber
    <3>2. Below(x) = {}
      <4>1. ASSUME NEW y \in S PROVE ~(y < x)
        <5>1. x \in Nat /\ y \in Nat /\ x <= y
          BY <3>1
        <5>2. QED
          BY <5>1
      <4>2. QED
        BY <4>1
    <3>3. Cardinality(Below(x)) = 0
      BY <3>2, FS_EmptySet
    <3>4. QED
      BY <3>3
  <2>3. QED
    BY <2>1, <2>2
<1>4. ASSUME NEW k \in T PROVE k + 1 \in T
  <2>1. SUFFICES ASSUME k + 1 < Cardinality(S)
                 PROVE  \E x \in S : Cardinality(Below(x)) = k + 1
    OBVIOUS
  <2>2. PICK x \in S : Cardinality(Below(x)) = k
    BY <1>2, <2>1
  <2> DEFINE B == Below(x) \cup {x}
  <2>3. IsFiniteSet(B) /\ Cardinality(B) = k + 1
    <3>1. x \notin Below(x) /\ IsFiniteSet(Below(x))
      BY <1>1
    <3> HIDE DEF Below
    <3>2. QED
      BY <2>2, <3>1, FS_AddElement
  <2>4. {y \in S : x < y} # {}
    <3>1. SUFFICES ASSUME {y \in S : x < y} = {} PROVE FALSE
      OBVIOUS
    <3>2. S = B
      <4>1. \A y \in S : y \in B
        <5>1. ASSUME NEW y \in S PROVE y < x \/ y = x
          BY <3>1
        <5>2. QED
          BY <5>1
      <4>2. QED
        BY <4>1
    <3> HIDE DEF B
    <3>3. QED
      BY <2>1, <2>3, <3>2
  <2>5. PICK z \in {y \in S : x < y} : \A y \in {y \in S : x < y} : z <= y
    <3> DEFINE U == {y \in S : x < y}
    <3>1. U \in SUBSET Nat /\ U # {}
      BY <2>4
    <3> HIDE DEF U
    <3>2. \E z \in U : \A y \in U : z <= y
      BY <3>1, LeastNumber
    <3>3. QED
      BY <3>2 DEF U
  <2>6. Below(z) = B
    <3>1. ASSUME NEW y \in S PROVE y < z <=> y < x \/ y = x
      <4>1. z \in S /\ x < z /\ (x < y => z <= y)
        BY <2>5
      <4>2. QED
        BY <4>1
    <3>2. QED
      BY <3>1
  <2>7. QED
    BY <2>3, <2>5, <2>6
<1>5. T \in SUBSET Nat
  OBVIOUS
<1> HIDE DEF T
<1>6. T = Nat
  BY <1>3, <1>4, <1>5, Induction
<1>7. n - 1 \in T /\ n - 1 < Cardinality(S)
  BY <1>2, <1>6
<1>8. \E x \in S : Cardinality(Below(x)) = n - 1
  BY <1>7 DEF T
<1>9. QED
  BY <1>8 DEF Nth

LEMMA ModSeven ==
  ASSUME NEW x \in Nat, NEW w \in 1..7
  PROVE  \E k \in 1..7 : ((x + k) % 7) + 1 = w
<1>1. x % 7 \in 0..6 /\ x = 7 * (x \div 7) + (x % 7) /\ x \div 7 \in Nat
  OBVIOUS
<1>2. ASSUME NEW r \in 0..6, NEW q \in Nat PROVE (7 * q + r) % 7 = r
  BY <1>2
<1> DEFINE k == IF w - 1 > x % 7 THEN w - 1 - (x % 7) ELSE w + 6 - (x % 7)
<1>3. k \in 1..7
  BY <1>1
<1>4. (x + k) % 7 = w - 1
  <2>1. CASE w - 1 > x % 7
    BY <1>1, <2>1
  <2>2. CASE ~(w - 1 > x % 7)
    BY <1>1, <2>2
  <2>3. QED
    BY <2>1, <2>2
<1>5. QED
  BY <1>3, <1>4

-----------------------------------------------------------------------------
(* Sequences that grow by one element that depends on those before it.     *)

Before(s, n) == [j \in 1..(n - 1) |-> s[j]]

Grows(N, s, X, E) ==
  /\ s \in [1..N -> X]
  /\ \A n \in 1..N : s[n] = E[<<n, Before(s, n)>>]

Growing(N, S, X, E) ==
  /\ S[0] = <<>>
  /\ \A n \in 1..N : S[n - 1] \in Seq(X) => S[n] = Append(S[n - 1], E[<<n, S[n - 1]>>])

LEMMA BeforeIsSeq ==
  ASSUME NEW X, NEW N \in Nat, NEW s \in [1..N -> X], NEW n \in 1..N
  PROVE  /\ Before(s, n) \in Seq(X) /\ Len(Before(s, n)) = n - 1
         /\ \A j \in 1..(n - 1) : Before(s, n)[j] = s[j]
  BY DEF Before

LEMMA BeforeFacts ==
  ASSUME NEW s, NEW n \in Nat \ {0}
  PROVE  /\ Len(Before(s, n)) = n - 1
         /\ \A j \in 1..(n - 1) : Before(s, n)[j] = s[j]
  BY DEF Before

LEMMA GrowthExists ==
  ASSUME NEW N \in Nat, NEW X, NEW E \in [(1..N) \X Seq(X) -> X]
  PROVE  \E S : S \in [0..N -> Seq(X)] /\ Growing(N, S, X, E)
<1> DEFINE F == [p \in (1..N) \X Seq(X) |-> Append(p[2], E[p])]
<1>1. F \in [(1..N) \X Seq(X) -> Seq(X)]
  <2>1. ASSUME NEW p \in (1..N) \X Seq(X) PROVE Append(p[2], E[p]) \in Seq(X)
    <3>1. p[2] \in Seq(X) /\ E[p] \in X
      OBVIOUS
    <3>2. QED
      BY <3>1
  <2>2. QED
    BY <2>1
<1>2. \A n \in 1..N, s \in Seq(X) : F[<<n, s>>] = Append(s, E[<<n, s>>])
  <2>1. ASSUME NEW n \in 1..N, NEW s \in Seq(X) PROVE F[<<n, s>>] = Append(s, E[<<n, s>>])
    <3>1. <<n, s>> \in (1..N) \X Seq(X) /\ <<n, s>>[2] = s
      OBVIOUS
    <3>2. QED
      BY <3>1
  <2>2. QED
    BY <2>1
<1> HIDE DEF F
<1>3. <<>> \in Seq(X)
  OBVIOUS
<1>4. PICK S : FollowsUpTo(N, S, Seq(X), <<>>, F)
  BY <1>1, <1>3, FiniteRecursion
<1>5. S \in [0..N -> Seq(X)] /\ S[0] = <<>>
  BY <1>4 DEF FollowsUpTo
<1>6. ASSUME NEW n \in 1..N PROVE S[n] = Append(S[n - 1], E[<<n, S[n - 1]>>])
  <2>1. S[n] = F[<<n, S[n - 1]>>]
    BY <1>4 DEF FollowsUpTo
  <2>2. n - 1 \in 0..N /\ S[n - 1] \in Seq(X)
    BY <1>5
  <2>3. QED
    BY <1>2, <2>1, <2>2
<1>7. QED
  BY <1>5, <1>6 DEF Growing

LEMMA Growth ==
  ASSUME NEW N \in Nat, NEW X, NEW E \in [(1..N) \X Seq(X) -> X], NEW S, Growing(N, S, X, E)
  PROVE  Grows(N, S[N], X, E)
<1> DEFINE T == {n \in Nat : n <= N => /\ S[n] \in Seq(X)
                                       /\ Len(S[n]) = n
                                       /\ \A j \in 1..n : S[n][j] = E[<<j, S[j - 1]>>]}
<1>1. 0 \in T
  <2>1. S[0] = <<>>
    BY DEF Growing
  <2>2. <<>> \in Seq(X) /\ Len(<<>>) = 0
    OBVIOUS
  <2>3. S[0] \in Seq(X) /\ Len(S[0]) = 0
    BY <2>1, <2>2
  <2>4. QED
    BY <2>3
<1>2. ASSUME NEW n \in T PROVE n + 1 \in T
  <2>1. SUFFICES ASSUME n + 1 <= N
        PROVE  /\ S[n + 1] \in Seq(X)
               /\ Len(S[n + 1]) = n + 1
               /\ \A j \in 1..(n + 1) : S[n + 1][j] = E[<<j, S[j - 1]>>]
    OBVIOUS
  <2>2. n \in Nat /\ S[n] \in Seq(X) /\ Len(S[n]) = n
        /\ \A j \in 1..n : S[n][j] = E[<<j, S[j - 1]>>]
    BY <2>1
  <2> DEFINE e == E[<<n + 1, S[n]>>]
  <2>3. n + 1 \in 1..N /\ (n + 1) - 1 = n
    BY <2>1, <2>2
  <2>4. S[n + 1] = Append(S[n], e)
    BY <2>2, <2>3 DEF Growing
  <2>5. e \in X
    BY <2>2, <2>3
  <2> HIDE DEF T, e
  <2>6. S[n + 1] \in Seq(X) /\ Len(S[n + 1]) = n + 1 /\ S[n + 1][n + 1] = e
    BY <2>2, <2>4, <2>5
  <2>7. ASSUME NEW j \in 1..n PROVE S[n + 1][j] = E[<<j, S[j - 1]>>]
    <3>1. S[n + 1][j] = S[n][j]
      BY <2>2, <2>4, <2>5
    <3>2. QED
      BY <2>2, <3>1
  <2>8. S[n + 1][n + 1] = E[<<n + 1, S[(n + 1) - 1]>>]
    BY <2>3, <2>6 DEF e
  <2>9. \A j \in 1..(n + 1) : j \in 1..n \/ j = n + 1
    BY <2>2
  <2>10. QED
    BY <2>6, <2>7, <2>8, <2>9
<1>3. T \in SUBSET Nat
  OBVIOUS
<1> HIDE DEF T
<1>4. T = Nat
  BY <1>1, <1>2, <1>3, Induction
<1>5. \A n \in 0..N : /\ S[n] \in Seq(X)
                      /\ Len(S[n]) = n
                      /\ \A j \in 1..n : S[n][j] = E[<<j, S[j - 1]>>]
  BY <1>4 DEF T
<1>6. S[N] \in [1..N -> X]
  BY <1>5
<1>7. ASSUME NEW n \in 1..N PROVE S[N][n] = E[<<n, Before(S[N], n)>>]
  <2>1. n - 1 \in 0..N /\ N \in 0..N
    OBVIOUS
  <2>2. S[n - 1] \in [1..(n - 1) -> X]
    BY <1>5, <2>1
  <2>3. ASSUME NEW j \in 1..(n - 1) PROVE S[n - 1][j] = S[N][j]
    <3>1. j \in 1..N
      OBVIOUS
    <3>2. S[n - 1][j] = E[<<j, S[j - 1]>>] /\ S[N][j] = E[<<j, S[j - 1]>>]
      BY <1>5, <2>1, <3>1
    <3>3. QED
      BY <3>2
  <2>4. S[n - 1] = Before(S[N], n)
    BY <2>2, <2>3 DEF Before
  <2>5. QED
    BY <1>5, <2>1, <2>4
<1>8. QED
  BY <1>6, <1>7 DEF Grows

-----------------------------------------------------------------------------
(* The form and its anchor.                                                *)

CadenceForms == {f \in Form : f.mode \in {"weekly", "monthly"} /\ f.per <= f.count}

LEMMA FormFacts ==
  ASSUME NEW f \in CadenceForms
  PROVE  /\ f.count \in Positive /\ f.per \in Positive /\ f.per <= f.count
         /\ f.pref \in 0..23
         /\ f.days \in SUBSET (1..7) /\ f.days # {}
         /\ IsFiniteSet(f.days) /\ Cardinality(f.days) \in Positive
         /\ Min({f.per, f.count}) = f.per
<1>1. /\ f.count \in Positive /\ f.per \in Positive /\ f.per <= f.count
      /\ f.pref \in 0..23 /\ f.days \in SUBSET (1..7) /\ f.days # {}
  <2>1. f \in Form /\ f.per <= f.count
    BY DEF CadenceForms
  <2>2. /\ f.count \in Nat \ {0} /\ f.per \in Nat \ {0}
        /\ f.pref \in 0..23 /\ f.days \in (SUBSET (1..7)) \ {{}}
    BY <2>1 DEF Form
  <2>3. QED
    BY <2>1, <2>2 DEF Positive
<1>2. IsFiniteSet(f.days)
  <2>1. IsFiniteSet(1..7)
    <3>1. 1 \in Int /\ 7 \in Int
      OBVIOUS
    <3>2. QED
      BY <3>1, FS_Interval, Zenon
  <2>2. f.days \in SUBSET (1..7)
    BY <1>1
  <2>3. QED
    BY <2>1, <2>2, FS_Subset
<1>3. Cardinality(f.days) \in Positive
  BY <1>1, <1>2, FS_CardinalityType, FS_EmptySet DEF Positive
<1>4. Min({f.per, f.count}) = f.per
  BY <1>1, MinOfTwo DEF Positive
<1>5. QED
  BY <1>1, <1>2, <1>3, <1>4

LEMMA NumberOfPosts ==
  ASSUME NEW f \in CadenceForms
  PROVE  f.count \in Nat /\ \A i \in 1..f.count : i \in Positive /\ 1..i \subseteq 1..f.count
<1>1. f.count \in Positive
  BY FormFacts
<1>2. QED
  BY <1>1 DEF Positive

LEMMA FromIsMoment ==
  ASSUME NEW f \in CadenceForms
  PROVE  From(f) \in Moment
<1>1. f.start \in Nat /\ f.min \in Moment
  <2>1. f \in Form
    BY DEF CadenceForms
  <2>2. f.start \in StartDays \cup {0} /\ f.min \in Moment
    BY <2>1 DEF Form
  <2>3. StartDays \subseteq Nat
    BY ConstantsAssumption
  <2>4. \A d \in StartDays \cup {0} : d \in Nat
    BY <2>3
  <2>5. QED
    BY <2>2, <2>4
<1>2. From(f) = IF 24 * f.start >= f.min THEN 24 * f.start ELSE f.min
  BY <1>1, MaxOfTwo DEF From, Moment
<1>3. QED
  BY <1>1, <1>2 DEF Moment

\* The weekday of a day, over and over.
LEMMA WeekdayFacts ==
  ASSUME NEW day \in Nat
  PROVE  Weekday(day) \in 1..7
  BY ConstantsAssumption DEF Weekday

LEMMA AnchorDay ==
  ASSUME NEW f \in CadenceForms, NEW from \in Moment
  PROVE  /\ Anchor(f, from) \in Positive
         /\ Anchor(f, from) >= DayOf(from)
         /\ Weekday(Anchor(f, from)) \in f.days
         /\ 24 * Anchor(f, from) + f.pref >= from
<1> DEFINE today == DayOf(from)
           P(k)  == Weekday(today + k) \in f.days /\ 24 * (today + k) + f.pref >= from
           T     == {k \in 0..7 : P(k)}
           k0    == CHOOSE k \in 0..7 : P(k) /\ \A j \in 0..(k - 1) : ~P(j)
<1>1. today \in Positive /\ from % 24 \in 0..23 /\ from = 24 * today + (from % 24)
  BY MomentDay
<1>2. f.pref \in 0..23 /\ f.days \in SUBSET (1..7) /\ f.days # {}
  BY FormFacts
<1>3. T # {}
  <2>1. PICK w \in f.days : TRUE
    BY <1>2
  <2>2. FirstWeekday + today + 5 \in Nat /\ w \in 1..7
    BY <1>1, <1>2, ConstantsAssumption DEF Positive
  <2>3. PICK k \in 1..7 : ((FirstWeekday + today + 5 + k) % 7) + 1 = w
    BY <2>2, ModSeven
  <2>4. FirstWeekday + (today + k) + 5 = FirstWeekday + today + 5 + k
    BY <1>1, ConstantsAssumption DEF Positive
  <2>5. Weekday(today + k) = w
    BY <2>3, <2>4 DEF Weekday
  <2>6. 24 * (today + k) + f.pref >= from
    BY <1>1, <1>2 DEF Positive
  <2>7. QED
    BY <2>5, <2>6
<1>4. \E k \in 0..7 : P(k) /\ \A j \in 0..(k - 1) : ~P(j)
  <2>1. T \in SUBSET Nat
    OBVIOUS
  <2> HIDE DEF T
  <2>2. PICK k \in T : \A j \in T : k <= j
    BY <1>3, <2>1, LeastNumber
  <2> HIDE DEF P
  <2>3. k \in 0..7 /\ P(k)
    BY <2>2 DEF T
  <2>4. ASSUME NEW j \in 0..(k - 1) PROVE ~P(j)
    <3>1. j \in 0..7 /\ ~(k <= j)
      BY <2>3
    <3>2. QED
      BY <2>2, <3>1 DEF T
  <2>5. QED
    BY <2>3, <2>4
<1>5. k0 \in 0..7 /\ P(k0)
  BY <1>4
<1>6. Anchor(f, from) = today + k0
  BY DEF Anchor, Least
<1> HIDE DEF k0
<1>7. QED
  BY <1>1, <1>2, <1>5, <1>6 DEF Positive

-----------------------------------------------------------------------------
(* The slots.                                                              *)

Slot(f) == [period : Nat, dow : f.days, nth : 0..1]

\* What article i asks for: its turn, its day as one of the ticked days, from 0,
\* and the first period in which it may go out.
Turn(f, i)      == (i - 1) % f.per
DayIndex(f, i)  == Turn(f, i) % Cardinality(f.days)
FirstPeriod(f, i) == ((i - 1) \div f.per) + (Turn(f, i) \div Cardinality(f.days))
PostingDay(f, e) == Nth(f.days, e + 1)

LEMMA Division ==
  ASSUME NEW n \in Nat, NEW d \in Positive
  PROVE  /\ n % d \in 0..(d - 1) /\ n \div d \in Nat
         /\ n = d * (n \div d) + (n % d)
  BY DEF Positive

LEMMA TurnFacts ==
  ASSUME NEW f \in CadenceForms, NEW i \in Positive
  PROVE  /\ Turn(f, i) \in 0..(f.per - 1)
         /\ DayIndex(f, i) \in 0..(Cardinality(f.days) - 1)
         /\ DayIndex(f, i) <= Turn(f, i)
         /\ FirstPeriod(f, i) \in Nat
         /\ (i - 1) \div f.per \in Nat
         /\ Turn(f, i) \div Cardinality(f.days) \in Nat
         /\ i - 1 = f.per * ((i - 1) \div f.per) + Turn(f, i)
         /\ Turn(f, i) = Cardinality(f.days) * (Turn(f, i) \div Cardinality(f.days)) + DayIndex(f, i)
<1> DEFINE D == Cardinality(f.days)
           t == Turn(f, i)
           q == (i - 1) \div f.per
           r == t \div D
           e == DayIndex(f, i)
<1>1. f.per \in Positive /\ D \in Positive /\ i - 1 \in Nat
  <2>1. i - 1 \in Nat
    BY DEF Positive
  <2>2. QED
    BY <2>1, FormFacts
<1> HIDE DEF D
<1>2. t \in 0..(f.per - 1) /\ q \in Nat /\ i - 1 = f.per * q + t
  BY <1>1, Division DEF Turn
<1>3. t \in Nat
  BY <1>1, <1>2 DEF Positive
<1> HIDE DEF t, q
<1>4. t % D \in 0..(D - 1) /\ r \in Nat /\ t = D * r + (t % D)
  BY <1>1, <1>3, Division
<1>5. e = t % D
  BY DEF DayIndex, D, t
<1>6. D * r \in Nat
  BY <1>1, <1>4 DEF Positive
<1> HIDE DEF r, e
<1>7. e <= t
  BY <1>3, <1>4, <1>5, <1>6
<1>8. FirstPeriod(f, i) = q + r
  BY DEF FirstPeriod, q, r, t, D
<1>9. QED
  BY <1>2, <1>4, <1>5, <1>7, <1>8 DEF q, r, t, D, e

LEMMA PostingDays ==
  ASSUME NEW f \in CadenceForms, NEW e \in 0..(Cardinality(f.days) - 1)
  PROVE  /\ PostingDay(f, e) \in f.days
         /\ Cardinality({y \in f.days : y < PostingDay(f, e)}) = e
<1>1. f.days \in SUBSET Nat /\ IsFiniteSet(f.days) /\ Cardinality(f.days) \in Nat
  <2>1. /\ f.days \in SUBSET (1..7)
        /\ IsFiniteSet(f.days) /\ Cardinality(f.days) \in Positive
    BY FormFacts
  <2>2. QED
    BY <2>1 DEF Positive
<1>2. e + 1 \in 1..Cardinality(f.days) /\ (e + 1) - 1 = e
  BY <1>1
<1>3. QED
  BY <1>1, <1>2, NthOfSet DEF PostingDay

LEMMA PostsOfADay ==
  ASSUME NEW f \in CadenceForms, NEW slots \in Seq(Slot(f)), NEW p, NEW w
  PROVE  /\ OnDay(slots, p, w) \subseteq 1..Len(slots)
         /\ IsFiniteSet(OnDay(slots, p, w))
         /\ Used(slots, p, w) \in Nat
         /\ Used(slots, p, w) = 0 <=> OnDay(slots, p, w) = {}
<1>1. OnDay(slots, p, w) \subseteq 1..Len(slots)
  BY DEF OnDay
<1>2. IsFiniteSet(1..Len(slots))
  <2>1. 1 \in Int /\ Len(slots) \in Int
    OBVIOUS
  <2>2. QED
    BY <2>1, FS_Interval, Zenon
<1>3. IsFiniteSet(OnDay(slots, p, w))
  <2>1. OnDay(slots, p, w) \in SUBSET (1..Len(slots))
    BY <1>1
  <2>2. QED
    BY <1>2, <2>1, FS_Subset
<1>4. Cardinality(OnDay(slots, p, w)) \in Nat
  BY <1>3, FS_CardinalityType
<1>5. Cardinality(OnDay(slots, p, w)) = 0 <=> OnDay(slots, p, w) = {}
  BY <1>3, FS_EmptySet
<1>6. QED
  BY <1>1, <1>3, <1>4, <1>5 DEF Used

LEMMA TooFewPlaces ==
  ASSUME NEW n \in Nat, NEW g \in [0..n -> 1..n]
  PROVE  \E x \in 0..n, y \in 0..n : x # y /\ g[x] = g[y]
<1>1. /\ IsFiniteSet(0..n) /\ Cardinality(0..n) = n + 1
      /\ IsFiniteSet(1..n) /\ Cardinality(1..n) = n
  <2>1. 0 \in Int /\ 1 \in Int /\ n \in Int
    OBVIOUS
  <2>2. /\ IsFiniteSet(0..n) /\ Cardinality(0..n) = IF 0 > n THEN 0 ELSE n - 0 + 1
        /\ IsFiniteSet(1..n) /\ Cardinality(1..n) = IF 1 > n THEN 0 ELSE n - 1 + 1
    BY <2>1, FS_Interval, Zenon
  <2>3. QED
    BY <2>2
<1>2. Cardinality(1..n) < Cardinality(0..n)
  BY <1>1
<1>3. QED
  BY <1>1, <1>2, FS_PigeonHole

\* Among the periods from any first one, one in reach has room on the day.
LEMMA RoomOnADay ==
  ASSUME NEW f \in CadenceForms, NEW slots \in Seq(Slot(f)), NEW first \in Nat, NEW w
  PROVE  \E k \in 0..Len(slots) : Used(slots, first + k, w) < MaxPostsADay
<1> DEFINE n == Len(slots)
           g == [k \in 0..n |-> CHOOSE i \in 1..n : slots[i].period = first + k]
<1>1. SUFFICES ASSUME \A k \in 0..n : ~(Used(slots, first + k, w) < MaxPostsADay)
               PROVE  FALSE
  OBVIOUS
<1>2. n \in Nat
  OBVIOUS
<1>3. ASSUME NEW k \in 0..n
      PROVE  g[k] \in 1..n /\ slots[g[k]].period = first + k
  <2>1. Used(slots, first + k, w) # 0
    BY <1>1, <1>3 DEF MaxPostsADay
  <2>2. OnDay(slots, first + k, w) # {}
    BY <2>1, PostsOfADay
  <2>3. \E i \in 1..n : slots[i].period = first + k
    BY <2>2 DEF OnDay
  <2>4. QED
    BY <2>3
<1>4. g \in [0..n -> 1..n]
  BY <1>3
<1> HIDE DEF g
<1>5. PICK x \in 0..n, y \in 0..n : x # y /\ g[x] = g[y]
  BY <1>2, <1>4, TooFewPlaces
<1>6. first + x = first + y
  BY <1>3, <1>5
<1>7. QED
  BY <1>5, <1>6

LEMMA NextSlotIs ==
  ASSUME NEW f \in CadenceForms, NEW slots \in Seq(Slot(f)), NEW i \in Positive,
         Len(slots) = i - 1
  PROVE  LET s == NextSlot(f, slots)
         IN  /\ s \in Slot(f)
             /\ s.dow = PostingDay(f, DayIndex(f, i))
             /\ s.nth = Used(slots, s.period, s.dow)
             /\ Used(slots, FirstPeriod(f, i), s.dow) = 0 => s.period = FirstPeriod(f, i)
<1> DEFINE n     == Len(slots)
           w     == PostingDay(f, DayIndex(f, i))
           first == FirstPeriod(f, i)
           P(k)  == Used(slots, first + k, w) < MaxPostsADay
           k0    == CHOOSE k \in 0..n : P(k) /\ \A j \in 0..(k - 1) : ~P(j)
           s     == [period |-> first + k0, dow |-> w, nth |-> Used(slots, first + k0, w)]
<1>1. w \in f.days
  BY TurnFacts, PostingDays
<1>2. first \in Nat
  BY TurnFacts
<1>3. n \in Nat
  OBVIOUS
<1>4. NextSlot(f, slots) = s
  <2>1. Min({f.per, f.count}) = f.per
    BY FormFacts
  <2>2. QED
    BY <2>1 DEF NextSlot, PostingDay, DayIndex, FirstPeriod, Turn, Least
<1> HIDE DEF w, first
<1>5. \E k \in 0..n : P(k) /\ \A j \in 0..(k - 1) : ~P(j)
  <2> DEFINE T == {k \in 0..n : P(k)}
  <2>1. T \in SUBSET Nat
    OBVIOUS
  <2>2. T # {}
    BY <1>2, RoomOnADay
  <2> HIDE DEF T
  <2>3. PICK k \in T : \A j \in T : k <= j
    BY <2>1, <2>2, LeastNumber
  <2> HIDE DEF P
  <2>4. k \in 0..n /\ P(k)
    BY <2>3 DEF T
  <2>5. ASSUME NEW j \in 0..(k - 1) PROVE ~P(j)
    <3>1. j \in 0..n /\ ~(k <= j)
      BY <2>4
    <3>2. QED
      BY <2>3, <3>1 DEF T
  <2>6. QED
    BY <2>4, <2>5
<1>6. k0 \in 0..n /\ P(k0) /\ \A j \in 0..(k0 - 1) : ~P(j)
  BY <1>5
<1> HIDE DEF k0
<1>7. s.period = first + k0 /\ s.dow = w /\ s.nth = Used(slots, first + k0, w)
  OBVIOUS
<1>8. s \in Slot(f)
  <2>1. first + k0 \in Nat
    BY <1>2, <1>6
  <2>2. Used(slots, first + k0, w) \in 0..1
    <3>1. Used(slots, first + k0, w) \in Nat
      BY PostsOfADay
    <3>2. QED
      BY <1>6, <3>1 DEF MaxPostsADay
  <2>3. QED
    BY <1>1, <2>1, <2>2 DEF Slot
<1>9. ASSUME Used(slots, first, w) = 0 PROVE s.period = first
  <2>1. SUFFICES ASSUME k0 # 0 PROVE FALSE
    BY <1>2, <1>7
  <2>2. 0 \in 0..(k0 - 1) /\ first + 0 = first
    BY <1>2, <1>6, <2>1
  <2>3. ~P(0)
    BY <1>6, <2>2
  <2>4. QED
    BY <1>9, <2>2, <2>3 DEF MaxPostsADay
<1> HIDE DEF s
<1>10. QED
  BY <1>4, <1>7, <1>8, <1>9 DEF w, first

LEMMA SlotsGrow ==
  ASSUME NEW f \in CadenceForms
  PROVE  /\ Slots(f) \in [1..f.count -> Slot(f)]
         /\ \A i \in 1..f.count : Slots(f)[i] = NextSlot(f, Before(Slots(f), i))
<1> DEFINE N == f.count
           X == Slot(f)
           E == [p \in (1..N) \X Seq(X) |-> NextSlot(f, p[2])]
           Body(g) == [n \in 0..N |-> IF n = 0 THEN <<>>
                                      ELSE Append(g[n - 1], NextSlot(f, g[n - 1]))]
           S == CHOOSE g : g = Body(g)
<1>1. N \in Nat
  BY FormFacts DEF Positive
<1>2. ASSUME NEW slots \in Seq(X) PROVE NextSlot(f, slots) \in X
  <2>1. Len(slots) + 1 \in Positive /\ Len(slots) = (Len(slots) + 1) - 1
    BY DEF Positive
  <2>2. QED
    BY <2>1, NextSlotIs
<1> HIDE DEF N, X
<1>3. E \in [(1..N) \X Seq(X) -> X]
  BY <1>2
<1>4. ASSUME NEW n \in 1..N, NEW slots \in Seq(X) PROVE E[<<n, slots>>] = NextSlot(f, slots)
  <2>1. <<n, slots>> \in (1..N) \X Seq(X) /\ <<n, slots>>[2] = slots
    OBVIOUS
  <2>2. QED
    BY <2>1
<1> HIDE DEF E
<1>5. PICK S0 : S0 \in [0..N -> Seq(X)] /\ Growing(N, S0, X, E)
  BY <1>1, <1>3, GrowthExists
<1>6. S0 = Body(S0)
  <2>1. ASSUME NEW n \in 0..N
        PROVE  S0[n] = IF n = 0 THEN <<>> ELSE Append(S0[n - 1], NextSlot(f, S0[n - 1]))
    <3>1. CASE n = 0
      BY <1>5, <3>1 DEF Growing
    <3>2. CASE n # 0
      <4>1. n \in 1..N /\ S0[n - 1] \in Seq(X)
        BY <1>1, <1>5, <3>2
      <4>2. S0[n] = Append(S0[n - 1], E[<<n, S0[n - 1]>>])
        BY <1>5, <4>1 DEF Growing
      <4>3. QED
        BY <1>4, <3>2, <4>1, <4>2
    <3>3. QED
      BY <3>1, <3>2
  <2>2. QED
    BY <1>5, <2>1
<1>7. S = Body(S)
  BY <1>6
<1>8. Slots(f) = S[N]
  BY DEF Slots, N
<1> HIDE DEF S
<1>9. Growing(N, S, X, E)
  <2>1. S[0] = <<>>
    BY <1>1, <1>7
  <2>2. ASSUME NEW n \in 1..N, S[n - 1] \in Seq(X)
        PROVE  S[n] = Append(S[n - 1], E[<<n, S[n - 1]>>])
    <3>1. n \in 0..N /\ n # 0
      BY <1>1
    <3>2. S[n] = Append(S[n - 1], NextSlot(f, S[n - 1]))
      BY <1>7, <3>1
    <3>3. QED
      BY <1>4, <2>2, <3>2
  <2>3. QED
    BY <2>1, <2>2 DEF Growing
<1>10. Grows(N, Slots(f), X, E)
  BY <1>1, <1>3, <1>8, <1>9, Growth
<1>11. ASSUME NEW i \in 1..N PROVE Slots(f)[i] = NextSlot(f, Before(Slots(f), i))
  <2>1. Before(Slots(f), i) \in Seq(X)
    BY <1>1, <1>10, BeforeIsSeq DEF Grows
  <2>2. QED
    BY <1>4, <1>10, <2>1 DEF Grows
<1>12. QED
  BY <1>10, <1>11 DEF Grows, N, X

LEMMA SlotFacts ==
  ASSUME NEW f \in CadenceForms, NEW i \in 1..f.count
  PROVE  LET slots == Slots(f)
             s     == slots[i]
         IN  /\ s \in Slot(f)
             /\ Before(slots, i) \in Seq(Slot(f)) /\ Len(Before(slots, i)) = i - 1
             /\ i \in Positive
             /\ s.dow = PostingDay(f, DayIndex(f, i))
             /\ s.nth = Used(Before(slots, i), s.period, s.dow)
             /\ Used(Before(slots, i), FirstPeriod(f, i), s.dow) = 0 => s.period = FirstPeriod(f, i)
<1>1. f.count \in Nat /\ i \in Positive
  BY NumberOfPosts
<1>2. Slots(f) \in [1..f.count -> Slot(f)] /\ Slots(f)[i] = NextSlot(f, Before(Slots(f), i))
  BY SlotsGrow
<1>3. Before(Slots(f), i) \in Seq(Slot(f)) /\ Len(Before(Slots(f), i)) = i - 1
  <2> DEFINE N == f.count
             s == Slots(f)
             X == Slot(f)
  <2>1. N \in Nat /\ i \in 1..N /\ s \in [1..N -> X]
    BY <1>1, <1>2
  <2> HIDE DEF N, s, X
  <2>2. Before(s, i) \in Seq(X) /\ Len(Before(s, i)) = i - 1
    BY <2>1, BeforeIsSeq
  <2>3. QED
    BY <2>2 DEF s, X
<1>4. QED
  BY <1>1, <1>2, <1>3, NextSlotIs

\* Which earlier posts fall on a day.
LEMMA EarlierPosts ==
  ASSUME NEW f \in CadenceForms, NEW i \in 1..f.count, NEW p, NEW w
  PROVE  OnDay(Before(Slots(f), i), p, w)
           = {j \in 1..(i - 1) : Slots(f)[j].period = p /\ Slots(f)[j].dow = w}
<1>1. DOMAIN Before(Slots(f), i) = 1..(i - 1)
      /\ \A j \in 1..(i - 1) : Before(Slots(f), i)[j] = Slots(f)[j]
  BY DEF Before
<1>2. QED
  BY <1>1 DEF OnDay

\* Two posts of one day have different places.
LEMMA PlacesDiffer ==
  ASSUME NEW f \in CadenceForms, NEW i \in 1..f.count, NEW j \in 1..f.count, i < j,
         Slots(f)[i].period = Slots(f)[j].period, Slots(f)[i].dow = Slots(f)[j].dow
  PROVE  Slots(f)[i].nth < Slots(f)[j].nth
<1> DEFINE p == Slots(f)[j].period
           w == Slots(f)[j].dow
           A == OnDay(Before(Slots(f), i), p, w)
           B == OnDay(Before(Slots(f), j), p, w)
<1>1. i \in Nat /\ j \in Nat
  BY NumberOfPosts
<1>2. A = {k \in 1..(i - 1) : Slots(f)[k].period = p /\ Slots(f)[k].dow = w}
      /\ B = {k \in 1..(j - 1) : Slots(f)[k].period = p /\ Slots(f)[k].dow = w}
  BY EarlierPosts
<1>3. Slots(f)[i].nth = Cardinality(A) /\ Slots(f)[j].nth = Cardinality(B)
  BY SlotFacts DEF Used
<1>4. IsFiniteSet(A) /\ IsFiniteSet(B)
  BY SlotFacts, PostsOfADay
<1> HIDE DEF A, B
<1>5. i \notin A /\ A \cup {i} \in SUBSET B
  BY <1>1, <1>2
<1>6. Cardinality(A \cup {i}) = Cardinality(A) + 1
  BY <1>4, <1>5, FS_AddElement
<1>7. Cardinality(A \cup {i}) <= Cardinality(B)
  BY <1>4, <1>5, FS_Subset
<1>8. Cardinality(A) \in Nat /\ Cardinality(B) \in Nat
  BY <1>4, FS_CardinalityType
<1>9. QED
  BY <1>3, <1>6, <1>7, <1>8

LEMMA DayIndexOfSlot ==
  ASSUME NEW f \in CadenceForms, NEW i \in 1..f.count, NEW j \in 1..f.count,
         Slots(f)[i].dow = Slots(f)[j].dow
  PROVE  DayIndex(f, i) = DayIndex(f, j)
<1>1. /\ Slots(f)[i].dow = PostingDay(f, DayIndex(f, i))
      /\ Slots(f)[j].dow = PostingDay(f, DayIndex(f, j))
      /\ i \in Positive /\ j \in Positive
  BY SlotFacts
<1>2. /\ DayIndex(f, i) \in 0..(Cardinality(f.days) - 1)
      /\ DayIndex(f, j) \in 0..(Cardinality(f.days) - 1)
  BY <1>1, TurnFacts
<1>3. QED
  BY <1>1, <1>2, PostingDays

\* A day that has one turn in each period gets one post in each.
OneTurn(f, i) == DayIndex(f, i) + Cardinality(f.days) >= f.per

LEMMA TurnIsDay ==
  ASSUME NEW f \in CadenceForms, NEW i \in Positive, OneTurn(f, i)
  PROVE  /\ Turn(f, i) = DayIndex(f, i)
         /\ FirstPeriod(f, i) = (i - 1) \div f.per
<1> DEFINE D == Cardinality(f.days)
           r == Turn(f, i) \div D
<1>1. D \in Positive /\ f.per \in Positive
  BY FormFacts
<1>2. /\ Turn(f, i) \in 0..(f.per - 1) /\ r \in Nat
      /\ DayIndex(f, i) \in 0..(D - 1)
      /\ Turn(f, i) = D * r + DayIndex(f, i)
      /\ FirstPeriod(f, i) = ((i - 1) \div f.per) + r
      /\ (i - 1) \div f.per \in Nat
  BY TurnFacts DEF FirstPeriod
<1>3. DayIndex(f, i) + D >= f.per
  BY DEF OneTurn
<1> HIDE DEF D, r
<1>4. r = 0
  <2>1. SUFFICES ASSUME r >= 1 PROVE FALSE
    BY <1>2
  <2>2. D * r >= D
    BY <1>1, <1>2, <2>1 DEF Positive
  <2>3. QED
    BY <1>1, <1>2, <1>3, <2>2 DEF Positive
<1>5. D * r = 0
  BY <1>1, <1>4 DEF Positive
<1>6. QED
  BY <1>2, <1>4, <1>5

LEMMA OnePostADay ==
  ASSUME NEW f \in CadenceForms, NEW i \in 1..f.count, OneTurn(f, i)
  PROVE  Slots(f)[i].period = (i - 1) \div f.per /\ Slots(f)[i].nth = 0
<1> DEFINE s == Slots(f)
           q(k) == (k - 1) \div f.per
           T == {k \in 1..f.count : OneTurn(f, k) /\ ~(s[k].period = q(k) /\ s[k].nth = 0)}
<1>1. SUFFICES ASSUME T # {} PROVE FALSE
  OBVIOUS
<1>2. T \in SUBSET Nat
  OBVIOUS
<1>3. PICK k \in T : \A j \in T : k <= j
  <2> HIDE DEF T
  <2>1. QED
    BY <1>1, <1>2, LeastNumber
<1>4. k \in 1..f.count /\ OneTurn(f, k) /\ k \in Positive
  BY <1>3 DEF Positive
<1>5. FirstPeriod(f, k) = q(k) /\ Turn(f, k) = DayIndex(f, k)
      /\ k - 1 = f.per * q(k) + Turn(f, k)
  BY <1>4, TurnIsDay, TurnFacts
<1>6. OnDay(Before(s, k), q(k), s[k].dow) = {}
  <2>1. SUFFICES ASSUME NEW j \in 1..(k - 1), s[j].period = q(k), s[j].dow = s[k].dow
                 PROVE  FALSE
    BY <1>4, EarlierPosts
  <2>2. j \in 1..f.count /\ j \in Positive /\ j # k /\ ~(k <= j)
    BY <1>4, NumberOfPosts DEF Positive
  <2>3. DayIndex(f, j) = DayIndex(f, k)
    BY <1>4, <2>1, <2>2, DayIndexOfSlot
  <2>4. OneTurn(f, j)
    BY <1>4, <2>3 DEF OneTurn
  <2>5. s[j].period = q(j)
    BY <1>3, <2>2, <2>4
  <2>6. Turn(f, j) = DayIndex(f, j) /\ j - 1 = f.per * q(j) + Turn(f, j)
    BY <2>2, <2>4, TurnIsDay, TurnFacts
  <2> HIDE DEF q, s
  <2>7. j - 1 = k - 1
    BY <1>5, <2>1, <2>3, <2>5, <2>6
  <2>8. QED
    BY <1>4, <2>2, <2>7 DEF Positive
<1>7. Used(Before(s, k), q(k), s[k].dow) = 0
  BY <1>4, <1>6, SlotFacts, PostsOfADay
<1>8. s[k].period = q(k)
  BY <1>4, <1>5, <1>7, SlotFacts
<1>9. s[k].nth = 0
  BY <1>4, <1>7, <1>8, SlotFacts
<1>10. QED
  BY <1>3, <1>8, <1>9

-----------------------------------------------------------------------------
(* Stepping over moments that are taken.                                   *)

LEMMA LaterIsLater ==
  ASSUME NEW mode \in {"weekly", "monthly"}, NEW moment \in Moment
  PROVE  Later(mode, moment) \in Moment /\ Later(mode, moment) > moment
<1>1. NextWeek(moment) \in Moment /\ NextWeek(moment) > moment
  BY DEF NextWeek, Week, Moment
<1>2. QED
  BY <1>1, NextMonthIsLater DEF Later

Stepping(mode, moment, st, N) ==
  /\ st \in [0..N -> Moment]
  /\ st[0] = moment
  /\ \A n \in 1..N : st[n] = Later(mode, st[n - 1])

LEMMA StepsIncrease ==
  ASSUME NEW mode \in {"weekly", "monthly"}, NEW moment \in Moment, NEW N \in Nat,
         NEW st, Stepping(mode, moment, st, N), NEW i \in 0..N, NEW j \in 0..N, i < j
  PROVE  st[i] < st[j]
<1> DEFINE T == {k \in Nat : i + 1 + k <= N => st[i] < st[i + 1 + k]}
<1>1. \A n \in 0..N : st[n] \in Moment /\ st[n] \in Nat
  BY DEF Stepping, Moment
<1>2. ASSUME NEW n \in 0..(N - 1) PROVE st[n] < st[n + 1]
  <2>1. n + 1 \in 1..N /\ (n + 1) - 1 = n /\ n \in 0..N
    OBVIOUS
  <2>2. st[n + 1] = Later(mode, st[n])
    BY <2>1 DEF Stepping
  <2>3. Later(mode, st[n]) > st[n]
    BY <1>1, <2>1, LaterIsLater
  <2>4. QED
    BY <1>1, <2>1, <2>2, <2>3
<1>3. 0 \in T
  BY <1>2
<1>4. ASSUME NEW k \in T PROVE k + 1 \in T
  <2>1. SUFFICES ASSUME i + 1 + (k + 1) <= N PROVE st[i] < st[i + 1 + (k + 1)]
    OBVIOUS
  <2>2. st[i] < st[i + 1 + k]
    BY <2>1
  <2>3. i + 1 + k \in 0..(N - 1) /\ i + 1 + (k + 1) = (i + 1 + k) + 1
    BY <2>1
  <2>4. st[i + 1 + k] < st[(i + 1 + k) + 1]
    BY <1>2, <2>3
  <2>5. st[i] \in Nat /\ st[i + 1 + k] \in Nat /\ st[(i + 1 + k) + 1] \in Nat
    BY <1>1, <2>3
  <2>6. QED
    BY <2>2, <2>3, <2>4, <2>5
<1>5. T \in SUBSET Nat
  OBVIOUS
<1> HIDE DEF T
<1>6. T = Nat
  BY <1>3, <1>4, <1>5, Induction
<1>7. j - i - 1 \in T /\ i + 1 + (j - i - 1) = j
  BY <1>6
<1>8. QED
  BY <1>7 DEF T

\* The steps that Alone takes, and the one where it stops.
StopsAt(placed, st, k) ==
  /\ \A i \in 1..Len(placed) : placed[i] # st[k]
  /\ \A j \in 0..(k - 1) : \E i \in 1..Len(placed) : placed[i] = st[j]

LEMMA AloneSteps ==
  ASSUME NEW mode \in {"weekly", "monthly"}, NEW placed \in Seq(Moment), NEW moment \in Moment
  PROVE  \E st : \E k \in 0..Len(placed) :
           /\ Stepping(mode, moment, st, Len(placed))
           /\ StopsAt(placed, st, k)
           /\ Alone(mode, placed, moment) = st[k]
<1> DEFINE N == Len(placed)
           F == [p \in (1..N) \X Moment |-> Later(mode, p[2])]
           Body(g) == [k \in 0..N |-> IF k = 0 THEN moment ELSE Later(mode, g[k - 1])]
           st == CHOOSE g : g = Body(g)
           P(k) == \A i \in DOMAIN placed : placed[i] # st[k]
           k0 == CHOOSE k \in 0..N : P(k) /\ \A j \in 0..(k - 1) : ~P(j)
<1>1. N \in Nat /\ DOMAIN placed = 1..N
  OBVIOUS
<1>2. Alone(mode, placed, moment) = st[k0]
  BY DEF Alone, Least
<1> HIDE DEF N
<1>3. F \in [(1..N) \X Moment -> Moment]
  BY LaterIsLater
<1>4. ASSUME NEW n \in 1..N, NEW m \in Moment PROVE F[<<n, m>>] = Later(mode, m)
  <2>1. <<n, m>> \in (1..N) \X Moment /\ <<n, m>>[2] = m
    OBVIOUS
  <2>2. QED
    BY <2>1
<1> HIDE DEF F
<1>5. PICK g : FollowsUpTo(N, g, Moment, moment, F)
  BY <1>1, <1>3, FiniteRecursion
<1>6. g = Body(g)
  <2>1. ASSUME NEW n \in 0..N
        PROVE  g[n] = IF n = 0 THEN moment ELSE Later(mode, g[n - 1])
    <3>1. CASE n = 0
      BY <1>5, <3>1 DEF FollowsUpTo
    <3>2. CASE n # 0
      <4>1. n \in 1..N /\ g[n - 1] \in Moment
        BY <1>1, <1>5, <3>2 DEF FollowsUpTo
      <4>2. g[n] = F[<<n, g[n - 1]>>]
        BY <1>5, <4>1 DEF FollowsUpTo
      <4>3. QED
        BY <1>4, <3>2, <4>1, <4>2
    <3>3. QED
      BY <3>1, <3>2
  <2>2. QED
    BY <1>5, <2>1 DEF FollowsUpTo
<1>7. st = Body(st)
  BY <1>6
<1> HIDE DEF st
<1>8. /\ st[0] = moment /\ DOMAIN st = 0..N
      /\ \A n \in 1..N : st[n] = Later(mode, st[n - 1])
  <2>1. 0 \in 0..N /\ \A n \in 1..N : n \in 0..N /\ n # 0
    BY <1>1
  <2>2. QED
    BY <1>7, <2>1
<1> DEFINE T == {n \in Nat : n <= N => st[n] \in Moment}
<1>9. T = Nat
  <2>1. 0 \in T
    BY <1>8
  <2>2. ASSUME NEW n \in T PROVE n + 1 \in T
    <3>1. SUFFICES ASSUME n + 1 <= N PROVE st[n + 1] \in Moment
      OBVIOUS
    <3>2. n + 1 \in 1..N /\ (n + 1) - 1 = n /\ st[n] \in Moment
      BY <1>1, <3>1
    <3>3. QED
      BY <1>8, <3>2, LaterIsLater
  <2>3. T \in SUBSET Nat
    OBVIOUS
  <2> HIDE DEF T
  <2>4. QED
    BY <2>1, <2>2, <2>3, Induction
<1>10. Stepping(mode, moment, st, N)
  <2>1. \A n \in 0..N : st[n] \in Moment
    BY <1>1, <1>9
  <2>2. st \in [0..N -> Moment]
    BY <1>7, <2>1
  <2>3. QED
    BY <1>8, <2>2 DEF Stepping
<1>11. \E k \in 0..N : P(k)
  <2>1. SUFFICES ASSUME \A k \in 0..N : \E i \in 1..N : placed[i] = st[k]
                 PROVE  FALSE
    BY <1>1
  <2> DEFINE h == [k \in 0..N |-> CHOOSE i \in 1..N : placed[i] = st[k]]
  <2>2. \A k \in 0..N : h[k] \in 1..N /\ placed[h[k]] = st[k]
    BY <2>1
  <2>3. h \in [0..N -> 1..N]
    BY <2>2
  <2> HIDE DEF h
  <2>4. PICK x \in 0..N, y \in 0..N : x # y /\ h[x] = h[y]
    BY <1>1, <2>3, TooFewPlaces
  <2>5. st[x] = st[y]
    BY <2>2, <2>4
  <2>6. st[x] \in Nat /\ st[y] \in Nat /\ (x < y \/ y < x)
    BY <1>1, <1>10, <2>4 DEF Stepping, Moment
  <2>7. QED
    <3>1. CASE x < y
      <4>1. st[x] < st[y]
        BY <1>1, <1>10, <3>1, StepsIncrease
      <4>2. QED
        BY <2>5, <2>6, <4>1
    <3>2. CASE y < x
      <4>1. st[y] < st[x]
        BY <1>1, <1>10, <3>2, StepsIncrease
      <4>2. QED
        BY <2>5, <2>6, <4>1
    <3>3. QED
      BY <2>6, <3>1, <3>2
<1>12. \E k \in 0..N : P(k) /\ \A j \in 0..(k - 1) : ~P(j)
  <2> DEFINE U == {k \in 0..N : P(k)}
  <2> HIDE DEF P
  <2>1. U \in SUBSET Nat /\ U # {}
    BY <1>1, <1>11
  <2> HIDE DEF U
  <2>2. PICK k \in U : \A j \in U : k <= j
    BY <2>1, LeastNumber
  <2>3. k \in 0..N /\ P(k)
    BY <2>2 DEF U
  <2>4. ASSUME NEW j \in 0..(k - 1) PROVE ~P(j)
    <3>1. j \in 0..N /\ ~(k <= j)
      BY <1>1, <2>3
    <3>2. QED
      BY <2>2, <3>1 DEF U
  <2>5. QED
    BY <2>3, <2>4
<1>13. k0 \in 0..N /\ P(k0) /\ \A j \in 0..(k0 - 1) : ~P(j)
  BY <1>12
<1> HIDE DEF k0
<1>14. StopsAt(placed, st, k0)
  BY <1>1, <1>13 DEF StopsAt, N
<1>15. QED
  BY <1>2, <1>10, <1>13, <1>14 DEF N

LEMMA AloneFacts ==
  ASSUME NEW mode \in {"weekly", "monthly"}, NEW placed \in Seq(Moment), NEW moment \in Moment
  PROVE  LET a == Alone(mode, placed, moment)
         IN  /\ a \in Moment /\ a >= moment
             /\ \A i \in 1..Len(placed) : placed[i] # a
             /\ (\A i \in 1..Len(placed) : placed[i] # moment) => a = moment
             /\ /\ \E i \in 1..Len(placed) : placed[i] = moment
                /\ \A i \in 1..Len(placed) : placed[i] # Later(mode, moment)
                => a = Later(mode, moment)
<1> DEFINE N == Len(placed)
           a == Alone(mode, placed, moment)
<1>0. PICK st : \E k \in 0..N : /\ Stepping(mode, moment, st, N)
                                /\ StopsAt(placed, st, k)
                               /\ a = st[k]
  BY AloneSteps
<1>1. PICK k \in 0..N : /\ Stepping(mode, moment, st, N)
                        /\ StopsAt(placed, st, k)
                        /\ a = st[k]
  BY <1>0
<1>2. N \in Nat
  OBVIOUS
<1> HIDE DEF N, a
<1>3. /\ st \in [0..N -> Moment] /\ st[0] = moment
      /\ \A n \in 1..N : st[n] = Later(mode, st[n - 1])
  BY <1>1 DEF Stepping
<1>4. /\ \A i \in 1..N : placed[i] # st[k]
      /\ \A j \in 0..(k - 1) : \E i \in 1..N : placed[i] = st[j]
  BY <1>1 DEF StopsAt, N
<1>5. a \in Moment /\ \A i \in 1..N : placed[i] # a
  BY <1>1, <1>3, <1>4
<1>6. a >= moment
  <2>1. CASE k = 0
    BY <1>1, <1>3, <2>1 DEF Moment
  <2>2. CASE k # 0
    <3>1. 0 \in 0..N /\ 0 < k
      BY <1>2, <2>2
    <3>2. st[0] < st[k]
      BY <1>1, <1>2, <3>1, StepsIncrease
    <3>3. QED
      BY <1>1, <1>3, <1>5, <3>2 DEF Moment
  <2>3. QED
    BY <2>1, <2>2
<1>7. ASSUME \A i \in 1..N : placed[i] # moment PROVE a = moment
  <2>1. 0 \notin 0..(k - 1)
    BY <1>3, <1>4, <1>7
  <2>2. k = 0
    BY <2>1
  <2>3. QED
    BY <1>1, <1>3, <2>2
<1>8. ASSUME \E i \in 1..N : placed[i] = moment,
             \A i \in 1..N : placed[i] # Later(mode, moment)
      PROVE  a = Later(mode, moment)
  <2>1. k # 0
    BY <1>3, <1>4, <1>8
  <2>2. 1 \in 1..N /\ 1 - 1 = 0
    BY <1>2, <2>1
  <2>3. st[1] = Later(mode, moment)
    BY <1>3, <2>2
  <2>4. 1 \notin 0..(k - 1)
    BY <1>4, <1>8, <2>3
  <2>5. k = 1
    BY <2>1, <2>4
  <2>6. QED
    BY <1>1, <2>3, <2>5
<1>9. QED
  BY <1>5, <1>6, <1>7, <1>8 DEF N, a

\* A week has whole days, so a step keeps the weekday and the hour.
LEMMA AloneWeeks ==
  ASSUME NEW placed \in Seq(Moment), NEW moment \in Moment
  PROVE  \E k \in Nat : Alone("weekly", placed, moment) = moment + Week * k
<1> DEFINE N == Len(placed)
<1>0. PICK st : \E k \in 0..N : /\ Stepping("weekly", moment, st, N)
                                /\ Alone("weekly", placed, moment) = st[k]
  BY AloneSteps
<1>1. PICK k \in 0..N : /\ Stepping("weekly", moment, st, N)
                        /\ Alone("weekly", placed, moment) = st[k]
  BY <1>0
<1>2. N \in Nat
  OBVIOUS
<1> HIDE DEF N
<1>3. /\ st \in [0..N -> Moment] /\ st[0] = moment
      /\ \A n \in 1..N : st[n] = Later("weekly", st[n - 1])
  BY <1>1 DEF Stepping
<1> DEFINE T == {n \in Nat : n <= N => st[n] = moment + Week * n}
<1>4. T = Nat
  <2>1. 0 \in T
    BY <1>3 DEF Week, Moment
  <2>2. ASSUME NEW n \in T PROVE n + 1 \in T
    <3>1. SUFFICES ASSUME n + 1 <= N PROVE st[n + 1] = moment + Week * (n + 1)
      OBVIOUS
    <3>2. n + 1 \in 1..N /\ (n + 1) - 1 = n /\ st[n] = moment + Week * n
      BY <1>2, <3>1
    <3>3. st[n + 1] = st[n] + Week
      BY <1>3, <3>2 DEF Later, NextWeek
    <3>4. QED
      BY <3>2, <3>3 DEF Week, Moment
  <2>3. T \in SUBSET Nat
    OBVIOUS
  <2> HIDE DEF T
  <2>4. QED
    BY <2>1, <2>2, <2>3, Induction
<1>5. k \in Nat /\ k <= N
  BY <1>2
<1>6. st[k] = moment + Week * k
  BY <1>4, <1>5
<1>7. QED
  BY <1>1, <1>5, <1>6

LEMMA SpreadGrows ==
  ASSUME NEW mode \in {"weekly", "monthly"}, NEW N \in Nat, NEW ms \in [1..N -> Moment]
  PROVE  /\ Spread(mode, ms) \in [1..N -> Moment]
         /\ \A n \in 1..N : /\ Before(Spread(mode, ms), n) \in Seq(Moment)
                            /\ Spread(mode, ms)[n] = Alone(mode, Before(Spread(mode, ms), n), ms[n])
<1> DEFINE X == Moment
           E == [p \in (1..N) \X Seq(X) |-> Alone(mode, p[2], ms[p[1]])]
           Body(g) == [n \in 0..N |-> IF n = 0 THEN <<>>
                                      ELSE Append(g[n - 1], Alone(mode, g[n - 1], ms[n]))]
           S == CHOOSE g : g = Body(g)
<1>1. Len(ms) = N
  OBVIOUS
<1>2. Spread(mode, ms) = S[N]
  BY <1>1 DEF Spread
<1>3. ASSUME NEW n \in 1..N, NEW placed \in Seq(X) PROVE Alone(mode, placed, ms[n]) \in X
  BY AloneFacts
<1> HIDE DEF X
<1>4. E \in [(1..N) \X Seq(X) -> X]
  BY <1>3
<1>5. ASSUME NEW n \in 1..N, NEW placed \in Seq(X)
      PROVE  E[<<n, placed>>] = Alone(mode, placed, ms[n])
  <2>1. /\ <<n, placed>> \in (1..N) \X Seq(X)
        /\ <<n, placed>>[1] = n /\ <<n, placed>>[2] = placed
    OBVIOUS
  <2>2. QED
    BY <2>1
<1> HIDE DEF E
<1>6. PICK S0 : S0 \in [0..N -> Seq(X)] /\ Growing(N, S0, X, E)
  BY <1>4, GrowthExists
<1>7. S0 = Body(S0)
  <2>1. ASSUME NEW n \in 0..N
        PROVE  S0[n] = IF n = 0 THEN <<>> ELSE Append(S0[n - 1], Alone(mode, S0[n - 1], ms[n]))
    <3>1. CASE n = 0
      BY <1>6, <3>1 DEF Growing
    <3>2. CASE n # 0
      <4>1. n \in 1..N /\ S0[n - 1] \in Seq(X)
        BY <1>6, <3>2
      <4>2. S0[n] = Append(S0[n - 1], E[<<n, S0[n - 1]>>])
        BY <1>6, <4>1 DEF Growing
      <4>3. QED
        BY <1>5, <3>2, <4>1, <4>2
    <3>3. QED
      BY <3>1, <3>2
  <2>2. QED
    BY <1>6, <2>1
<1>8. S = Body(S)
  BY <1>7
<1> HIDE DEF S
<1>9. Growing(N, S, X, E)
  <2>1. S[0] = <<>>
    BY <1>8
  <2>2. ASSUME NEW n \in 1..N, S[n - 1] \in Seq(X)
        PROVE  S[n] = Append(S[n - 1], E[<<n, S[n - 1]>>])
    <3>1. n \in 0..N /\ n # 0
      OBVIOUS
    <3>2. S[n] = Append(S[n - 1], Alone(mode, S[n - 1], ms[n]))
      BY <1>8, <3>1
    <3>3. QED
      BY <1>5, <2>2, <3>2
  <2>3. QED
    BY <2>1, <2>2 DEF Growing
<1>10. Grows(N, Spread(mode, ms), X, E)
  BY <1>2, <1>4, <1>9, Growth
<1>11. ASSUME NEW n \in 1..N
       PROVE  /\ Before(Spread(mode, ms), n) \in Seq(X)
              /\ Spread(mode, ms)[n] = Alone(mode, Before(Spread(mode, ms), n), ms[n])
  <2>1. Before(Spread(mode, ms), n) \in Seq(X)
    BY <1>10, BeforeIsSeq DEF Grows
  <2>2. QED
    BY <1>5, <1>10, <2>1 DEF Grows
<1>12. QED
  BY <1>10, <1>11 DEF Grows, X

LEMMA SpreadFacts ==
  ASSUME NEW mode \in {"weekly", "monthly"}, NEW N \in Nat, NEW ms \in [1..N -> Moment]
  PROVE  LET posts == Spread(mode, ms)
         IN  /\ posts \in [1..N -> Moment]
             /\ \A n \in 1..N : posts[n] >= ms[n]
             /\ \A i \in 1..N : \A j \in 1..N : posts[i] = posts[j] => i = j
<1> DEFINE s == Spread(mode, ms)
<1>1. /\ s \in [1..N -> Moment]
      /\ \A n \in 1..N : /\ Before(s, n) \in Seq(Moment)
                         /\ s[n] = Alone(mode, Before(s, n), ms[n])
  BY SpreadGrows
<1>2. \A n \in 1..N : /\ Len(Before(s, n)) = n - 1
                      /\ \A j \in 1..(n - 1) : Before(s, n)[j] = s[j]
  BY BeforeFacts
<1> HIDE DEF s
<1>3. ASSUME NEW n \in 1..N
      PROVE  s[n] >= ms[n] /\ \A j \in 1..(n - 1) : s[j] # s[n]
  <2>1. ms[n] \in Moment
    OBVIOUS
  <2>2. s[n] >= ms[n] /\ \A j \in 1..Len(Before(s, n)) : Before(s, n)[j] # s[n]
    BY <1>1, <2>1, AloneFacts
  <2>3. QED
    BY <1>2, <2>2
<1>4. ASSUME NEW i \in 1..N, NEW j \in 1..N, s[i] = s[j] PROVE i = j
  <2>1. i \in 1..(j - 1) \/ j \in 1..(i - 1) \/ i = j
    OBVIOUS
  <2>2. QED
    BY <1>3, <1>4, <2>1
<1>5. QED
  BY <1>1, <1>3, <1>4 DEF s

\* Moments that are apart stay as they are.
LEMMA SpreadKeeps ==
  ASSUME NEW mode \in {"weekly", "monthly"}, NEW N \in Nat, NEW ms \in [1..N -> Moment],
         \A i \in 1..N : \A j \in 1..N : ms[i] = ms[j] => i = j
  PROVE  \A n \in 1..N : Spread(mode, ms)[n] = ms[n]
<1> DEFINE s == Spread(mode, ms)
           T == {n \in 1..N : s[n] # ms[n]}
<1>1. SUFFICES ASSUME T # {} PROVE FALSE
  OBVIOUS
<1>2. T \in SUBSET Nat
  OBVIOUS
<1>3. PICK n \in T : \A j \in T : n <= j
  <2> HIDE DEF T
  <2>1. QED
    BY <1>1, <1>2, LeastNumber
<1>4. /\ s \in [1..N -> Moment]
      /\ Before(s, n) \in Seq(Moment)
      /\ s[n] = Alone(mode, Before(s, n), ms[n])
  BY <1>3, SpreadGrows
<1>5. n \in 1..N /\ ms[n] \in Moment /\ s[n] # ms[n]
  BY <1>3
<1>6. /\ Len(Before(s, n)) = n - 1
      /\ \A j \in 1..(n - 1) : Before(s, n)[j] = s[j]
  <2>1. n \in Nat \ {0}
    BY <1>5
  <2>2. QED
    BY <2>1, BeforeFacts
<1>7. ASSUME NEW j \in 1..(n - 1) PROVE s[j] # ms[n]
  <2>1. j \in 1..N /\ ~(n <= j) /\ j # n
    BY <1>5
  <2>2. s[j] = ms[j]
    BY <1>3, <2>1
  <2>3. QED
    BY <1>5, <2>1, <2>2
<1> HIDE DEF s
<1>8. s[n] = ms[n]
  BY <1>4, <1>5, <1>6, <1>7, AloneFacts
<1>9. QED
  BY <1>5, <1>8

-----------------------------------------------------------------------------
(* Where a slot goes.                                                      *)

LEMMA HourFacts ==
  ASSUME NEW pref \in 0..23, NEW nth \in 0..1
  PROVE  /\ HourOfSlot(pref, nth) \in 0..23
         /\ HourOfSlot(pref, nth) >= pref - 2
         /\ nth = 0 => HourOfSlot(pref, nth) = pref
<1>1. CASE nth = 0
  BY <1>1 DEF HourOfSlot
<1>2. CASE nth = 1
  <2>1. Min({pref + 2 * nth, 21}) = IF pref + 2 * nth <= 21 THEN pref + 2 * nth ELSE 21
    BY MinOfTwo
  <2>2. QED
    BY <1>2, <2>1 DEF HourOfSlot
<1>3. QED
  BY <1>1, <1>2

LEMMA ModOfSeven ==
  ASSUME NEW q \in Nat, NEW r \in 0..6
  PROVE  (7 * q + r) % 7 = r
  OBVIOUS

LEMMA DayOfWeek ==
  ASSUME NEW a \in Positive, NEW x \in Nat, NEW w \in 1..7
  PROVE  LET day == MondayOf(a) + 7 * x + w - 1
         IN  /\ MondayOf(a) \in Int /\ MondayOf(a) + 6 >= a /\ MondayOf(a) <= a
             /\ Weekday(day) = w
             /\ MondayOf(day) = MondayOf(a) + 7 * x
<1> DEFINE t   == FirstWeekday + a + 5
           day == MondayOf(a) + 7 * x + w - 1
<1>1. t \in Nat /\ t % 7 \in 0..6 /\ t \div 7 \in Nat /\ t = 7 * (t \div 7) + (t % 7)
  BY ConstantsAssumption DEF Positive
<1>2. MondayOf(a) = a - (t % 7)
  BY <1>1 DEF MondayOf, Weekday, Positive
<1>3. FirstWeekday + day + 5 = 7 * ((t \div 7) + x) + (w - 1)
  BY <1>1, <1>2, ConstantsAssumption DEF Positive
<1>4. (FirstWeekday + day + 5) % 7 = w - 1
  <2>1. (t \div 7) + x \in Nat /\ w - 1 \in 0..6
    BY <1>1
  <2>2. QED
    BY <1>3, <2>1, ModOfSeven
<1>5. Weekday(day) = w
  BY <1>4 DEF Weekday
<1>6. day \in Int
  BY <1>1, <1>2 DEF Positive
<1>7. MondayOf(day) = MondayOf(a) + 7 * x
  BY <1>1, <1>2, <1>5, <1>6 DEF MondayOf, Positive
<1>8. MondayOf(a) \in Int /\ MondayOf(a) + 6 >= a /\ MondayOf(a) <= a
  <2>1. a \in Nat
    BY DEF Positive
  <2>2. \E r \in 0..6 : MondayOf(a) = a - r
    BY <1>1, <1>2
  <2>3. QED
    BY <2>1, <2>2
<1>9. QED
  BY <1>5, <1>7, <1>8

LEMMA WeeklyCandidateIs ==
  ASSUME NEW f \in CadenceForms, NEW from \in Moment, NEW slot \in Slot(f)
  PROVE  LET c     == WeeklyCandidate(f, from, slot)
             At(x) == 24 * (MondayOf(Anchor(f, from)) + 7 * x + slot.dow - 1)
                      + HourOfSlot(f.pref, slot.nth)
         IN  /\ c \in Moment /\ c >= from
             /\ \/ c = At(slot.period)
                \/ c = At(slot.period + 1) /\ At(slot.period) < from
<1> DEFINE a      == Anchor(f, from)
           monday == MondayOf(a)
           p      == slot.period
           w      == slot.dow
           hour   == HourOfSlot(f.pref, slot.nth)
           At(x)  == 24 * (monday + 7 * x + w - 1) + hour
           m      == 24 * (monday + 7 * p + w - 1) + hour
           P(k)   == m + Week * k >= from
           T      == {k \in 0..f.count : P(k)}
           k0     == CHOOSE k \in 0..f.count : P(k) /\ \A j \in 0..(k - 1) : ~P(j)
<1>1. p \in Nat /\ w \in f.days /\ slot.nth \in 0..1
  BY DEF Slot
<1>2. f.pref \in 0..23 /\ f.days \in SUBSET (1..7) /\ f.count \in Positive
  BY FormFacts
<1>3. w \in 1..7
  BY <1>1, <1>2
<1>4. a \in Positive /\ 24 * a + f.pref >= from
  BY AnchorDay
<1>5. monday \in Int /\ monday + 6 >= a
  BY <1>1, <1>3, <1>4, DayOfWeek
<1>6. hour \in 0..23 /\ hour >= f.pref - 2
  BY <1>1, <1>2, HourFacts
<1>7. WeeklyCandidate(f, from, slot) = m + Week * k0
  BY DEF WeeklyCandidate, Least
<1>8. from \in Nat /\ a \in Nat /\ f.count \in Nat /\ f.count >= 1
  BY <1>2, <1>4 DEF Moment, Positive
<1> HIDE DEF a, monday, p, w, hour
<1>9. m \in Int /\ m + Week >= from
  BY <1>1, <1>2, <1>3, <1>4, <1>5, <1>6, <1>8 DEF Week
<1>10. At(p) = m /\ At(p + 1) = m + Week
  BY <1>1, <1>3, <1>5, <1>6 DEF Week
<1> HIDE DEF m
<1>11. 1 \in T
  BY <1>8, <1>9 DEF Week
<1>12. \E k \in 0..f.count : P(k) /\ \A j \in 0..(k - 1) : ~P(j)
  <2>1. T \in SUBSET (0..f.count) /\ T # {}
    BY <1>11
  <2> HIDE DEF T
  <2>2. \E k \in 0..f.count : k \in T /\ \A j \in 0..(k - 1) : j \in 0..f.count /\ j \notin T
    BY <1>8, <2>1, FirstNumber
  <2>3. QED
    BY <2>2 DEF T
<1>13. k0 \in 0..f.count /\ P(k0) /\ \A j \in 0..(k0 - 1) : ~P(j)
  BY <1>12
<1> HIDE DEF k0
<1>14. k0 = 0 \/ k0 = 1
  <2>1. 1 \notin 0..(k0 - 1)
    BY <1>11, <1>13
  <2>2. QED
    BY <1>13, <2>1
<1> DEFINE c == WeeklyCandidate(f, from, slot)
<1>15. CASE k0 = 0
  <2>1. c = m /\ m >= from
    BY <1>7, <1>9, <1>13, <1>15 DEF Week
  <2>2. QED
    BY <1>8, <1>9, <1>10, <2>1 DEF Moment, a, monday, p, w, hour
<1>16. CASE k0 = 1
  <2>1. 0 \in 0..(k0 - 1)
    BY <1>16
  <2>2. ~P(0)
    BY <1>13, <2>1
  <2>3. c = m + Week /\ m < from
    BY <1>7, <1>8, <1>9, <1>16, <2>2 DEF Week
  <2>4. c \in Moment /\ c >= from
    BY <1>8, <1>9, <2>3 DEF Moment, Week
  <2>5. QED
    BY <1>10, <2>3, <2>4 DEF a, monday, p, w, hour
<1>17. QED
  BY <1>14, <1>15, <1>16

LEMMA LargestNumber ==
  ASSUME NEW n \in Nat, NEW T \in SUBSET (0..n), T # {}
  PROVE  Max(T) \in T
<1> DEFINE U == {k \in 0..n : n - k \in T}
<1>1. U # {}
  <2>1. PICK x \in T : TRUE
    OBVIOUS
  <2>2. n - x \in 0..n /\ n - (n - x) = x
    OBVIOUS
  <2>3. QED
    BY <2>1, <2>2
<1>2. PICK k \in U : \A j \in U : k <= j
  <2>1. U \in SUBSET Nat
    OBVIOUS
  <2> HIDE DEF U
  <2>2. QED
    BY <1>1, <2>1, LeastNumber
<1>3. n - k \in T /\ \A y \in T : n - k >= y
  <2>1. ASSUME NEW y \in T PROVE n - k >= y
    <3>1. y \in 0..n /\ n - y \in 0..n /\ n - (n - y) = y
      OBVIOUS
    <3>2. k <= n - y
      BY <1>2, <3>1
    <3>3. QED
      BY <3>1, <3>2
  <2>2. QED
    BY <1>2, <2>1
<1>4. QED
  BY <1>3 DEF Max

\* The days of the month that the date of a slot may be: the month, the day from
\* which it is searched, and those of the weekday.
MonthAt(anchor, k)    == MonthOf(anchor) + k
FirstDay(anchor, k)   == IF k = 0 THEN DayOfMonth(anchor) ELSE 1
Matches(anchor, k, w) ==
  {d \in FirstDay(anchor, k)..MonthLength(MonthAt(anchor, k)) :
     Weekday(MonthStart[MonthAt(anchor, k)] + d - 1) = w}

LEMMA MonthAndFirstDay ==
  ASSUME NEW anchor \in Positive, NEW k \in Nat
  PROVE  /\ MonthAt(anchor, k) \in Positive
         /\ MonthLength(MonthAt(anchor, k)) \in 28..31
         /\ MonthStart[MonthAt(anchor, k)] \in Positive
         /\ FirstDay(anchor, k) \in 1..MonthLength(MonthAt(anchor, k))
         /\ k = 0 => MonthStart[MonthAt(anchor, k)] + FirstDay(anchor, k) - 1 = anchor
         /\ k > 0 => MonthStart[MonthAt(anchor, k)] > anchor
<1> DEFINE m == MonthOf(anchor)
           n == MonthAt(anchor, k)
<1>1. m \in Positive /\ MonthStart[m] <= anchor /\ anchor < MonthStart[m + 1]
  BY MonthOfDay
<1>2. n = m + k /\ n \in Positive
  BY <1>1 DEF MonthAt, Positive
<1>3. /\ MonthStart[m] \in Nat /\ MonthStart[m + 1] = MonthStart[m] + MonthLength(m)
      /\ MonthLength(m) \in 28..31
      /\ MonthStart[n] \in Positive /\ MonthLength(n) \in 28..31
  BY <1>1, <1>2, StartOfMonth, LengthOfMonth DEF Positive
<1>4. DayOfMonth(anchor) = anchor - MonthStart[m] + 1
  BY DEF DayOfMonth
<1>5. k > 0 => MonthStart[m] + MonthLength(m) <= MonthStart[n]
  <2>1. k > 0 => m < n
    BY <1>1, <1>2 DEF Positive
  <2>2. QED
    BY <1>1, <1>2, <2>1, MonthsInOrder
<1> HIDE DEF m, n
<1>6. CASE k = 0
  <2>1. n = m /\ FirstDay(anchor, k) = anchor - MonthStart[m] + 1
    BY <1>1, <1>2, <1>4, <1>6 DEF FirstDay, Positive
  <2>2. QED
    BY <1>1, <1>2, <1>3, <1>6, <2>1 DEF Positive, n
<1>7. CASE k > 0
  <2>1. FirstDay(anchor, k) = 1
    BY <1>7 DEF FirstDay
  <2>2. QED
    BY <1>1, <1>2, <1>3, <1>5, <1>7, <2>1 DEF Positive, n
<1>8. QED
  BY <1>6, <1>7

LEMMA MatchesFacts ==
  ASSUME NEW anchor \in Positive, NEW k \in Nat, NEW w
  PROVE  /\ Matches(anchor, k, w) \in SUBSET (1..31)
         /\ IsFiniteSet(Matches(anchor, k, w))
         /\ Cardinality(Matches(anchor, k, w)) \in Nat
<1>1. Matches(anchor, k, w) \in SUBSET (1..31)
  <2> DEFINE n == MonthLength(MonthAt(anchor, k))
  <2>1. n \in 28..31 /\ FirstDay(anchor, k) \in 1..n
    BY MonthAndFirstDay
  <2> HIDE DEF n
  <2>2. FirstDay(anchor, k)..n \subseteq 1..31
    BY <2>1
  <2>3. QED
    BY <2>2 DEF Matches, n
<1>2. IsFiniteSet(1..31)
  <2>1. 1 \in Int /\ 31 \in Int
    OBVIOUS
  <2>2. QED
    BY <2>1, FS_Interval, Zenon
<1>3. IsFiniteSet(Matches(anchor, k, w))
  BY <1>1, <1>2, FS_Subset
<1>4. QED
  BY <1>1, <1>3, FS_CardinalityType

LEMMA MonthlyDay ==
  ASSUME NEW f \in CadenceForms, NEW anchor \in Positive, NEW k \in Nat, NEW slot \in Slot(f)
  PROVE  LET date    == MonthlyDate(anchor, k, slot)
             matches == Matches(anchor, k, slot.dow)
             dom     == date - MonthStart[MonthAt(anchor, k)] + 1
         IN  /\ date \in Positive
             /\ MonthOf(date) = MonthAt(anchor, k)
             /\ date >= anchor
             /\ k > 0 => date > anchor
             /\ Cardinality(matches) > slot.nth =>
                  /\ Weekday(date) = slot.dow
                  /\ Cardinality({d \in matches : d < dom}) = slot.nth
<1> DEFINE m       == MonthAt(anchor, k)
           first   == FirstDay(anchor, k)
           matches == Matches(anchor, k, slot.dow)
           dom     == IF Cardinality(matches) > slot.nth
                      THEN Nth(matches, slot.nth + 1)
                      ELSE IF matches # {} THEN Max(matches) ELSE first
           date    == MonthStart[m] + dom - 1
<1>1. MonthlyDate(anchor, k, slot) = date
  BY DEF MonthlyDate, MonthAt, FirstDay, Matches
<1>2. /\ m \in Positive /\ MonthLength(m) \in 28..31 /\ MonthStart[m] \in Positive
      /\ first \in 1..MonthLength(m)
      /\ k = 0 => MonthStart[m] + first - 1 = anchor
      /\ k > 0 => MonthStart[m] > anchor
  BY MonthAndFirstDay
<1>3. /\ matches \in SUBSET (1..31) /\ IsFiniteSet(matches) /\ Cardinality(matches) \in Nat
  BY MatchesFacts
<1>4. matches = {d \in first..MonthLength(m) : Weekday(MonthStart[m] + d - 1) = slot.dow}
  BY DEF Matches
<1>5. slot.nth \in Nat
  BY DEF Slot
<1> HIDE DEF m, first, matches
<1>6. ASSUME Cardinality(matches) > slot.nth
      PROVE  dom \in matches /\ Cardinality({d \in matches : d < dom}) = slot.nth
  <2>1. slot.nth + 1 \in 1..Cardinality(matches) /\ (slot.nth + 1) - 1 = slot.nth
    BY <1>3, <1>5, <1>6
  <2>2. matches \in SUBSET Nat
    BY <1>3
  <2>3. dom = Nth(matches, slot.nth + 1)
    BY <1>6
  <2>4. QED
    BY <1>3, <2>1, <2>2, <2>3, NthOfSet
<1>7. dom \in first..MonthLength(m)
  <2>1. CASE Cardinality(matches) > slot.nth
    BY <1>4, <1>6, <2>1
  <2>2. CASE ~(Cardinality(matches) > slot.nth) /\ matches # {}
    <3>1. matches \in SUBSET (0..31) /\ 31 \in Nat
      BY <1>3
    <3>2. Max(matches) \in matches
      BY <2>2, <3>1, LargestNumber
    <3>3. QED
      BY <1>4, <2>2, <3>2
  <2>3. CASE ~(Cardinality(matches) > slot.nth) /\ matches = {}
    BY <1>2, <2>3
  <2>4. QED
    BY <2>1, <2>2, <2>3
<1> HIDE DEF dom
<1>8. dom \in 1..MonthLength(m) /\ dom >= first
  BY <1>2, <1>7
<1>9. date \in Positive /\ MonthOf(date) = m
  BY <1>2, <1>8, OneMonth
<1>10. date >= anchor /\ (k > 0 => date > anchor)
  BY <1>2, <1>8 DEF Positive
<1>11. date - MonthStart[m] + 1 = dom
  BY <1>2, <1>8 DEF Positive
<1>12. ASSUME Cardinality(matches) > slot.nth PROVE Weekday(date) = slot.dow
  BY <1>4, <1>6, <1>12
<1> HIDE DEF date
<1>13. QED
  BY <1>1, <1>6, <1>9, <1>10, <1>11, <1>12 DEF m, matches

LEMMA MonthlyCandidateIs ==
  ASSUME NEW f \in CadenceForms, NEW from \in Moment, NEW slot \in Slot(f)
  PROVE  LET c       == MonthlyCandidate(f, from, slot)
             Date(x) == MonthlyDate(Anchor(f, from), x, slot)
             hour    == HourOfSlot(f.pref, slot.nth)
         IN  /\ c \in Moment /\ c >= from
             /\ \/ c = 24 * Date(slot.period) + hour
                \/ /\ c = 24 * Date(slot.period + 1) + hour
                   /\ 24 * Date(slot.period) + hour < from
                   /\ slot.period = 0
                   /\ Date(0) = Anchor(f, from)
                   /\ slot.nth # 0
<1> DEFINE a       == Anchor(f, from)
           p       == slot.period
           hour    == HourOfSlot(f.pref, slot.nth)
           Date(x) == MonthlyDate(a, x, slot)
           At(x)   == 24 * Date(x) + hour
           P(k)    == At(p + k) >= from
           T       == {k \in 0..f.count : P(k)}
           k0      == CHOOSE k \in 0..f.count : P(k) /\ \A j \in 0..(k - 1) : ~P(j)
           c       == MonthlyCandidate(f, from, slot)
<1>1. p \in Nat /\ slot.nth \in 0..1
  BY DEF Slot
<1>2. f.pref \in 0..23 /\ f.count \in Positive
  BY FormFacts
<1>3. a \in Positive /\ 24 * a + f.pref >= from
  BY AnchorDay
<1>4. hour \in 0..23 /\ (slot.nth = 0 => hour = f.pref)
  BY <1>1, <1>2, HourFacts
<1>5. ASSUME NEW x \in Nat
      PROVE  Date(x) \in Positive /\ Date(x) >= a /\ (x > 0 => Date(x) > a)
  BY <1>3, MonthlyDay
<1>6. c = At(p + k0)
  BY DEF MonthlyCandidate, Least
<1>7. from \in Nat /\ a \in Nat /\ f.count \in Nat /\ f.count >= 1
  BY <1>2, <1>3 DEF Moment, Positive
<1> HIDE DEF a, hour, Date, c
<1>8. \A x \in Nat : At(x) \in Moment
  BY <1>4, <1>5, DayMoment
<1>9. ASSUME NEW x \in Nat, Date(x) > a PROVE At(x) >= from
  <2>1. Date(x) \in Nat
    BY <1>5 DEF Positive
  <2>2. QED
    BY <1>2, <1>3, <1>4, <1>7, <1>9, <2>1
<1>10. P(1)
  <2>1. p + 1 \in Nat /\ p + 1 > 0
    BY <1>1
  <2>2. QED
    BY <1>5, <1>9, <2>1
<1>11. ASSUME ~P(0) PROVE p = 0 /\ Date(0) = a /\ slot.nth # 0
  <2>0. p + 0 = p /\ 0 \in Nat
    BY <1>1
  <2>1. ~(Date(p) > a)
    BY <1>1, <1>9, <1>11, <2>0
  <2>2. Date(p) = a
    BY <1>1, <1>5, <1>7, <2>1 DEF Positive
  <2>3. p = 0
    BY <1>1, <1>5, <2>1
  <2>4. slot.nth # 0
    BY <1>3, <1>4, <1>11, <2>0, <2>2
  <2>5. QED
    BY <2>2, <2>3, <2>4
<1> HIDE DEF P
<1>12. 1 \in T
  BY <1>7, <1>10
<1>13. \E k \in 0..f.count : P(k) /\ \A j \in 0..(k - 1) : ~P(j)
  <2>1. T \in SUBSET (0..f.count) /\ T # {}
    BY <1>12
  <2> HIDE DEF T
  <2>2. \E k \in 0..f.count : k \in T /\ \A j \in 0..(k - 1) : j \in 0..f.count /\ j \notin T
    BY <1>7, <2>1, FirstNumber
  <2>3. QED
    BY <2>2 DEF T
<1>14. k0 \in 0..f.count /\ P(k0) /\ \A j \in 0..(k0 - 1) : ~P(j)
  BY <1>13
<1> HIDE DEF k0
<1>15. k0 = 0 \/ k0 = 1
  <2>1. 1 \notin 0..(k0 - 1)
    BY <1>10, <1>14
  <2>2. QED
    BY <1>14, <2>1
<1>16. p + k0 \in Nat
  BY <1>1, <1>15
<1>17. c \in Moment /\ c >= from
  BY <1>6, <1>8, <1>14, <1>16 DEF P
<1>18. CASE k0 = 0
  <2>1. c = At(p)
    BY <1>1, <1>6, <1>18
  <2>2. QED
    BY <1>17, <2>1 DEF a, hour, Date, c
<1>19. CASE k0 = 1
  <2>1. 0 \in 0..(k0 - 1)
    BY <1>19
  <2>2. ~P(0)
    BY <1>14, <2>1
  <2>3. p + 0 = p /\ At(p) \in Moment
    BY <1>1, <1>8
  <2>4. At(p) < from
    BY <1>7, <2>2, <2>3 DEF P, Moment
  <2>5. QED
    BY <1>6, <1>11, <1>17, <1>19, <2>2, <2>4 DEF a, hour, Date, c
<1>20. QED
  BY <1>15, <1>18, <1>19

-----------------------------------------------------------------------------
(* The rows of the form.                                                   *)

Candidates(f) == [i \in 1..f.count |-> Candidate(f, Slots(f)[i])]

LEMMA CandidatesFacts ==
  ASSUME NEW f \in CadenceForms
  PROVE  /\ Candidates(f) \in [1..f.count -> Moment]
         /\ \A i \in 1..f.count : Candidates(f)[i] >= From(f)
<1>1. ASSUME NEW i \in 1..f.count
      PROVE  Candidate(f, Slots(f)[i]) \in Moment /\ Candidate(f, Slots(f)[i]) >= From(f)
  <2>1. From(f) \in Moment
    BY FromIsMoment
  <2>2. Slots(f)[i] \in Slot(f)
    BY SlotFacts
  <2>3. /\ WeeklyCandidate(f, From(f), Slots(f)[i]) \in Moment
        /\ WeeklyCandidate(f, From(f), Slots(f)[i]) >= From(f)
    BY <2>1, <2>2, WeeklyCandidateIs
  <2>4. /\ MonthlyCandidate(f, From(f), Slots(f)[i]) \in Moment
        /\ MonthlyCandidate(f, From(f), Slots(f)[i]) >= From(f)
    BY <2>1, <2>2, MonthlyCandidateIs
  <2>5. QED
    BY <2>3, <2>4 DEF Candidate
<1>2. QED
  BY <1>1 DEF Candidates

LEMMA ModeOfCadence ==
  ASSUME NEW f \in CadenceForms
  PROVE  f.mode \in {"weekly", "monthly"} /\ f.count \in Nat
  BY NumberOfPosts DEF CadenceForms

LEMMA RowsAre ==
  ASSUME NEW f \in CadenceForms, f.count > 1
  PROVE  Rows(f) = Spread(f.mode, Candidates(f))
<1>1. f.mode \in {"weekly", "monthly"} /\ f.count \in Nat
  BY ModeOfCadence
<1>2. f.count # 1 /\ f.mode # "manual"
  BY <1>1
<1>3. QED
  BY <1>2 DEF Rows, Candidates

LEMMA RowsFacts ==
  ASSUME NEW f \in CadenceForms, f.count > 1
  PROVE  /\ Rows(f) \in [1..f.count -> Moment]
         /\ \A i \in 1..f.count : Rows(f)[i] >= From(f)
         /\ \A i \in 1..f.count : \A j \in 1..f.count : Rows(f)[i] = Rows(f)[j] => i = j
<1> DEFINE N == f.count
           ms == Candidates(f)
<1>1. f.mode \in {"weekly", "monthly"} /\ N \in Nat
  BY ModeOfCadence
<1>2. ms \in [1..N -> Moment] /\ \A i \in 1..N : ms[i] >= From(f)
  BY CandidatesFacts
<1>3. Rows(f) = Spread(f.mode, ms)
  BY RowsAre
<1>4. From(f) \in Moment
  BY FromIsMoment
<1> HIDE DEF N, ms
<1>5. /\ Rows(f) \in [1..N -> Moment]
      /\ \A n \in 1..N : Rows(f)[n] >= ms[n]
      /\ \A i \in 1..N : \A j \in 1..N : Rows(f)[i] = Rows(f)[j] => i = j
  BY <1>1, <1>2, <1>3, SpreadFacts
<1>6. ASSUME NEW i \in 1..N PROVE Rows(f)[i] >= From(f)
  <2>1. Rows(f)[i] \in Nat /\ ms[i] \in Nat /\ From(f) \in Nat
    BY <1>2, <1>4, <1>5 DEF Moment
  <2>2. QED
    BY <1>2, <1>5, <2>1
<1>7. QED
  BY <1>5, <1>6 DEF N

-----------------------------------------------------------------------------
(* The types of the form.                                                  *)

LEMMA TickedDays ==
  ASSUME NEW days \in (SUBSET (1..7)) \ {{}}
  PROVE  Cardinality(days) \in Positive
<1>1. IsFiniteSet(1..7)
  <2>1. 1 \in Int /\ 7 \in Int
    OBVIOUS
  <2>2. QED
    BY <2>1, FS_Interval, Zenon
<1>2. days \in SUBSET (1..7) /\ days # {}
  OBVIOUS
<1>3. IsFiniteSet(days)
  BY <1>1, <1>2, FS_Subset
<1>4. QED
  BY <1>2, <1>3, FS_CardinalityType, FS_EmptySet DEF Positive

\* What TypeOK says of the fields of the form.
Fields(f) ==
  /\ f.mode \in {"closed", "manual", "weekly", "monthly"}
  /\ f.count \in Nat \ {0} /\ f.per \in Nat \ {0} /\ f.per <= f.count
  /\ f.days \in (SUBSET (1..7)) \ {{}}
  /\ f.pref \in 0..23 /\ f.start \in StartDays \cup {0}
  /\ f.min \in Moment /\ f.given \in Moment

LEMMA FieldsOfForm ==
  ASSUME NEW f \in Form, f.per <= f.count PROVE Fields(f)
  BY DEF Form, Fields

LEMMA FreshForm ==
  ASSUME NEW n \in Nat \ {0}, clock \in Moment
  PROVE  /\ Fresh(n) \in Form /\ Fresh(n).per <= Fresh(n).count
         /\ Closed \in Form /\ Closed.per <= Closed.count
<1>1. DayOf(clock) \in Nat /\ clock % 24 \in 0..23
  BY MomentDay DEF Positive
<1>2. {Weekday(DayOf(clock))} \in (SUBSET (1..7)) \ {{}}
  BY <1>1, WeekdayFacts
<1>3. ASSUME NEW k \in Nat \ {0}
      PROVE  Fresh(k) \in Form /\ Fresh(k).per = 1 /\ Fresh(k).count = k
  BY <1>1, <1>2 DEF Fresh, Form
<1>4. Fresh(n) \in Form /\ Fresh(n).per <= Fresh(n).count
  BY <1>3
<1>5. Closed \in Form /\ Closed.per <= Closed.count
  <2>1. Fresh(1) \in Form /\ Fresh(1).per = 1 /\ Fresh(1).count = 1
    BY <1>3
  <2>2. Closed \in Form
    BY <2>1 DEF Closed, Form
  <2>3. Closed.per = Fresh(1).per /\ Closed.count = Fresh(1).count
    BY <2>1 DEF Closed, Form
  <2>4. QED
    BY <2>1, <2>2, <2>3
<1>6. QED
  BY <1>4, <1>5

LEMMA CadenceForm ==
  ASSUME TypeOK, HasCadence PROVE form \in CadenceForms
  BY DEF TypeOK, HasCadence, CadenceForms

LEMMA FormChanges ==
  ASSUME TypeOK, NEW f \in Form, f.per <= f.count, Change(f) PROVE TypeOK'
  BY DEF Change, TypeOK, Form

LEMMA TypeStep ==
  ASSUME TypeOK, [Next]_vars PROVE TypeOK'
<1>0. /\ clock \in Moment /\ prompts \in BOOLEAN
      /\ form \in Form /\ form.per <= form.count
  BY DEF TypeOK
<1>f. Fields(form)
  BY <1>0, FieldsOfForm
<1>c. Closed \in Form /\ Closed.per <= Closed.count
  BY <1>0, FreshForm
<1>1. CASE Open
  <2>1. PICK n \in Counts : form' = Fresh(n)
    BY <1>1 DEF Open
  <2>2. n \in Nat \ {0}
    BY ConstantsAssumption
  <2>3. form' \in Form /\ form'.per <= form'.count
    BY <1>0, <2>1, <2>2, FreshForm
  <2>4. QED
    BY <1>0, <1>1, <2>3 DEF Open, TypeOK, Form
<1>2. CASE PromptsArrive
  <2>1. form.count \in Nat \ {0}
    BY <1>f DEF Fields
  <2>2. Fresh(form.count) \in Form /\ Fresh(form.count).per <= Fresh(form.count).count
    BY <1>0, <2>1, FreshForm
  <2>3. form' = form \/ form' = Fresh(form.count)
    BY <1>2 DEF PromptsArrive
  <2>4. form' \in Form /\ form'.per <= form'.count
    BY <1>0, <2>2, <2>3
  <2>5. QED
    BY <1>0, <1>2, <2>4 DEF PromptsArrive, TypeOK, Form
<1>3. CASE RefreshMin
  <2> DEFINE f == [form EXCEPT !.min = clock]
  <2>1. f \in Form /\ f.per <= f.count
    BY <1>0 DEF Form
  <2>2. Change(f)
    BY <1>3 DEF RefreshMin
  <2> HIDE DEF f
  <2>3. QED
    BY <2>1, <2>2, FormChanges
<1>4. CASE Submit
  BY <1>0, <1>c, <1>4 DEF Submit, TypeOK, Form
<1>5. CASE Cancel
  BY <1>0, <1>c, <1>5 DEF Cancel, TypeOK, Form
<1>6. CASE Tick
  <2>1. clock' \in Moment
    BY <1>0, <1>6 DEF Tick, Moment
  <2>2. QED
    BY <1>0, <1>6, <2>1 DEF Tick, TypeOK, Form
<1>7. ASSUME NEW m \in {"manual", "weekly", "monthly"}, SetMode(m) PROVE TypeOK'
  <2> DEFINE per == IF m = "manual" THEN 1 ELSE Min({form.count, Cardinality(form.days)})
             f   == [form EXCEPT !.mode = m, !.per = per]
  <2>1. form.count \in Positive /\ Cardinality(form.days) \in Positive
    BY <1>f, TickedDays DEF Fields, Positive
  <2>2. Min({form.count, Cardinality(form.days)})
          = IF form.count <= Cardinality(form.days) THEN form.count ELSE Cardinality(form.days)
    BY <2>1, MinOfTwo DEF Positive
  <2>3. per \in Nat \ {0} /\ per <= form.count
    BY <2>1, <2>2 DEF Positive
  <2>4. Change(f)
    BY <1>7 DEF SetMode
  <2> HIDE DEF per
  <2>5. f \in Form /\ f.per = per /\ f.count = form.count
    BY <1>0, <2>3 DEF Form
  <2> HIDE DEF f
  <2>6. QED
    BY <2>3, <2>4, <2>5, FormChanges
<1>8. ASSUME NEW d \in PickDays, ToggleDay(d) PROVE TypeOK'
  <2> DEFINE next == IF d \in form.days THEN form.days \ {d} ELSE form.days \cup {d}
             days == IF next = {} THEN {d} ELSE next
             f    == [form EXCEPT !.days = days]
  <2>1. d \in 1..7 /\ form.days \in SUBSET (1..7)
    BY <1>f, ConstantsAssumption DEF Fields
  <2>2. days \in (SUBSET (1..7)) \ {{}}
    BY <2>1
  <2>3. Change(f)
    BY <1>8 DEF ToggleDay
  <2> HIDE DEF days
  <2>4. f \in Form /\ f.per <= f.count
    BY <1>0, <2>2 DEF Form
  <2> HIDE DEF f
  <2>5. QED
    BY <2>3, <2>4, FormChanges
<1>9. ASSUME NEW n \in 1..form.count, SetPer(n) PROVE TypeOK'
  <2> DEFINE f == [form EXCEPT !.per = n]
  <2>1. form.count \in Nat
    BY <1>f DEF Fields
  <2>2. n \in Nat \ {0} /\ n <= form.count
    BY <2>1
  <2>3. f \in Form /\ f.per <= f.count
    BY <1>0, <2>2 DEF Form
  <2>4. Change(f)
    BY <1>9 DEF SetPer
  <2> HIDE DEF f
  <2>5. QED
    BY <2>3, <2>4, FormChanges
<1>10. ASSUME NEW h \in Preferred, SetPreferred(h) PROVE TypeOK'
  <2> DEFINE f == [form EXCEPT !.pref = h]
  <2>1. h \in 0..23
    BY ConstantsAssumption
  <2>2. f \in Form /\ f.per <= f.count
    BY <1>0, <2>1 DEF Form
  <2>3. Change(f)
    BY <1>10 DEF SetPreferred
  <2> HIDE DEF f
  <2>4. QED
    BY <2>2, <2>3, FormChanges
<1>11. ASSUME NEW d \in StartDays, SetStart(d) PROVE TypeOK'
  <2> DEFINE f == [form EXCEPT !.start = d]
  <2>1. f \in Form /\ f.per <= f.count
    BY <1>0 DEF Form
  <2>2. Change(f)
    BY <1>11 DEF SetStart
  <2> HIDE DEF f
  <2>3. QED
    BY <2>1, <2>2, FormChanges
<1>12. CASE UNCHANGED vars
  BY <1>0, <1>12 DEF vars, TypeOK, Form
<1>13. QED
  BY <1>1, <1>2, <1>3, <1>4, <1>5, <1>6, <1>7, <1>8, <1>9, <1>10, <1>11, <1>12 DEF Next

LEMMA TypeInit == Init => TypeOK
<1>1. SUFFICES ASSUME Init PROVE TypeOK
  OBVIOUS
<1>2. clock \in Moment /\ prompts \in BOOLEAN /\ form = Closed
  BY <1>1, ConstantsAssumption DEF Init
<1>3. 1 \in Nat \ {0}
  OBVIOUS
<1>4. Closed \in Form /\ Closed.per <= Closed.count
  BY <1>2, <1>3, FreshForm
<1>5. QED
  BY <1>2, <1>4 DEF TypeOK

\* The form holds what the code declares, and a cadence never asks for more posts
\* in a week or month than there are articles.
THEOREM TypeCorrect == Spec => []TypeOK
<1>1. Init => TypeOK
  BY TypeInit
<1>2. TypeOK /\ [Next]_vars => TypeOK'
  BY TypeStep
<1>3. QED
  BY <1>1, <1>2, PTL DEF Spec

-----------------------------------------------------------------------------
(* What the cadences promise.                                              *)

LEMMA CadenceFormIs ==
  ASSUME TypeOK, Cadence
  PROVE  form \in CadenceForms /\ form.count > 1 /\ DOMAIN Rows(form) = 1..form.count
<1>1. form \in CadenceForms /\ form.count > 1
  BY CadenceForm DEF Cadence
<1>2. Rows(form) \in [1..form.count -> Moment]
  BY <1>1, RowsFacts
<1>3. QED
  BY <1>1, <1>2

\* Whatever is moved to avoid the past, a day that is full or another article, no
\* article gets a moment before the start that was chosen and no two the same one.
THEOREM ApartAndAfterStartHolds == Spec => []ApartAndAfterStart
<1>1. TypeOK => ApartAndAfterStart
  <2>1. SUFFICES ASSUME TypeOK, Cadence PROVE ApartAndAfterStart
    BY DEF ApartAndAfterStart
  <2>2. form \in CadenceForms /\ form.count > 1 /\ DOMAIN Rows(form) = 1..form.count
    BY <2>1, CadenceFormIs
  <2>3. /\ \A i \in 1..form.count : Rows(form)[i] >= From(form)
        /\ \A i \in 1..form.count : \A j \in 1..form.count : Rows(form)[i] = Rows(form)[j] => i = j
    BY <2>2, RowsFacts
  <2>4. QED
    BY <2>2, <2>3 DEF ApartAndAfterStart
<1>2. QED
  BY <1>1, TypeCorrect, PTL

\* A weekly post goes to its day of some week, at the hour of its place.
LEMMA WeeklyPost ==
  ASSUME NEW f \in CadenceForms, f.count > 1, f.mode = "weekly", NEW i \in 1..f.count
  PROVE  LET monday == MondayOf(Anchor(f, From(f)))
             slot   == Slots(f)[i]
             Day(x) == monday + 7 * x + slot.dow - 1
         IN  /\ monday \in Int /\ slot.dow \in f.days
             /\ \E x \in Nat : /\ Rows(f)[i] = 24 * Day(x) + HourOfSlot(f.pref, slot.nth)
                               /\ DayOf(Rows(f)[i]) = Day(x)
                               /\ Weekday(DayOf(Rows(f)[i])) = slot.dow
                               /\ MondayOf(DayOf(Rows(f)[i])) = monday + 7 * x
<1> DEFINE N      == f.count
           from   == From(f)
           a      == Anchor(f, from)
           monday == MondayOf(a)
           slot   == Slots(f)[i]
           w      == slot.dow
           hour   == HourOfSlot(f.pref, slot.nth)
           Day(x) == monday + 7 * x + w - 1
           ms     == Candidates(f)
           rows   == Rows(f)
<1>1. from \in Moment
  BY FromIsMoment
<1>2. a \in Positive
  BY <1>1, AnchorDay
<1>3. slot \in Slot(f)
  BY SlotFacts
<1>4. slot.period \in Nat /\ w \in f.days /\ slot.nth \in 0..1 /\ f.days \in SUBSET (1..7)
      /\ f.pref \in 0..23
  BY <1>3, FormFacts DEF Slot
<1>5. w \in 1..7
  BY <1>4
<1>6. hour \in 0..23
  BY <1>4, HourFacts
<1>7. ASSUME NEW x \in Nat
      PROVE  monday \in Int /\ Weekday(Day(x)) = w /\ MondayOf(Day(x)) = monday + 7 * x
  BY <1>2, <1>5, DayOfWeek
<1>8. monday \in Int
  <2>1. 0 \in Nat
    OBVIOUS
  <2>2. QED
    BY <1>7, <2>1
<1>9. \E x \in Nat : ms[i] = 24 * Day(x) + hour
  <2>1. Candidate(f, slot) = WeeklyCandidate(f, from, slot)
    BY DEF Candidate
  <2>2. ms[i] = WeeklyCandidate(f, from, slot)
    BY <2>1 DEF Candidates
  <2>3. \/ WeeklyCandidate(f, from, slot) = 24 * Day(slot.period) + hour
        \/ WeeklyCandidate(f, from, slot) = 24 * Day(slot.period + 1) + hour
    BY <1>1, <1>3, WeeklyCandidateIs
  <2>4. slot.period + 1 \in Nat
    BY <1>4
  <2> HIDE DEF slot, Day, hour, ms
  <2>5. QED
    BY <1>4, <2>2, <2>3, <2>4
<1>10. \E k \in Nat : rows[i] = ms[i] + Week * k
  <2>1. rows = Spread("weekly", ms) /\ N \in Nat /\ ms \in [1..N -> Moment]
    BY RowsAre, ModeOfCadence, CandidatesFacts
  <2> HIDE DEF rows, ms, N
  <2>2. i \in 1..N
    BY DEF N
  <2>3. Before(rows, i) \in Seq(Moment) /\ rows[i] = Alone("weekly", Before(rows, i), ms[i])
    BY <2>1, <2>2, SpreadGrows
  <2>4. ms[i] \in Moment
    BY <2>1, <2>2
  <2>5. QED
    BY <2>3, <2>4, AloneWeeks
<1>11. PICK x0 \in Nat : ms[i] = 24 * Day(x0) + hour
  BY <1>9
<1>12. PICK k \in Nat : rows[i] = ms[i] + Week * k
  BY <1>10
<1> DEFINE x == x0 + k
<1>13. rows[i] = 24 * Day(x) + hour /\ Day(x) \in Int
  <2> HIDE DEF rows, ms, hour, monday, w
  <2>1. QED
    BY <1>5, <1>6, <1>8, <1>11, <1>12 DEF Week
<1>14. DayOf(rows[i]) = Day(x)
  <2> HIDE DEF Day, hour
  <2>1. QED
    BY <1>6, <1>13, DayAndHour
<1>15. x \in Nat
  OBVIOUS
<1>16. Weekday(Day(x)) = w /\ MondayOf(Day(x)) = monday + 7 * x
  BY <1>7, <1>15
<1> HIDE DEF x
<1>17. /\ rows[i] = 24 * Day(x) + hour
       /\ DayOf(rows[i]) = Day(x)
       /\ Weekday(DayOf(rows[i])) = w
       /\ MondayOf(DayOf(rows[i])) = monday + 7 * x
  BY <1>13, <1>14, <1>16
<1>18. QED
  BY <1>4, <1>8, <1>15, <1>17

\* A weekly post stays on a ticked day, however often it is moved on.
THEOREM WeeklyOnPostingDaysHolds == Spec => []WeeklyOnPostingDays
<1>1. TypeOK => WeeklyOnPostingDays
  <2>1. SUFFICES ASSUME TypeOK, Cadence, form.mode = "weekly" PROVE WeeklyOnPostingDays
    BY DEF WeeklyOnPostingDays
  <2>2. form \in CadenceForms /\ form.count > 1 /\ DOMAIN Rows(form) = 1..form.count
    BY <2>1, CadenceFormIs
  <2>3. ASSUME NEW i \in 1..form.count PROVE Weekday(DayOf(Rows(form)[i])) \in form.days
    BY <2>1, <2>2, <2>3, WeeklyPost
  <2>4. QED
    BY <2>2, <2>3 DEF WeeklyOnPostingDays
<1>2. QED
  BY <1>1, TypeCorrect, PTL

LEMMA PlaceInPeriod ==
  ASSUME NEW f \in CadenceForms, NEW i \in 1..f.count
  PROVE  DayIndex(f, i) + Cardinality(f.days) * Slots(f)[i].nth \in 0..(f.per - 1)
<1> DEFINE D == Cardinality(f.days)
           e == DayIndex(f, i)
           nth == Slots(f)[i].nth
<1>1. D \in Positive /\ f.per \in Positive
  BY FormFacts
<1>2. i \in Positive /\ nth \in 0..1
  BY SlotFacts DEF Slot
<1>3. e \in 0..(D - 1) /\ e <= Turn(f, i) /\ Turn(f, i) \in 0..(f.per - 1)
  BY <1>2, TurnFacts
<1>4. nth # 0 => e + D < f.per
  <2>1. nth # 0 => ~OneTurn(f, i)
    BY OnePostADay
  <2> HIDE DEF D, e, nth
  <2>2. e + D < f.per <=> ~(e + D >= f.per)
    BY <1>1, <1>3 DEF Positive
  <2>3. QED
    BY <2>1, <2>2 DEF OneTurn, D, e
<1> HIDE DEF D, e, nth
<1>5. CASE nth = 0
  BY <1>1, <1>3, <1>5 DEF Positive, D, e, nth
<1>6. CASE nth = 1
  BY <1>1, <1>3, <1>4, <1>6 DEF Positive, D, e, nth
<1>7. QED
  BY <1>2, <1>5, <1>6

\* A place names a day and how many posts that day has before.
LEMMA OneSlotAPlace ==
  ASSUME NEW f \in CadenceForms, NEW i \in 1..f.count, NEW j \in 1..f.count,
         DayIndex(f, i) + Cardinality(f.days) * Slots(f)[i].nth
           = DayIndex(f, j) + Cardinality(f.days) * Slots(f)[j].nth
  PROVE  Slots(f)[i].dow = Slots(f)[j].dow /\ Slots(f)[i].nth = Slots(f)[j].nth
<1> DEFINE D == Cardinality(f.days)
           m == Slots(f)[i].nth
           n == Slots(f)[j].nth
           e == DayIndex(f, i)
           g == DayIndex(f, j)
<1>1. D \in Positive
  BY FormFacts
<1>2. i \in Positive /\ j \in Positive /\ m \in 0..1 /\ n \in 0..1
  BY SlotFacts DEF Slot
<1>3. e \in 0..(D - 1) /\ g \in 0..(D - 1)
  BY <1>2, TurnFacts
<1>4. e + D * m = g + D * n
  OBVIOUS
<1>5. Slots(f)[i].dow = PostingDay(f, e) /\ Slots(f)[j].dow = PostingDay(f, g)
  BY SlotFacts
<1> HIDE DEF D, m, n, e, g
<1>6. m = n /\ e = g
  <2>1. CASE m = 0 /\ n = 0
    BY <1>1, <1>3, <1>4, <2>1 DEF Positive
  <2>2. CASE m = 1 /\ n = 1
    BY <1>1, <1>3, <1>4, <2>2 DEF Positive
  <2>3. CASE m = 0 /\ n = 1
    BY <1>1, <1>3, <1>4, <2>3 DEF Positive
  <2>4. CASE m = 1 /\ n = 0
    BY <1>1, <1>3, <1>4, <2>4 DEF Positive
  <2>5. QED
    BY <1>2, <2>1, <2>2, <2>3, <2>4
<1>7. QED
  BY <1>5, <1>6 DEF m, n

\* Articles with different places in a period are no more than it has places.
LEMMA NoMoreThanPlaces ==
  ASSUME NEW N \in Nat, NEW p \in Positive, NEW S \in SUBSET (1..N), NEW g \in [S -> 0..(p - 1)],
         \A i \in S : \A j \in S : g[i] = g[j] => i = j
  PROVE  Cardinality(S) <= p
<1>1. IsFiniteSet(1..N) /\ IsFiniteSet(0..(p - 1)) /\ Cardinality(0..(p - 1)) = p
  <2>1. 0 \in Int /\ 1 \in Int /\ N \in Int /\ p - 1 \in Int
    BY DEF Positive
  <2>2. /\ IsFiniteSet(1..N) /\ IsFiniteSet(0..(p - 1))
        /\ Cardinality(0..(p - 1)) = IF 0 > p - 1 THEN 0 ELSE (p - 1) - 0 + 1
    BY <2>1, FS_Interval, Zenon
  <2>3. QED
    BY <2>2 DEF Positive
<1>2. IsFiniteSet(S) /\ Cardinality(S) \in Nat
  <2>1. IsFiniteSet(S)
    BY <1>1, FS_Subset
  <2>2. QED
    BY <2>1, FS_CardinalityType
<1>3. SUFFICES ASSUME p < Cardinality(S) PROVE FALSE
  BY <1>2 DEF Positive
<1>4. \E x \in S, y \in S : x # y /\ g[x] = g[y]
  <2> DEFINE P == 0..(p - 1)
  <2>1. IsFiniteSet(P) /\ Cardinality(P) < Cardinality(S) /\ g \in [S -> P]
    BY <1>1, <1>3
  <2> HIDE DEF P
  <2>2. QED
    BY <1>2, <2>1, FS_PigeonHole
<1>5. QED
  BY <1>4

\* No week gets more posts than were asked for.  A week of a cadence has one place
\* for each, a day and whether it is the day's first or second post, and an early
\* post that is moved on takes the place it had in a week where that is free.
THEOREM WeeklyQuotaHolds == Spec => []WeeklyQuota
<1>1. TypeOK => WeeklyQuota
  <2>1. SUFFICES ASSUME TypeOK, Cadence, form.mode = "weekly" PROVE WeeklyQuota
    BY DEF WeeklyQuota
  <2> DEFINE N        == form.count
             posts    == Rows(form)
             slots    == Slots(form)
             Mon(i)   == MondayOf(DayOf(posts[i]))
             Share(i) == {j \in 1..N : Mon(j) = Mon(i)}
             Place(i) == DayIndex(form, i) + Cardinality(form.days) * slots[i].nth
  <2>2. form \in CadenceForms /\ N > 1 /\ DOMAIN posts = 1..N
    BY <2>1, CadenceFormIs
  <2>3. ASSUME NEW i \in 1..N, NEW j \in 1..N, Mon(i) = Mon(j), Place(i) = Place(j)
        PROVE  i = j
    <3> DEFINE m == MondayOf(Anchor(form, From(form)))
    <3>1. slots[i].dow = slots[j].dow /\ slots[i].nth = slots[j].nth
      BY <2>2, <2>3, OneSlotAPlace
    <3>2. m \in Int
      BY <2>1, <2>2, WeeklyPost
    <3>3. PICK x \in Nat :
            /\ posts[i] = 24 * (m + 7 * x + slots[i].dow - 1) + HourOfSlot(form.pref, slots[i].nth)
            /\ Mon(i) = m + 7 * x
      BY <2>1, <2>2, WeeklyPost
    <3>4. PICK y \in Nat :
            /\ posts[j] = 24 * (m + 7 * y + slots[j].dow - 1) + HourOfSlot(form.pref, slots[j].nth)
            /\ Mon(j) = m + 7 * y
      BY <2>1, <2>2, WeeklyPost
    <3> HIDE DEF m
    <3>5. x = y
      BY <2>3, <3>2, <3>3, <3>4
    <3>6. posts[i] = posts[j]
      BY <3>1, <3>3, <3>4, <3>5
    <3>7. QED
      BY <2>2, <3>6, RowsFacts
  <2>4. ASSUME NEW i \in 1..N PROVE Cardinality(Share(i)) <= form.per
    <3> DEFINE S == Share(i)
               g == [j \in S |-> Place(j)]
    <3>1. S \in SUBSET (1..N) /\ \A j \in S : Mon(j) = Mon(i)
      OBVIOUS
    <3>2. N \in Nat /\ form.per \in Positive
      BY <2>2, FormFacts, ModeOfCadence
    <3>3. \A j \in 1..N : Place(j) \in 0..(form.per - 1)
      BY <2>2, PlaceInPeriod
    <3> HIDE DEF S, Place, Mon
    <3>4. g \in [S -> 0..(form.per - 1)]
      BY <3>1, <3>3
    <3>5. \A j \in S : \A k \in S : g[j] = g[k] => j = k
      BY <2>3, <3>1
    <3> HIDE DEF g, N
    <3>6. Cardinality(S) <= form.per
      BY <3>1, <3>2, <3>4, <3>5, NoMoreThanPlaces
    <3>7. QED
      BY <3>6 DEF S
  <2>5. QED
    BY <2>2, <2>4 DEF WeeklyQuota
<1>2. QED
  BY <1>1, TypeCorrect, PTL

-----------------------------------------------------------------------------
(* The months.                                                             *)

LEMMA TwoElements ==
  ASSUME NEW S, IsFiniteSet(S), NEW a \in S, NEW b \in S, a # b
  PROVE  Cardinality(S) >= 2
<1>1. IsFiniteSet({a}) /\ Cardinality({a}) = 1
  BY FS_Singleton
<1>2. b \notin {a}
  OBVIOUS
<1>3. IsFiniteSet({a} \cup {b}) /\ Cardinality({a} \cup {b}) = 2
  <2>1. Cardinality({a} \cup {b}) = Cardinality({a}) + 1
    BY <1>1, <1>2, FS_AddElement
  <2>2. IsFiniteSet({a} \cup {b})
    BY <1>1, <1>2, FS_AddElement
  <2>3. QED
    BY <1>1, <2>1, <2>2
<1>4. {a} \cup {b} \in SUBSET S
  OBVIOUS
<1>5. Cardinality({a} \cup {b}) <= Cardinality(S)
  BY <1>4, FS_Subset
<1>6. Cardinality(S) \in Nat
  BY FS_CardinalityType
<1>7. QED
  BY <1>3, <1>5, <1>6

\* A month that is searched from its first day has each weekday twice and more.
LEMMA TwoMatches ==
  ASSUME NEW anchor \in Positive, NEW k \in Positive, NEW w \in 1..7
  PROVE  Cardinality(Matches(anchor, k, w)) >= 2
<1> DEFINE m == MonthAt(anchor, k)
           s == MonthStart[m]
           S == Matches(anchor, k, w)
<1>1. k \in Nat /\ k > 0
  BY DEF Positive
<1>2. MonthLength(m) \in 28..31 /\ s \in Positive
  BY <1>1, MonthAndFirstDay
<1>3. S = {d \in 1..MonthLength(m) : Weekday(s + d - 1) = w}
  BY <1>1 DEF Matches, FirstDay
<1>4. IsFiniteSet(S)
  BY <1>1, MatchesFacts
<1> HIDE DEF s, S, m
<1> DEFINE x == FirstWeekday + s + 4
<1>5. x \in Nat
  BY <1>2, ConstantsAssumption DEF Positive
<1> HIDE DEF x
<1>6. PICK d \in 1..7 : ((x + d) % 7) + 1 = w
  BY <1>5, ModSeven
<1>7. FirstWeekday + (s + d - 1) + 5 = x + d /\ FirstWeekday + (s + (d + 7) - 1) + 5 = (x + d) + 7
  BY <1>2, ConstantsAssumption DEF x, Positive
<1>8. ((x + d) + 7) % 7 = (x + d) % 7
  BY <1>5
<1>9. Weekday(s + d - 1) = w /\ Weekday(s + (d + 7) - 1) = w
  BY <1>6, <1>7, <1>8 DEF Weekday
<1>10. d \in 1..MonthLength(m) /\ d + 7 \in 1..MonthLength(m) /\ d # d + 7
  BY <1>2
<1>11. d \in S /\ d + 7 \in S
  BY <1>3, <1>9, <1>10
<1>12. QED
  BY <1>4, <1>10, <1>11, TwoElements DEF S

\* The days that the first month still has.
DaysLeft(anchor) == anchor..(anchor + MonthLength(MonthOf(anchor)) - DayOfMonth(anchor))

LEMMA MatchesInFirstMonth ==
  ASSUME NEW anchor \in Positive, NEW w
  PROVE  Cardinality({d \in DaysLeft(anchor) : Weekday(d) = w}) <= Cardinality(Matches(anchor, 0, w))
<1> DEFINE m == MonthAt(anchor, 0)
           s == MonthStart[m]
           L == MonthLength(m)
           U == {d \in DaysLeft(anchor) : Weekday(d) = w}
           S == Matches(anchor, 0, w)
           g == [d \in U |-> d - s + 1]
<1>1. 0 \in Nat
  OBVIOUS
<1>2. /\ L \in 28..31 /\ s \in Positive
      /\ FirstDay(anchor, 0) \in 1..L
      /\ s + FirstDay(anchor, 0) - 1 = anchor
  BY <1>1, MonthAndFirstDay
<1>3. S = {d \in FirstDay(anchor, 0)..L : Weekday(s + d - 1) = w}
  BY DEF Matches
<1>4. MonthOf(anchor) \in Positive /\ m = MonthOf(anchor) /\ FirstDay(anchor, 0) = DayOfMonth(anchor)
  BY MonthOfDay DEF MonthAt, FirstDay, Positive
<1>5. DaysLeft(anchor) = anchor..(anchor + L - FirstDay(anchor, 0))
  BY <1>4 DEF DaysLeft
<1>6. IsFiniteSet(S)
  BY <1>1, MatchesFacts
<1> HIDE DEF S, s, L
<1>7. ASSUME NEW d \in U PROVE d \in Int /\ d - s + 1 \in S
  <2>1. d \in anchor..(anchor + L - FirstDay(anchor, 0)) /\ Weekday(d) = w
    BY <1>5
  <2>2. d - s + 1 \in FirstDay(anchor, 0)..L /\ s + (d - s + 1) - 1 = d
    BY <1>2, <2>1 DEF Positive
  <2>3. QED
    BY <1>3, <2>1, <2>2
<1> HIDE DEF U
<1>8. g \in [U -> S] /\ \A d \in U : \A e \in U : g[d] = g[e] => d = e
  BY <1>2, <1>7 DEF Positive
<1> HIDE DEF g
<1>9. g \in Injection(U, S)
  BY <1>8 DEF Injection, IsInjective
<1>10. Cardinality(U) <= Cardinality(S)
  BY <1>6, <1>9, FS_Injection
<1>11. QED
  BY <1>10 DEF U, S

\* Where article i of a monthly cadence goes in the month of its slot.
PostDay(f, i)   == MonthlyDate(Anchor(f, From(f)), Slots(f)[i].period, Slots(f)[i])
MonthlyMoment(f, i) == 24 * PostDay(f, i) + HourOfSlot(f.pref, Slots(f)[i].nth)

LEMMA MonthlyMomentFacts ==
  ASSUME NEW f \in CadenceForms, f.mode = "monthly", NEW i \in 1..f.count
  PROVE  LET anchor == Anchor(f, From(f))
             slot   == Slots(f)[i]
         IN  /\ anchor \in Positive /\ slot.period \in Nat /\ slot.nth \in 0..1
             /\ MonthlyMoment(f, i) \in Moment
             /\ DayOf(MonthlyMoment(f, i)) = PostDay(f, i)
             /\ MonthOf(PostDay(f, i)) = MonthAt(anchor, slot.period)
             /\ \/ Candidates(f)[i] = MonthlyMoment(f, i)
                \/ slot.period = 0 /\ PostDay(f, i) = anchor /\ slot.nth # 0
<1> DEFINE from   == From(f)
           anchor == Anchor(f, from)
           slot   == Slots(f)[i]
           day    == PostDay(f, i)
           hour   == HourOfSlot(f.pref, slot.nth)
<1>1. from \in Moment
  BY FromIsMoment
<1>2. anchor \in Positive
  BY <1>1, AnchorDay
<1>3. slot \in Slot(f)
  BY SlotFacts
<1>4. slot.period \in Nat /\ slot.nth \in 0..1 /\ f.pref \in 0..23
  BY <1>3, FormFacts DEF Slot
<1>5. hour \in 0..23
  BY <1>4, HourFacts
<1>6. day \in Positive /\ MonthOf(day) = MonthAt(anchor, slot.period)
  BY <1>2, <1>3, <1>4, MonthlyDay DEF PostDay
<1>7. MonthlyMoment(f, i) = 24 * day + hour
  BY DEF MonthlyMoment
<1>8. Candidates(f)[i] = MonthlyCandidate(f, from, slot)
  BY DEF Candidates, Candidate
<1>9. \/ Candidates(f)[i] = 24 * day + hour
      \/ slot.period = 0 /\ MonthlyDate(anchor, 0, slot) = anchor /\ slot.nth # 0
  BY <1>1, <1>3, <1>8, MonthlyCandidateIs DEF PostDay
<1>10. slot.period = 0 => MonthlyDate(anchor, 0, slot) = day
  BY DEF PostDay
<1> HIDE DEF day, hour
<1>11. 24 * day + hour \in Moment
  BY <1>5, <1>6, DayMoment
<1>12. DayOf(24 * day + hour) = day
  <2>1. day \in Int
    BY <1>6 DEF Positive
  <2>2. QED
    BY <1>5, <2>1, DayAndHour
<1>13. QED
  BY <1>2, <1>4, <1>6, <1>7, <1>9, <1>10, <1>11, <1>12 DEF day

\* From its anchor on, the first month has each ticked day as often as it is used.
Enough(f) ==
  \A w \in f.days :
    Cardinality({d \in DaysLeft(Anchor(f, From(f))) : Weekday(d) = w}) >= MaxPostsADay

LEMMA EnoughMatches ==
  ASSUME NEW f \in CadenceForms, Enough(f), NEW i \in 1..f.count
  PROVE  Cardinality(Matches(Anchor(f, From(f)), Slots(f)[i].period, Slots(f)[i].dow))
           > Slots(f)[i].nth
<1> DEFINE anchor == Anchor(f, From(f))
           p      == Slots(f)[i].period
           w      == Slots(f)[i].dow
           C      == Cardinality(Matches(anchor, p, w))
           C0     == Cardinality({d \in DaysLeft(anchor) : Weekday(d) = w})
<1>1. anchor \in Positive
  BY FromIsMoment, AnchorDay
<1>2. Slots(f)[i] \in Slot(f) /\ f.days \in SUBSET (1..7)
  BY SlotFacts, FormFacts
<1>3. p \in Nat /\ w \in f.days /\ w \in 1..7 /\ Slots(f)[i].nth \in 0..1
  BY <1>2 DEF Slot
<1>4. C \in Nat
  BY <1>1, <1>3, MatchesFacts
<1>5. C >= 2
  <2>1. CASE p = 0
    <3>1. C0 >= 2
      BY <1>3 DEF Enough, MaxPostsADay
    <3>2. C0 <= Cardinality(Matches(anchor, 0, w))
      BY <1>1, MatchesInFirstMonth
    <3>3. Cardinality(Matches(anchor, 0, w)) = C
      BY <2>1
    <3>4. IsFiniteSet({d \in DaysLeft(anchor) : Weekday(d) = w})
      <4>1. anchor \in Int /\ anchor + MonthLength(MonthOf(anchor)) - DayOfMonth(anchor) \in Int
        <5>1. MonthOf(anchor) \in Positive
          BY <1>1, MonthOfDay
        <5>2. MonthLength(MonthOf(anchor)) \in 28..31 /\ MonthStart[MonthOf(anchor)] \in Positive
          BY <5>1, LengthOfMonth, StartOfMonth
        <5>3. QED
          BY <1>1, <5>2 DEF DayOfMonth, Positive
      <4> HIDE DEF anchor
      <4>2. IsFiniteSet(DaysLeft(anchor))
        BY <4>1, FS_Interval, Zenon DEF DaysLeft
      <4>3. {d \in DaysLeft(anchor) : Weekday(d) = w} \in SUBSET DaysLeft(anchor)
        OBVIOUS
      <4>4. QED
        BY <4>2, <4>3, FS_Subset
    <3>5. C0 \in Nat
      BY <3>4, FS_CardinalityType
    <3> HIDE DEF C, C0
    <3>6. QED
      BY <1>4, <3>1, <3>2, <3>3, <3>5
  <2>2. CASE p # 0
    <3>1. p \in Positive
      BY <1>3, <2>2 DEF Positive
    <3>2. QED
      BY <1>1, <1>3, <3>1, TwoMatches
  <2>3. QED
    BY <2>1, <2>2
<1> HIDE DEF C
<1>6. C > Slots(f)[i].nth
  BY <1>3, <1>4, <1>5
<1>7. QED
  BY <1>6 DEF C

\* Then every article gets its weekday, as many into the month as its place says.
LEMMA MonthlyOnItsDay ==
  ASSUME NEW f \in CadenceForms, f.mode = "monthly", Enough(f), NEW i \in 1..f.count
  PROVE  LET anchor  == Anchor(f, From(f))
             slot    == Slots(f)[i]
             day     == PostDay(f, i)
             matches == Matches(anchor, slot.period, slot.dow)
         IN  /\ Weekday(day) = slot.dow /\ slot.dow \in f.days
             /\ Cardinality({d \in matches :
                               d < day - MonthStart[MonthAt(anchor, slot.period)] + 1}) = slot.nth
             /\ Candidates(f)[i] = MonthlyMoment(f, i)
<1> DEFINE anchor  == Anchor(f, From(f))
           slot    == Slots(f)[i]
           day     == PostDay(f, i)
           matches == Matches(anchor, slot.period, slot.dow)
           dom     == day - MonthStart[MonthAt(anchor, slot.period)] + 1
<1>1. anchor \in Positive /\ slot.period \in Nat
  BY MonthlyMomentFacts
<1>2. slot \in Slot(f) /\ slot.dow \in f.days
  BY SlotFacts DEF Slot
<1>3. Cardinality(matches) > slot.nth
  BY EnoughMatches
<1>4. Weekday(day) = slot.dow /\ Cardinality({d \in matches : d < dom}) = slot.nth
  BY <1>1, <1>2, <1>3, MonthlyDay DEF PostDay
<1>5. ASSUME slot.period = 0, day = anchor PROVE slot.nth = 0
  <2>1. /\ MonthStart[MonthAt(anchor, slot.period)] + FirstDay(anchor, slot.period) - 1 = anchor
        /\ MonthStart[MonthAt(anchor, slot.period)] \in Positive
        /\ FirstDay(anchor, slot.period) \in 1..MonthLength(MonthAt(anchor, slot.period))
        /\ MonthLength(MonthAt(anchor, slot.period)) \in 28..31
    BY <1>1, <1>5, MonthAndFirstDay
  <2>2. dom = FirstDay(anchor, slot.period)
    BY <1>5, <2>1 DEF Positive
  <2>3. ASSUME NEW d \in matches PROVE ~(d < dom)
    BY <2>1, <2>2 DEF Matches
  <2> HIDE DEF dom, matches
  <2>4. {d \in matches : d < dom} = {}
    BY <2>3
  <2>5. QED
    BY <1>4, <2>4, FS_EmptySet
<1>6. Candidates(f)[i] = MonthlyMoment(f, i)
  BY <1>5, MonthlyMomentFacts
<1>7. QED
  BY <1>2, <1>4, <1>6

LEMMA OneArticleADate ==
  ASSUME NEW f \in CadenceForms, f.mode = "monthly", Enough(f),
         NEW i \in 1..f.count, NEW j \in 1..f.count, PostDay(f, i) = PostDay(f, j)
  PROVE  i = j
<1> DEFINE anchor == Anchor(f, From(f))
           s      == Slots(f)[i]
           t      == Slots(f)[j]
<1>1. s.period = t.period
  <2>1. MonthAt(anchor, s.period) = MonthAt(anchor, t.period)
    BY MonthlyMomentFacts
  <2>2. s.period \in Nat /\ t.period \in Nat /\ MonthOf(anchor) \in Nat
    BY MonthlyMomentFacts, MonthOfDay DEF Positive
  <2>3. QED
    BY <2>1, <2>2 DEF MonthAt
<1>2. s.dow = t.dow /\ s.nth = t.nth
  <2> DEFINE Earlier(p, w, day) ==
               Cardinality({d \in Matches(anchor, p, w) : d < day - MonthStart[MonthAt(anchor, p)] + 1})
  <2>1. /\ Weekday(PostDay(f, i)) = s.dow
        /\ Earlier(s.period, s.dow, PostDay(f, i)) = s.nth
    BY MonthlyOnItsDay
  <2>2. /\ Weekday(PostDay(f, j)) = t.dow
        /\ Earlier(t.period, t.dow, PostDay(f, j)) = t.nth
    BY MonthlyOnItsDay
  <2> HIDE DEF Earlier, s, t
  <2>3. QED
    BY <1>1, <2>1, <2>2
<1>3. i \in Nat /\ j \in Nat /\ s.nth \in Nat /\ t.nth \in Nat
  BY NumberOfPosts, MonthlyMomentFacts
<1>4. ~(i < j)
  <2>1. i < j => s.nth < t.nth
    BY <1>1, <1>2, PlacesDiffer
  <2>2. QED
    BY <1>2, <1>3, <2>1
<1>5. ~(j < i)
  <2>1. j < i => t.nth < s.nth
    BY <1>1, <1>2, PlacesDiffer
  <2>2. QED
    BY <1>2, <1>3, <2>1
<1>6. QED
  BY <1>3, <1>4, <1>5

LEMMA MonthlyPostsStay ==
  ASSUME NEW f \in CadenceForms, f.mode = "monthly", f.count > 1, Enough(f)
  PROVE  \A i \in 1..f.count : Rows(f)[i] = MonthlyMoment(f, i)
<1> DEFINE N  == f.count
           ms == Candidates(f)
<1>1. N \in Nat /\ ms \in [1..N -> Moment] /\ Rows(f) = Spread("monthly", ms)
  BY ModeOfCadence, CandidatesFacts, RowsAre
<1>2. \A i \in 1..N : ms[i] = MonthlyMoment(f, i)
  BY MonthlyOnItsDay
<1>3. ASSUME NEW i \in 1..N, NEW j \in 1..N, ms[i] = ms[j] PROVE i = j
  <2>1. PostDay(f, i) = PostDay(f, j)
    BY <1>2, <1>3, MonthlyMomentFacts
  <2>2. QED
    BY <2>1, OneArticleADate
<1> HIDE DEF N, ms
<1>4. \A i \in 1..N : Spread("monthly", ms)[i] = ms[i]
  BY <1>1, <1>3, SpreadKeeps
<1>5. QED
  BY <1>1, <1>2, <1>4 DEF N

\* Monthly posts stay on the ticked days, and a month gets no more than were asked
\* for, if the first month still has its ticked days as often as they are used.
THEOREM MonthlyPlanHolds == Spec => []MonthlyPlan
<1>1. TypeOK => MonthlyPlan
  <2> DEFINE anchor == Anchor(form, From(form))
             N        == form.count
             posts    == Rows(form)
             slots    == Slots(form)
             Month(i) == MonthOf(DayOf(posts[i]))
             Share(i) == {j \in 1..N : Month(j) = Month(i)}
             Place(i) == DayIndex(form, i) + Cardinality(form.days) * slots[i].nth
  <2>1. SUFFICES ASSUME TypeOK, Cadence, form.mode = "monthly", Enough(form)
                 PROVE  \A i \in DOMAIN posts :
                          /\ Weekday(DayOf(posts[i])) \in form.days
                          /\ Cardinality({j \in DOMAIN posts : Month(j) = Month(i)}) <= form.per
    BY DEF MonthlyPlan, Enough, DaysLeft
  <2>2. form \in CadenceForms /\ N > 1 /\ DOMAIN posts = 1..N
    BY <2>1, CadenceFormIs
  <2>3. ASSUME NEW i \in 1..N
        PROVE  /\ posts[i] = MonthlyMoment(form, i)
               /\ DayOf(posts[i]) = PostDay(form, i)
               /\ Weekday(DayOf(posts[i])) = slots[i].dow /\ slots[i].dow \in form.days
               /\ Month(i) = MonthAt(anchor, slots[i].period)
               /\ slots[i].period \in Nat
    <3>1. posts[i] = MonthlyMoment(form, i)
      BY <2>1, <2>2, MonthlyPostsStay
    <3>2. /\ DayOf(MonthlyMoment(form, i)) = PostDay(form, i)
          /\ MonthOf(PostDay(form, i)) = MonthAt(anchor, slots[i].period)
          /\ slots[i].period \in Nat
      BY <2>1, <2>2, MonthlyMomentFacts
    <3>3. Weekday(PostDay(form, i)) = slots[i].dow /\ slots[i].dow \in form.days
      BY <2>1, <2>2, MonthlyOnItsDay
    <3>4. QED
      BY <3>1, <3>2, <3>3
  <2>4. MonthOf(anchor) \in Nat
    <3>1. anchor \in Positive
      BY <2>2, FromIsMoment, AnchorDay
    <3>2. QED
      BY <3>1, MonthOfDay DEF Positive
  <2>5. ASSUME NEW i \in 1..N, NEW j \in 1..N, Month(i) = Month(j), Place(i) = Place(j)
        PROVE  i = j
    <3>1. slots[i].dow = slots[j].dow /\ slots[i].nth = slots[j].nth
      BY <2>2, <2>5, OneSlotAPlace
    <3>2. slots[i].period = slots[j].period
      BY <2>3, <2>4, <2>5 DEF MonthAt
    <3>3. i \in Nat /\ j \in Nat /\ slots[i].nth \in Nat /\ slots[j].nth \in Nat
      BY <2>1, <2>2, NumberOfPosts, MonthlyMomentFacts
    <3>4. i < j => slots[i].nth < slots[j].nth
      BY <2>2, <3>1, <3>2, PlacesDiffer
    <3>5. j < i => slots[j].nth < slots[i].nth
      BY <2>2, <3>1, <3>2, PlacesDiffer
    <3>6. QED
      BY <3>1, <3>3, <3>4, <3>5
  <2>6. ASSUME NEW i \in 1..N PROVE Cardinality(Share(i)) <= form.per
    <3> DEFINE S == Share(i)
               g == [j \in S |-> Place(j)]
    <3>1. S \in SUBSET (1..N) /\ \A j \in S : Month(j) = Month(i)
      OBVIOUS
    <3>2. N \in Nat /\ form.per \in Positive
      BY <2>2, FormFacts, ModeOfCadence
    <3>3. \A j \in 1..N : Place(j) \in 0..(form.per - 1)
      BY <2>2, PlaceInPeriod
    <3> HIDE DEF S, Place, Month
    <3>4. g \in [S -> 0..(form.per - 1)]
      BY <3>1, <3>3
    <3>5. \A j \in S : \A k \in S : g[j] = g[k] => j = k
      BY <2>5, <3>1
    <3> HIDE DEF g, N
    <3>6. Cardinality(S) <= form.per
      BY <3>1, <3>2, <3>4, <3>5, NoMoreThanPlaces
    <3>7. QED
      BY <3>6 DEF S
  <2>7. QED
    BY <2>2, <2>3, <2>6
<1>2. QED
  BY <1>1, TypeCorrect, PTL

-----------------------------------------------------------------------------
(* One post in each week or month.                                         *)

LEMMA OneSlotAPeriod ==
  ASSUME NEW f \in CadenceForms, f.per = 1, NEW i \in 1..f.count
  PROVE  LET slot == Slots(f)[i]
         IN  slot.period = i - 1 /\ slot.nth = 0 /\ slot.dow = PostingDay(f, 0)
<1> DEFINE D == Cardinality(f.days)
<1>1. i \in Positive /\ D \in Positive
  BY SlotFacts, FormFacts
<1>2. Turn(f, i) \in 0..(1 - 1) /\ DayIndex(f, i) \in 0..(D - 1) /\ DayIndex(f, i) <= Turn(f, i)
  BY <1>1, TurnFacts
<1> HIDE DEF D
<1>3. DayIndex(f, i) = 0
  BY <1>1, <1>2
<1>4. OneTurn(f, i)
  BY <1>1, <1>3 DEF OneTurn, D, Positive
<1>5. Slots(f)[i].period = (i - 1) \div f.per /\ Slots(f)[i].nth = 0
  BY <1>4, OnePostADay
<1>6. (i - 1) \div 1 = i - 1
  <2>1. i - 1 \in Nat
    BY <1>1 DEF Positive
  <2>2. QED
    BY <2>1
<1>7. QED
  BY <1>3, <1>5, <1>6, SlotFacts

LEMMA OnePostAMonth ==
  ASSUME NEW f \in CadenceForms, f.mode = "monthly", f.count > 1, f.per = 1,
         NEW i \in 1..f.count
  PROVE  MonthOf(DayOf(Rows(f)[i])) = MonthOf(Anchor(f, From(f))) + i - 1
<1> DEFINE N        == f.count
           ms       == Candidates(f)
           first    == MonthOf(Anchor(f, From(f)))
           Month(k) == MonthOf(DayOf(ms[k]))
<1>1. N \in Nat /\ ms \in [1..N -> Moment] /\ Rows(f) = Spread("monthly", ms)
  BY ModeOfCadence, CandidatesFacts, RowsAre
<1>2. first \in Nat
  BY FromIsMoment, AnchorDay, MonthOfDay DEF Positive
<1>3. ASSUME NEW k \in 1..N PROVE Month(k) = first + (k - 1)
  <2>1. Slots(f)[k].period = k - 1 /\ Slots(f)[k].nth = 0
    BY OneSlotAPeriod
  <2>2. ms[k] = MonthlyMoment(f, k)
    BY <2>1, MonthlyMomentFacts
  <2>3. Month(k) = MonthAt(Anchor(f, From(f)), Slots(f)[k].period)
    BY <2>2, MonthlyMomentFacts
  <2>4. QED
    BY <2>1, <2>3 DEF MonthAt
<1> HIDE DEF N, ms, first
<1>4. ASSUME NEW k \in 1..N, NEW j \in 1..N, ms[k] = ms[j] PROVE k = j
  <2>1. first + (k - 1) = first + (j - 1)
    BY <1>3, <1>4
  <2>2. QED
    BY <1>2, <2>1
<1>5. \A k \in 1..N : Spread("monthly", ms)[k] = ms[k]
  BY <1>1, <1>4, SpreadKeeps
<1>6. i \in 1..N
  BY DEF N
<1>7. QED
  BY <1>1, <1>2, <1>3, <1>5, <1>6 DEF first

\* If the first article would be too early it moves on by a week, and then each
\* of the others, whose moment it or the one before has taken.
LEMMA MovedAlong ==
  ASSUME NEW N \in Nat, NEW m \in Moment, NEW ms \in [1..N -> Moment],
         \A i \in 1..N : ms[i] = IF i = 1 THEN m ELSE m + Week * (i - 2)
  PROVE  \A i \in 1..N : Spread("weekly", ms)[i] = m + Week * (i - 1)
<1> DEFINE s     == Spread("weekly", ms)
           At(i) == m + Week * (i - 1)
           T     == {n \in 1..N : s[n] # At(n)}
<1>1. SUFFICES ASSUME T # {} PROVE FALSE
  OBVIOUS
<1>2. T \in SUBSET Nat
  OBVIOUS
<1>3. PICK n \in T : \A j \in T : n <= j
  <2> HIDE DEF T
  <2>1. QED
    BY <1>1, <1>2, LeastNumber
<1>4. n \in 1..N /\ s[n] # At(n) /\ ms[n] \in Moment /\ m \in Nat
  BY <1>3 DEF Moment
<1>5. /\ s \in [1..N -> Moment]
      /\ Before(s, n) \in Seq(Moment)
      /\ s[n] = Alone("weekly", Before(s, n), ms[n])
  BY <1>4, SpreadGrows
<1>6. /\ Len(Before(s, n)) = n - 1
      /\ \A j \in 1..(n - 1) : Before(s, n)[j] = s[j]
  <2>1. n \in Nat \ {0}
    BY <1>4
  <2>2. QED
    BY <2>1, BeforeFacts
<1>7. ASSUME NEW j \in 1..(n - 1) PROVE s[j] = At(j)
  <2>1. j \in 1..N /\ ~(n <= j)
    BY <1>4
  <2>2. QED
    BY <1>3, <2>1
<1> HIDE DEF s
<1>8. CASE n = 1
  <2>1. \A j \in 1..Len(Before(s, n)) : Before(s, n)[j] # ms[n]
    BY <1>6, <1>8
  <2>2. s[n] = ms[n]
    BY <1>4, <1>5, <2>1, AloneFacts
  <2>3. QED
    BY <1>4, <1>8, <2>2 DEF Week
<1>9. CASE n # 1
  <2>1. n - 1 \in 1..(n - 1) /\ ms[n] = At(n - 1)
    BY <1>4, <1>9 DEF Week
  <2>2. \E j \in 1..Len(Before(s, n)) : Before(s, n)[j] = ms[n]
    BY <1>6, <1>7, <2>1
  <2>3. Later("weekly", ms[n]) = At(n)
    BY <1>4, <2>1 DEF Later, NextWeek, Week
  <2>4. ASSUME NEW j \in 1..(n - 1) PROVE At(j) # At(n)
    BY <1>4 DEF Week
  <2>5. \A j \in 1..Len(Before(s, n)) : Before(s, n)[j] # Later("weekly", ms[n])
    BY <1>6, <1>7, <2>3, <2>4
  <2> HIDE DEF At
  <2>6. s[n] = Later("weekly", ms[n])
    BY <1>4, <1>5, <2>2, <2>5, AloneFacts
  <2>7. QED
    BY <1>4, <2>3, <2>6
<1>10. QED
  BY <1>8, <1>9

LEMMA OnePostAWeek ==
  ASSUME NEW f \in CadenceForms, f.mode = "weekly", f.count > 1, f.per = 1
  PROVE  \E m \in Nat : \A i \in 1..f.count : Rows(f)[i] = m + Week * (i - 1)
<1> DEFINE N      == f.count
           ms     == Candidates(f)
           from   == From(f)
           monday == MondayOf(Anchor(f, from))
           w      == PostingDay(f, 0)
           m      == 24 * (monday + w - 1) + f.pref
           At(x)  == m + Week * x
<1>1. N \in Nat /\ ms \in [1..N -> Moment] /\ Rows(f) = Spread("weekly", ms) /\ N > 1
  BY ModeOfCadence, CandidatesFacts, RowsAre
<1>2. from \in Moment /\ f.pref \in 0..23 /\ f.days \in SUBSET (1..7)
  BY FromIsMoment, FormFacts
<1>3. w \in 1..7
  <2>1. 1 \in 1..f.count
    BY <1>1
  <2>2. w = Slots(f)[1].dow /\ Slots(f)[1] \in Slot(f)
    BY <2>1, OneSlotAPeriod, SlotFacts
  <2>3. QED
    BY <1>2, <2>2 DEF Slot
<1>4. monday \in Int
  BY <1>2, <1>3, AnchorDay, DayOfWeek
<1>5. m \in Int
  BY <1>2, <1>3, <1>4
<1>6. ASSUME NEW i \in 1..N
      PROVE  /\ ms[i] \in Moment /\ ms[i] >= from
             /\ ms[i] = At(i - 1) \/ (ms[i] = At(i) /\ At(i - 1) < from)
  <2> DEFINE slot == Slots(f)[i]
             Then(x) == 24 * (monday + 7 * x + slot.dow - 1) + HourOfSlot(f.pref, slot.nth)
  <2>1. slot.period = i - 1 /\ slot.nth = 0 /\ slot.dow = w
    BY OneSlotAPeriod
  <2>2. HourOfSlot(f.pref, slot.nth) = f.pref
    BY <2>1 DEF HourOfSlot
  <2>3. ms[i] = WeeklyCandidate(f, from, slot)
    BY DEF Candidates, Candidate
  <2>4. slot \in Slot(f)
    BY SlotFacts
  <2>5. /\ ms[i] \in Moment /\ ms[i] >= from
        /\ \/ ms[i] = Then(slot.period)
           \/ ms[i] = Then(slot.period + 1) /\ Then(slot.period) < from
    BY <1>2, <2>3, <2>4, WeeklyCandidateIs
  <2>6. Then(slot.period) = At(i - 1) /\ Then(slot.period + 1) = At(i)
    <3> HIDE DEF slot, monday, w
    <3>1. i \in Int /\ (i - 1) + 1 = i
      BY <1>1
    <3>2. QED
      BY <1>2, <1>3, <1>4, <2>1, <2>2, <3>1 DEF Week
  <2>7. QED
    BY <2>5, <2>6
<1> HIDE DEF N, ms, m, from
<1>7. from \in Nat /\ 1 \in 1..N
  BY <1>1, <1>2 DEF Moment
<1>8. ms[1] = At(0) \/ (ms[1] = At(1) /\ At(0) < from)
  BY <1>6, <1>7
<1>9. At(1) >= from
  BY <1>5, <1>6, <1>7, <1>8 DEF Week
<1>10. ASSUME NEW i \in 2..N PROVE ms[i] = At(i - 1)
  <2>1. i \in 1..N /\ At(i - 1) >= from
    BY <1>1, <1>5, <1>7, <1>9 DEF Week
  <2>2. QED
    BY <1>5, <1>6, <1>7, <2>1 DEF Week
<1>11. CASE ms[1] = At(0)
  <2>1. \A i \in 1..N : ms[i] = m + Week * (i - 1)
    <3>1. ASSUME NEW i \in 1..N PROVE ms[i] = m + Week * (i - 1)
      <4>1. i = 1 \/ i \in 2..N
        BY <1>1
      <4>2. QED
        BY <1>10, <1>11, <4>1
    <3>2. QED
      BY <3>1
  <2>2. ASSUME NEW i \in 1..N, NEW j \in 1..N, ms[i] = ms[j] PROVE i = j
    <3>1. m + Week * (i - 1) = m + Week * (j - 1)
      BY <2>1, <2>2
    <3>2. QED
      BY <1>1, <1>5, <3>1 DEF Week
  <2>3. \A i \in 1..N : Rows(f)[i] = ms[i]
    BY <1>1, <2>2, SpreadKeeps
  <2>4. m \in Nat
    <3>1. ms[1] = m
      BY <1>5, <1>11 DEF Week
    <3>2. QED
      BY <1>1, <1>7, <3>1 DEF Moment
  <2>5. QED
    BY <2>1, <2>3, <2>4 DEF N
<1>12. CASE ms[1] = At(1)
  <2> DEFINE m1 == m + Week
  <2>1. ms[1] = m1
    BY <1>5, <1>12 DEF Week
  <2>2. m1 \in Moment
    BY <1>1, <1>7, <2>1
  <2>3. ASSUME NEW i \in 1..N PROVE ms[i] = IF i = 1 THEN m1 ELSE m1 + Week * (i - 2)
    <3>1. CASE i = 1
      BY <2>1, <3>1
    <3>2. CASE i # 1
      <4>1. i \in 2..N
        BY <1>1, <3>2
      <4>2. ms[i] = m + Week * (i - 1)
        BY <1>10, <4>1
      <4>3. m + Week * (i - 1) = m1 + Week * (i - 2)
        BY <1>5, <4>1 DEF Week
      <4>4. QED
        BY <3>2, <4>2, <4>3
    <3>3. QED
      BY <3>1, <3>2
  <2> HIDE DEF m1
  <2>4. \A i \in 1..N : Rows(f)[i] = m1 + Week * (i - 1)
    BY <1>1, <2>2, <2>3, MovedAlong
  <2>5. m1 \in Nat
    BY <2>2 DEF Moment
  <2>6. QED
    BY <2>4, <2>5 DEF N
<1>13. QED
  BY <1>8, <1>11, <1>12

\* One post a week goes out every week, also when the first has to move on, and one
\* a month every month, in the order of the articles.
THEOREM EveryPeriodHolds == Spec => []EveryPeriod
<1>1. TypeOK => EveryPeriod
  <2> DEFINE N     == form.count
             posts == Rows(form)
  <2>1. SUFFICES ASSUME TypeOK, Cadence, form.per = 1, NEW i \in 1..(N - 1)
                 PROVE  IF form.mode = "weekly" THEN posts[i + 1] = posts[i] + Week
                        ELSE MonthOf(DayOf(posts[i + 1])) = MonthOf(DayOf(posts[i])) + 1
    BY DEF EveryPeriod
  <2>2. form \in CadenceForms /\ N > 1 /\ form.mode \in {"weekly", "monthly"} /\ N \in Nat
    BY <2>1, CadenceFormIs, ModeOfCadence
  <2>3. i \in 1..N /\ i + 1 \in 1..N
    BY <2>2
  <2>4. CASE form.mode = "weekly"
    <3>1. PICK m \in Nat : \A k \in 1..N : posts[k] = m + Week * (k - 1)
      BY <2>1, <2>2, <2>4, OnePostAWeek
    <3>2. posts[i] = m + Week * (i - 1) /\ posts[i + 1] = m + Week * ((i + 1) - 1)
      BY <2>3, <3>1
    <3> HIDE DEF posts
    <3>3. QED
      BY <2>3, <2>4, <3>2 DEF Week
  <2>5. CASE form.mode = "monthly"
    <3> DEFINE first == MonthOf(Anchor(form, From(form)))
    <3>1. first \in Nat
      BY <2>2, FromIsMoment, AnchorDay, MonthOfDay DEF Positive
    <3>2. /\ MonthOf(DayOf(posts[i])) = first + i - 1
          /\ MonthOf(DayOf(posts[i + 1])) = first + (i + 1) - 1
      BY <2>1, <2>2, <2>3, <2>5, OnePostAMonth
    <3> HIDE DEF first, posts
    <3>3. QED
      BY <2>3, <2>5, <3>1, <3>2
  <2>6. QED
    BY <2>2, <2>4, <2>5
<1>2. QED
  BY <1>1, TypeCorrect, PTL

=============================================================================
