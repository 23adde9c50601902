----------------------------- MODULE BulkSchedule -----------------------------
(***************************************************************************)
(* The form that schedules several articles at once: which moments a       *)
(* weekly or monthly cadence proposes, and which proposals it lets pass.   *)
(*                                                                         *)
(* A moment is an hour of the profile's wall clock, 24 * day + hour, in a  *)
(* zone without clock changes; day 1 is the first of month 1.  Whole hours *)
(* stand for all times of day.  The moments of the manual mode, which the  *)
(* user types, are left out.                                               *)
(***************************************************************************)
EXTENDS Naturals, Sequences, FiniteSetsExt

CONSTANTS
  MonthLengths,  \* lengths of months 1, 2, ..., repeated for ever
  FirstWeekday,  \* ISO weekday of day 1
  Counts,        \* numbers of selected articles
  PickDays,      \* weekdays the user may tick
  Preferred,     \* hours the user may prefer
  StartDays,     \* start dates the user may choose; 0 is none
  Opening,       \* moments at which the form may be opened
  MaxWait        \* bound: hours that pass

Moment == Nat \ (0..23)  \* from day 1 on

ASSUME ConstantsAssumption ==
  /\ MonthLengths \in Seq(28..31) /\ MonthLengths # <<>>
  /\ FirstWeekday \in 1..7 /\ PickDays \subseteq 1..7
  /\ Counts \subseteq Nat \ {0} /\ Preferred \subseteq 0..23
  /\ StartDays \subseteq Nat /\ Opening \subseteq Moment /\ MaxWait \in Nat

VARIABLES
  clock,   \* the earliest moment that may be scheduled: now and ten minutes
  form,    \* what the form holds; min is the clock as the form last saw it, given
           \* as it was when the form was filled in
  prompts  \* have the prompts of the project arrived?

vars == <<clock, form, prompts>>

-----------------------------------------------------------------------------
(* The calendar.                                                           *)

MonthLength(m) == MonthLengths[((m - 1) % Len(MonthLengths)) + 1]
MonthStart[m \in Nat \ {0}] ==
  IF m = 1 THEN 1 ELSE MonthStart[m - 1] + MonthLength(m - 1)

MonthOf(day)    == CHOOSE m \in 1..day : MonthStart[m] <= day /\ day < MonthStart[m + 1]
DayOfMonth(day) == day - MonthStart[MonthOf(day)] + 1
DayOf(moment)   == moment \div 24
Weekday(day)    == ((FirstWeekday + day + 5) % 7) + 1
MondayOf(day)   == day + 1 - Weekday(day)   \* the first may fall before day 1
Week            == 7 * 24

\* addMonths by one: a date that the next month lacks runs over into the month
\* after it, and there takes the old day of the month again.
NextMonth(moment) ==
  LET day  == DayOf(moment)
      dom  == DayOfMonth(day)
      next == MonthOf(day) + 1
      m    == IF dom <= MonthLength(next) THEN next ELSE next + 1
  IN  24 * (MonthStart[m] + Min({dom, MonthLength(m)}) - 1) + (moment % 24)

\* Mutant of NextWeek: to the next day.
NextDay(moment) == moment + 24

NextWeek(moment) == moment + Week

-----------------------------------------------------------------------------
(* The moments of a cadence.                                               *)

MaxPostsADay == 2

\* The number of steps, at most n, until something is good.
Least(n, Good(_)) == CHOOSE k \in 0..n : Good(k) /\ \A j \in 0..(k - 1) : ~Good(j)

\* timeForSameDaySlot: later posts of a day come two hours apart, until nine.
HourOfSlot(pref, nth) ==
  IF nth = 0 THEN pref ELSE Min({pref + 2 * nth, 21})

\* The first posting day whose preferred hour is not before the moment from.
Anchor(f, from) ==
  LET today == DayOf(from)
  IN  today + Least(7, LAMBDA k : /\ Weekday(today + k) \in f.days
                                  /\ 24 * (today + k) + f.pref >= from)

\* The nth of a set of numbers, smallest first.
Nth(S, n) == CHOOSE x \in S : Cardinality({y \in S : y < x}) = n - 1

\* The posts that fall on a day that some of the articles were given.
OnDay(slots, period, dow) == {i \in DOMAIN slots : slots[i].period = period /\ slots[i].dow = dow}
Used(slots, period, dow)  == Cardinality(OnDay(slots, period, dow))

\* Mutant of NextSlot: the days take turns from one week or month to the next.
NextSlotInTurn(f, slots) ==
  LET n == Len(slots)
  IN  [period |-> n \div Min({f.per, f.count}),
       dow |-> Nth(f.days, (n % Cardinality(f.days)) + 1), nth |-> 0]

\* Each article gets a week or month, counted from the anchor's, a posting day, and
\* its place among the posts of that day: the days in turn, again from the next
\* period when they are used up, and a period later where a day has its two.
NextSlot(f, slots) ==
  LET n      == Len(slots)
      per    == Min({f.per, f.count})
      turn   == n % per
      dow    == Nth(f.days, (turn % Cardinality(f.days)) + 1)
      first  == (n \div per) + (turn \div Cardinality(f.days))
      period == first + Least(n, LAMBDA k : Used(slots, first + k, dow) < MaxPostsADay)
  IN  [period |-> period, dow |-> dow, nth |-> Used(slots, period, dow)]

\* The first loop of both cadences.
Slots(f) ==
  LET S[n \in 0..f.count] == IF n = 0 THEN <<>> ELSE Append(S[n - 1], NextSlot(f, S[n - 1]))
  IN  S[f.count]

\* Mutant of WeeklyCandidate: what is too early moves to the next day.
WeeklyCandidateNextDay(f, from, slot) ==
  LET monday == MondayOf(Anchor(f, from))
      moment == 24 * (monday + 7 * slot.period + slot.dow - 1) + HourOfSlot(f.pref, slot.nth)
  IN  IF moment >= from THEN moment ELSE 24 * (DayOf(from) + 1) + (moment % 24)

\* Where an article of a weekly cadence would go: its weekday of its week, moved
\* on by whole weeks while it is too early.
WeeklyCandidate(f, from, slot) ==
  LET monday == MondayOf(Anchor(f, from))
      moment == 24 * (monday + 7 * slot.period + slot.dow - 1) + HourOfSlot(f.pref, slot.nth)
  IN  moment + Week * Least(f.count, LAMBDA k : moment + Week * k >= from)

\* Mutant of MonthlyDate: the first month is searched from its first day.
MonthlyDateFromTheFirst(anchor, k, slot) ==
  LET m       == MonthOf(anchor) + k
      matches == {d \in 1..MonthLength(m) : Weekday(MonthStart[m] + d - 1) = slot.dow}
      dom     == IF Cardinality(matches) > slot.nth
                 THEN Nth(matches, slot.nth + 1) ELSE Max(matches)
  IN  MonthStart[m] + dom - 1

\* The date of a slot in the kth month from the anchor: the nth such weekday,
\* else the last one, else the day where the search began, which in the anchor's
\* month is the anchor.
MonthlyDate(anchor, k, slot) ==
  LET m       == MonthOf(anchor) + k
      first   == IF k = 0 THEN DayOfMonth(anchor) ELSE 1
      matches == {d \in first..MonthLength(m) : Weekday(MonthStart[m] + d - 1) = slot.dow}
      dom     == IF Cardinality(matches) > slot.nth
                 THEN Nth(matches, slot.nth + 1)
                 ELSE IF matches # {} THEN Max(matches) ELSE first
  IN  MonthStart[m] + dom - 1

\* Where an article of a monthly cadence would go, months later if too early.
MonthlyCandidate(f, from, slot) ==
  LET anchor == Anchor(f, from)
      At(k)  == 24 * MonthlyDate(anchor, slot.period + k, slot)
                + HourOfSlot(f.pref, slot.nth)
  IN  At(Least(f.count, LAMBDA k : At(k) >= from))

\* Where a moment that is taken moves on to.
Later(mode, moment) == IF mode = "weekly" THEN NextWeek(moment) ELSE NextMonth(moment)

\* Mutant of Alone: a moment that is taken is only stepped over once.
StepOnce(mode, placed, moment) ==
  IF \E i \in DOMAIN placed : placed[i] = moment THEN Later(mode, moment) ELSE moment

\* Two articles never share a moment: the later one steps on until it is alone.
Alone(mode, placed, moment) ==
  LET Step[k \in 0..Len(placed)] == IF k = 0 THEN moment ELSE Later(mode, Step[k - 1])
  IN  Step[Least(Len(placed), LAMBDA k : \A i \in DOMAIN placed : placed[i] # Step[k])]

Spread(mode, moments) ==
  LET S[n \in 0..Len(moments)] ==
        IF n = 0 THEN <<>> ELSE Append(S[n - 1], Alone(mode, S[n - 1], moments[n]))
  IN  S[Len(moments)]

\* The cadence starts at the chosen date, or as early as the form allows.
From(f) == Max({24 * f.start, f.min})

Candidate(f, slot) ==
  IF f.mode = "weekly" THEN WeeklyCandidate(f, From(f), slot)
  ELSE MonthlyCandidate(f, From(f), slot)

\* The rows of the form.  A single article, like all of a manual schedule, gets
\* the moment it was given when the form was opened.
Rows(f) ==
  IF f.count = 1 \/ f.mode = "manual" THEN [i \in 1..f.count |-> f.given]
  ELSE LET slots == Slots(f) IN Spread(f.mode, [i \in 1..f.count |-> Candidate(f, slots[i])])

-----------------------------------------------------------------------------
(* The form.                                                               *)

\* initFromSeeds: a manual schedule, all at the first moment, with that moment's
\* weekday and hour for when a cadence is chosen.
Fresh(n) == [mode |-> "manual", count |-> n, days |-> {Weekday(DayOf(clock))},
             per |-> 1, pref |-> clock % 24, start |-> 0, min |-> clock, given |-> clock]
Closed   == [Fresh(1) EXCEPT !.mode = "closed"]
IsOpen   == form.mode # "closed"

Form == [mode : {"closed", "manual", "weekly", "monthly"}, count : Nat \ {0},
         days : (SUBSET (1..7)) \ {{}}, per : Nat \ {0}, pref : 0..23,
         start : StartDays \cup {0}, min : Moment, given : Moment]

TypeOK ==
  /\ clock \in Moment /\ prompts \in BOOLEAN
  /\ form \in Form /\ form.per <= form.count

Init ==
  /\ clock \in Opening
  /\ prompts \in BOOLEAN
  /\ form = Closed

Open ==
  /\ ~IsOpen
  /\ \E n \in Counts : form' = Fresh(n)
  /\ UNCHANGED <<clock, prompts>>

\* The prompts of the project arrive.  An open form is filled in anew, because
\* its effect depends on them.
PromptsArrive ==
  /\ ~prompts
  /\ prompts' = TRUE
  /\ form' = IF IsOpen THEN Fresh(form.count) ELSE form
  /\ UNCHANGED clock

Change(f) == /\ IsOpen
             /\ form' = f
             /\ UNCHANGED <<clock, prompts>>

\* Mutant of SetMode: more articles a week than there are.
SetModeUnclamped(m) ==
  /\ form.count >= 2
  /\ Change([form EXCEPT !.mode = m,
                         !.per = IF m = "manual" THEN 1 ELSE Cardinality(form.days)])

\* setModeAndApply: a cadence begins with one article for each ticked day.  The
\* tabs are there for two articles or more.
SetMode(m) ==
  /\ form.count >= 2
  /\ Change([form EXCEPT !.mode = m,
                         !.per = IF m = "manual" THEN 1
                                 ELSE Min({form.count, Cardinality(form.days)})])

HasCadence == form.mode \in {"weekly", "monthly"}

\* The last day cannot be unticked.
ToggleDay(d) ==
  LET next == IF d \in form.days THEN form.days \ {d} ELSE form.days \cup {d}
  IN  HasCadence /\ Change([form EXCEPT !.days = IF next = {} THEN {d} ELSE next])

SetPer(n)       == HasCadence /\ Change([form EXCEPT !.per = n])
SetPreferred(h) == HasCadence /\ Change([form EXCEPT !.pref = h])
SetStart(d)     == HasCadence /\ Change([form EXCEPT !.start = d])

\* Twice a minute the form looks at the clock.
RefreshMin == Change([form EXCEPT !.min = clock])

\* Two posts of a cadence may not come closer than this.
MinGap(mode) == IF mode = "weekly" THEN 12 ELSE 5 * 24

Compressed(f, moments) ==
  \E i, j \in DOMAIN moments :
    i < j /\ Max({moments[i], moments[j]}) - Min({moments[i], moments[j]}) < MinGap(f.mode)

\* validateBulkScheduleCadence, and every moment against the clock.
Valid(f, moments) ==
  /\ f.mode # "manual" =>
       /\ ~(f.count > 1 /\ f.per > 1 /\ Cardinality(f.days) = 1 /\ f.per >= f.count)
       /\ ~Compressed(f, moments)
  /\ \A i \in DOMAIN moments : moments[i] >= clock

\* The request is accepted and the form closes; after an error it stays.
Submit ==
  /\ IsOpen
  /\ Valid(form, Rows(form))
  /\ form' = Closed
  /\ UNCHANGED <<clock, prompts>>

Cancel ==
  /\ IsOpen
  /\ form' = Closed
  /\ UNCHANGED <<clock, prompts>>

Tick ==
  /\ IsOpen /\ clock < Max(Opening) + MaxWait
  /\ clock' = clock + 1
  /\ UNCHANGED <<prompts, form>>

Next ==
  \/ Open \/ PromptsArrive \/ RefreshMin \/ Submit \/ Cancel \/ Tick
  \/ \E m \in {"manual", "weekly", "monthly"} : SetMode(m)
  \/ \E d \in PickDays : ToggleDay(d)
  \/ \E n \in 1..form.count : SetPer(n)
  \/ \E h \in Preferred : SetPreferred(h)
  \/ \E d \in StartDays : SetStart(d)

Spec == Init /\ [][Next]_vars

-----------------------------------------------------------------------------
(* Properties.                                                             *)

Cadence == HasCadence /\ form.count > 1

\* No cadence proposes a moment before the chosen start, and no two articles get
\* the same moment, whatever was moved to avoid the past or a full day.
ApartAndAfterStart ==
  LET posts == Rows(form)
  IN  Cadence => /\ \A i \in DOMAIN posts : posts[i] >= From(form)
                 /\ \A i, j \in DOMAIN posts : posts[i] = posts[j] => i = j

\* Weekly posts stay on the ticked days, though articles are moved on twice.
WeeklyOnPostingDays ==
  LET posts == Rows(form)
  IN  Cadence /\ form.mode = "weekly" =>
        \A i \in DOMAIN posts : Weekday(DayOf(posts[i])) \in form.days

\* No week gets more posts than were asked for, though early posts are moved into
\* weeks that have posts of their own.
WeeklyQuota ==
  LET posts    == Rows(form)
      Share(i) == {j \in DOMAIN posts : MondayOf(DayOf(posts[j])) = MondayOf(DayOf(posts[i]))}
  IN  Cadence /\ form.mode = "weekly" =>
        \A i \in DOMAIN posts : Cardinality(Share(i)) <= form.per

\* One post a week means every week, and one a month every month, in the order
\* of the articles.
EveryPeriod ==
  LET posts == Rows(form)
  IN  Cadence /\ form.per = 1 =>
        \A i \in 1..(form.count - 1) :
          IF form.mode = "weekly" THEN posts[i + 1] = posts[i] + Week
          ELSE MonthOf(DayOf(posts[i + 1])) = MonthOf(DayOf(posts[i])) + 1

\* Monthly posts stay on the ticked days and within their number, if from its
\* anchor on the first month still has each of these days as often as it is used.
MonthlyPlan ==
  LET posts  == Rows(form)
      anchor == Anchor(form, From(form))
      Left   == anchor..(anchor + MonthLength(MonthOf(anchor)) - DayOfMonth(anchor))
      Share(i) == {j \in DOMAIN posts : MonthOf(DayOf(posts[j])) = MonthOf(DayOf(posts[i]))}
  IN  Cadence /\ form.mode = "monthly"
        /\ (\A w \in form.days : Cardinality({d \in Left : Weekday(d) = w}) >= MaxPostsADay) =>
      \A i \in DOMAIN posts : /\ Weekday(DayOf(posts[i])) \in form.days
                              /\ Cardinality(Share(i)) <= form.per

\* What the labels of the form say, and the form does not do.

\* The first article goes out on the first posting day on or after the start date
\* (the hint below the date).
StartsOnFirstPostingDay ==
  LET posts == Rows(form)
  IN  Cadence => \E i \in DOMAIN posts : DayOf(posts[i]) = Anchor(form, From(form))

\* Monthly posts rotate across the ticked days (the hint below the weekdays).
MonthlyOnPostingDays ==
  LET posts == Rows(form)
  IN  Cadence /\ form.mode = "monthly" /\ Valid(form, posts) =>
        \A i \in DOMAIN posts : Weekday(DayOf(posts[i])) \in form.days

=============================================================================
