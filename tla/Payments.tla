------------------------------- MODULE Payments -------------------------------
(***************************************************************************)
(* One-time payments through Razorpay, and the renewal reminders.  A paid  *)
(* order is confirmed by whichever comes first of the browser's /verify    *)
(* call, Razorpay's webhook and a sweep of the scheduler process; all      *)
(* three go through _mark_payment_paid.  The same sweep then reminds users *)
(* of the end of their billing period.                                     *)
(*                                                                         *)
(* Every call of the store or of Razorpay ends an action.  Each order buys *)
(* a plan of its own, so an order also names the plan it pays for.         *)
(***************************************************************************)
EXTENDS Naturals

CONSTANTS
  Orders,      \* orders a user may open
  Users,
  Buyer,       \* [Orders -> Users]
  NoOrder,     \* no order, or the plan of a user who never paid
  Clients,     \* /verify requests in flight at a time
  Hooks,       \* webhook deliveries in flight at a time
  Sweepers,    \* processes running the sweep: the one scheduler
  Reminders,   \* reminders of a billing period (4 in the code)
  Faults       \* what may go wrong

FaultKinds == {"declined", "mismatched", "garbled", "unreachable", "interrupted",
               "lost"}

ASSUME ConstantsAssumption ==
  /\ Users # {} /\ Buyer \in [Orders -> Users]
  /\ NoOrder \notin Orders
  /\ Clients \cap Hooks = {} /\ Clients \cap Sweepers = {}
  /\ Hooks \cap Sweepers = {}
  /\ Reminders \in Nat
  /\ Faults \subseteq FaultKinds

VARIABLES
  razorpay,  \* [Orders -> {"none", "open", "captured"}]: Razorpay's own record
  pending,   \* SUBSET Events: webhook events not acknowledged yet
  payment,   \* [Orders -> [status, old]]: the payments collection
  seen,      \* SUBSET Events: the webhook_events_seen collection
  sub,       \* [Users -> [order, notified]]: the subscriptions collection
  plan,      \* [Users -> Orders \cup {NoOrder}]: subscription_type of each user
  elapsed,   \* [Users -> 0..Reminders]: how many reminders have fallen due
  act,       \* [Actors -> Local]: control state of each actor
  sweep,     \* [Sweepers -> Sweep]: what the current sweep still has to do
  granted,   \* history: the orders that extended a billing period
  sent,      \* history: [Users -> [1..Reminders -> 0..2]], notifications sent in
             \* the current billing period, more than one counted as two
  cut        \* history: the orders one of whose handlers was cut short between
             \* recording the payment and extending the billing period

vars == <<razorpay, pending, payment, seen, sub, plan, elapsed, act, sweep,
          granted, sent, cut>>

Actors     == Clients \cup Hooks \cup Sweepers
Kinds      == {"captured", "failed", "mismatched"}
Events     == Kinds \X Orders
Milestones == 1..Reminders

PCs   == {"idle", "reject", "failed", "mismatched", "look", "pay", "extend",
          "assign", "pick", "expire", "users", "remind"}
Local == [pc : PCs, order : Orders \cup {NoOrder}, hook : Kinds \cup {"none"}]
Idle  == [pc |-> "idle", order |-> NoOrder, hook |-> "none"]

Sweep == [orders : SUBSET Orders, users : SUBSET Users, user : Users,
          due : SUBSET Milestones, read : SUBSET Milestones,
          notified : SUBSET Milestones]
NoSweep == [orders |-> {}, users |-> {}, user |-> CHOOSE u \in Users : TRUE,
            due |-> {}, read |-> {}, notified |-> {}]

TypeOK ==
  /\ razorpay \in [Orders -> {"none", "open", "captured"}]
  /\ pending \in SUBSET Events
  /\ payment \in [Orders -> [status : {"none", "created", "paid", "failed"},
                             old : BOOLEAN]]
  /\ seen \in SUBSET Events
  /\ sub \in [Users -> [order : Orders \cup {NoOrder},
                        notified : SUBSET Milestones]]
  /\ plan \in [Users -> Orders \cup {NoOrder}]
  /\ elapsed \in [Users -> 0..Reminders]
  /\ act \in [Actors -> Local]
  /\ sweep \in [Sweepers -> Sweep]
  /\ granted \in SUBSET Orders
  /\ sent \in [Users -> [Milestones -> 0..2]]
  /\ cut \in SUBSET Orders

Init ==
  /\ razorpay = [o \in Orders |-> "none"]
  /\ pending = {}
  /\ payment = [o \in Orders |-> [status |-> "none", old |-> FALSE]]
  /\ seen = {}
  /\ sub = [u \in Users |-> [order |-> NoOrder, notified |-> {}]]
  /\ plan = [u \in Users |-> NoOrder]
  /\ elapsed = [u \in Users |-> 0]
  /\ act = [a \in Actors |-> Idle]
  /\ sweep = [s \in Sweepers |-> NoSweep]
  /\ granted = {}
  /\ sent = [u \in Users |-> [m \in Milestones |-> 0]]
  /\ cut = {}

Goto(a, pc) == act' = [act EXCEPT ![a].pc = pc]
Start(a, pc, o) ==
  act' = [act EXCEPT ![a] = [pc |-> pc, order |-> o, hook |-> "none"]]

\* update_payment_fields patches the status and asks nothing of the old one.
SetStatus(o, s) == payment' = [payment EXCEPT ![o].status = s]

Ledger       == <<payment, seen>>
Subscription == <<sub, plan, granted, elapsed, sent, cut>>

\* A handler is through: the request is answered, which acknowledges a webhook;
\* the sweep takes its next order.
Return(a) ==
  /\ act' = [act EXCEPT ![a] = IF a \in Sweepers THEN [Idle EXCEPT !.pc = "pick"]
                                               ELSE Idle]
  /\ pending' = pending \ {<<act[a].hook, act[a].order>>}

-----------------------------------------------------------------------------
(* Razorpay and the clock.                                                 *)

\* POST /razorpay/order opens the order, then inserts its record.
CreateOrder(o) ==
  /\ razorpay[o] = "none"
  /\ razorpay' = [razorpay EXCEPT ![o] = "open"]
  /\ SetStatus(o, "created")
  /\ UNCHANGED <<pending, seen, act, sweep>> /\ UNCHANGED Subscription

\* The user pays; the payment is captured at once.
Capture(o) ==
  /\ razorpay[o] = "open"
  /\ razorpay' = [razorpay EXCEPT ![o] = "captured"]
  /\ pending' = pending \cup {<<"captured", o>>}
  /\ UNCHANGED <<act, sweep>> /\ UNCHANGED Ledger /\ UNCHANGED Subscription

\* An attempt is declined, or an event arrives that does not match the order;
\* the user may try again.
Misfire(o, kind) ==
  /\ razorpay[o] = "open"
  /\ <<kind, o>> \notin seen
  /\ \/ kind = "failed" /\ "declined" \in Faults
     \/ kind = "mismatched" /\ "mismatched" \in Faults
  /\ pending' = pending \cup {<<kind, o>>}
  /\ UNCHANGED <<razorpay, act, sweep>> /\ UNCHANGED Ledger
  /\ UNCHANGED Subscription

\* A webhook is given up.
LoseEvent(e) ==
  /\ "lost" \in Faults
  /\ e \in pending
  /\ pending' = pending \ {e}
  /\ UNCHANGED <<razorpay, act, sweep>> /\ UNCHANGED Ledger
  /\ UNCHANGED Subscription

\* An order gets older than 15 minutes.
GrowOld(o) ==
  /\ payment[o].status # "none" /\ ~payment[o].old
  /\ payment' = [payment EXCEPT ![o].old = TRUE]
  /\ UNCHANGED <<razorpay, pending, seen, act, sweep>> /\ UNCHANGED Subscription

\* The end of the billing period comes nearer by one reminder.
PeriodElapses(u) ==
  /\ sub[u].order # NoOrder
  /\ elapsed[u] < Reminders
  /\ elapsed' = [elapsed EXCEPT ![u] = @ + 1]
  /\ UNCHANGED <<razorpay, pending, act, sweep, sub, plan, granted, sent, cut>>
  /\ UNCHANGED Ledger

Environment ==
  \/ \E o \in Orders :
       \/ CreateOrder(o) \/ Capture(o) \/ GrowOld(o)
       \/ \E kind \in {"failed", "mismatched"} : Misfire(o, kind)
  \/ \E e \in Events : LoseEvent(e)
  \/ \E u \in Users : PeriodElapses(u)

-----------------------------------------------------------------------------
(* _mark_payment_paid, shared by all three ways.                           *)

Others == UNCHANGED <<razorpay, sweep>>

\* It reads the record and does nothing about a paid one.
Look(a) ==
  /\ act[a].pc = "look"
  /\ IF payment[act[a].order].status = "paid" THEN Return(a)
     ELSE Goto(a, "pay") /\ UNCHANGED pending
  /\ Others /\ UNCHANGED Ledger /\ UNCHANGED Subscription

\* Mutant of Pay: a billing period that runs is not extended.
PayFirstPeriod(a) ==
  /\ act[a].pc = "pay"
  /\ SetStatus(act[a].order, "paid")
  /\ Goto(a, IF sub[Buyer[act[a].order]].order = NoOrder THEN "extend" ELSE "assign")
  /\ Others /\ UNCHANGED <<pending, seen>> /\ UNCHANGED Subscription

\* Mutant of Pay: the period is extended only for an order that is still open.
PayOpen(a) ==
  /\ act[a].pc = "pay"
  /\ SetStatus(act[a].order, "paid")
  /\ Goto(a, IF payment[act[a].order].status = "created" THEN "extend" ELSE "assign")
  /\ Others /\ UNCHANGED <<pending, seen>> /\ UNCHANGED Subscription

Pay(a) ==
  /\ act[a].pc = "pay"
  /\ SetStatus(act[a].order, "paid")
  /\ Goto(a, "extend")
  /\ Others /\ UNCHANGED <<pending, seen>> /\ UNCHANGED Subscription

\* A new billing period of 30 days starts now, with no reminder sent.
Extend(a) ==
  LET o == act[a].order
      u == Buyer[o] IN
  /\ act[a].pc = "extend"
  /\ sub' = [sub EXCEPT ![u] = [order |-> o, notified |-> {}]]
  /\ elapsed' = [elapsed EXCEPT ![u] = 0]
  /\ granted' = granted \cup {o}
  /\ sent' = [sent EXCEPT ![u] = [m \in Milestones |-> 0]]
  /\ Goto(a, "assign")
  /\ Others /\ UNCHANGED <<pending, plan, cut>> /\ UNCHANGED Ledger

\* The user gets the plan; receipts are mailed.
Assign(a) ==
  /\ act[a].pc = "assign"
  /\ plan' = [plan EXCEPT ![Buyer[act[a].order]] = act[a].order]
  /\ Return(a)
  /\ Others /\ UNCHANGED <<sub, granted, elapsed, sent, cut>> /\ UNCHANGED Ledger

MarkPaid(a) == Look(a) \/ Pay(a) \/ Extend(a) \/ Assign(a)

\* The end of the process, or an exception, cuts a handler short.  A webhook that
\* is cut short was not acknowledged and is delivered again; the sweep catches
\* the exception of one order and goes on.
Interrupted(a) ==
  /\ "interrupted" \in Faults
  /\ act[a].pc # "idle"
  /\ \/ /\ act' = [act EXCEPT ![a] = Idle]
        /\ sweep' = [s \in Sweepers |-> IF s = a THEN NoSweep ELSE sweep[s]]
     \/ /\ a \in Sweepers /\ act[a].pc \notin {"pick", "users", "remind"}
        /\ Start(a, "pick", NoOrder)
        /\ UNCHANGED sweep
  /\ cut' = IF act[a].pc = "extend" THEN cut \cup {act[a].order} ELSE cut
  /\ UNCHANGED <<razorpay, pending, sub, plan, granted, elapsed, sent>>
  /\ UNCHANGED Ledger

-----------------------------------------------------------------------------
(* POST /razorpay/verify.                                                  *)

\* The browser sends the signature it got for a captured payment; a paid order
\* is only answered.
Verify(c, o) ==
  /\ act[c].pc = "idle"
  /\ payment[o].status \in {"created", "failed"}
  /\ \/ razorpay[o] = "captured" /\ Start(c, "look", o)
     \/ "garbled" \in Faults /\ Start(c, "reject", o)
  /\ Others /\ UNCHANGED pending /\ UNCHANGED Ledger /\ UNCHANGED Subscription

\* Mutant of Reject: a status of its own for a bad signature.
RejectApart(c) ==
  /\ act[c].pc = "reject"
  /\ SetStatus(act[c].order, "rejected")
  /\ Return(c)
  /\ Others /\ UNCHANGED seen /\ UNCHANGED Subscription

\* A bad signature fails the order, whatever became of it since it was read.
Reject(c) ==
  /\ act[c].pc = "reject"
  /\ SetStatus(act[c].order, "failed")
  /\ Return(c)
  /\ Others /\ UNCHANGED seen /\ UNCHANGED Subscription

VerifyStep(c) ==
  \/ \E o \in Orders : Verify(c, o)
  \/ Reject(c) \/ MarkPaid(c)

-----------------------------------------------------------------------------
(* POST /razorpay/webhook.                                                 *)

\* Mutant of Deliver: a captured payment of an order that already failed is
\* not looked at.
DeliverWaiting(h, e) ==
  /\ act[h].pc = "idle"
  /\ e \in pending
  /\ IF e \in seen \/ (e[1] = "captured" /\ payment[e[2]].status # "created")
     THEN pending' = pending \ {e} /\ UNCHANGED <<seen, act>>
     ELSE /\ seen' = seen \cup {e}
          /\ act' = [act EXCEPT ![h] =
               [pc |-> IF e[1] = "captured" THEN "look" ELSE e[1],
                order |-> e[2], hook |-> e[1]]]
          /\ UNCHANGED pending
  /\ Others /\ UNCHANGED payment /\ UNCHANGED Subscription

\* An event is marked as seen before it is worked on; one that was seen is
\* acknowledged at once.  The record of a captured order exists: it is inserted
\* before the browser learns of the order.
Deliver(h, e) ==
  /\ act[h].pc = "idle"
  /\ e \in pending
  /\ IF e \in seen
     THEN pending' = pending \ {e} /\ UNCHANGED <<seen, act>>
     ELSE /\ seen' = seen \cup {e}
          /\ act' = [act EXCEPT ![h] =
               [pc |-> IF e[1] = "captured" THEN "look" ELSE e[1],
                order |-> e[2], hook |-> e[1]]]
          /\ UNCHANGED pending
  /\ Others /\ UNCHANGED payment /\ UNCHANGED Subscription

\* payment.captured with another amount: the order is to fail, unless it is paid
\* when its record is read.
HookMismatched(h) ==
  /\ act[h].pc = "mismatched"
  /\ IF payment[act[h].order].status = "paid" THEN Return(h)
     ELSE Goto(h, "failed") /\ UNCHANGED pending
  /\ Others /\ UNCHANGED Ledger /\ UNCHANGED Subscription

\* payment.failed, or the amount did not match: fail the order, also a paid one.
HookFailed(h) ==
  /\ act[h].pc = "failed"
  /\ SetStatus(act[h].order, "failed")
  /\ Return(h)
  /\ Others /\ UNCHANGED seen /\ UNCHANGED Subscription

HookStep(h) ==
  \/ \E e \in Events : Deliver(h, e)
  \/ HookMismatched(h) \/ HookFailed(h) \/ MarkPaid(h)

-----------------------------------------------------------------------------
(* The sweep: reconcile_pending_payments, then check_renewal_milestones.   *)

Undisturbed == UNCHANGED <<razorpay, pending>>

\* Mutant of StartSweep: the age is compared the wrong way round.
StartSweepYoung(s) ==
  /\ act[s].pc = "idle"
  /\ sweep' = [sweep EXCEPT ![s].orders =
       {o \in Orders : payment[o].status = "created" /\ ~payment[o].old}]
  /\ Goto(s, "pick")
  /\ Undisturbed /\ UNCHANGED Ledger /\ UNCHANGED Subscription

\* The orders still "created" after 15 minutes; failed ones are not among them.
StartSweep(s) ==
  /\ act[s].pc = "idle"
  /\ sweep' = [sweep EXCEPT ![s].orders =
       {o \in Orders : payment[o].status = "created" /\ payment[o].old}]
  /\ Goto(s, "pick")
  /\ Undisturbed /\ UNCHANGED Ledger /\ UNCHANGED Subscription

\* Mutant of Fetch: an order that was attempted is taken for a paid one.
FetchAttempted(s) ==
  /\ act[s].pc = "pick"
  /\ \E o \in sweep[s].orders :
       /\ sweep' = [sweep EXCEPT ![s].orders = @ \ {o}]
       /\ Start(s, IF razorpay[o] # "none" THEN "look" ELSE "expire", o)
  /\ Undisturbed /\ UNCHANGED Ledger /\ UNCHANGED Subscription

\* Razorpay is asked about each order of the list in turn.
Fetch(s) ==
  /\ act[s].pc = "pick"
  /\ \E o \in sweep[s].orders :
       /\ sweep' = [sweep EXCEPT ![s].orders = @ \ {o}]
       /\ \/ Start(s, IF razorpay[o] = "captured" THEN "look" ELSE "expire", o)
          \/ "unreachable" \in Faults /\ UNCHANGED act
  /\ Undisturbed /\ UNCHANGED Ledger /\ UNCHANGED Subscription

\* An order that Razorpay does not report paid is failed, whatever its record
\* has become meanwhile.
Expire(s) ==
  /\ act[s].pc = "expire"
  /\ SetStatus(act[s].order, "failed")
  /\ Return(s)
  /\ Others /\ UNCHANGED seen /\ UNCHANGED Subscription

StartReminders(s) ==
  /\ act[s].pc = "pick"
  /\ sweep[s].orders = {}
  /\ sweep' = [sweep EXCEPT ![s].users = Users]
  /\ Goto(s, "users")
  /\ Undisturbed /\ UNCHANGED Ledger /\ UNCHANGED Subscription

\* Mutant of ReadSubscription: a reminder is due only after its day.
ReadStrict(s) ==
  /\ act[s].pc = "users"
  /\ \E u \in sweep[s].users :
       /\ sweep' = [sweep EXCEPT ![s] =
            [orders |-> {}, users |-> sweep[s].users \ {u}, user |-> u,
             read |-> sub[u].notified, notified |-> sub[u].notified,
             due |-> IF sub[u].order = NoOrder THEN {}
                     ELSE {m \in Milestones : m < elapsed[u]} \ sub[u].notified]]
       /\ Goto(s, "remind")
  /\ Undisturbed /\ UNCHANGED Ledger /\ UNCHANGED Subscription

\* Reads the subscription of the next user: what is due and was not sent.
ReadSubscription(s) ==
  /\ act[s].pc = "users"
  /\ \E u \in sweep[s].users :
       /\ sweep' = [sweep EXCEPT ![s] =
            [orders |-> {}, users |-> sweep[s].users \ {u}, user |-> u,
             read |-> sub[u].notified, notified |-> sub[u].notified,
             due |-> IF sub[u].order = NoOrder THEN {}
                     ELSE {m \in Milestones : m <= elapsed[u]} \ sub[u].notified]]
       /\ Goto(s, "remind")
  /\ Undisturbed /\ UNCHANGED Ledger /\ UNCHANGED Subscription

OnceMore(n) == IF n < 2 THEN n + 1 ELSE n

\* Inserts one notification; a failed insert is skipped.
Remind(s) ==
  /\ act[s].pc = "remind"
  /\ \E m \in sweep[s].due :
       LET rest == sweep[s].due \ {m}
           of   == sweep[s].user IN
       \/ /\ sent' = [sent EXCEPT ![of] = [sent[of] EXCEPT ![m] = OnceMore(sent[of][m])]]
          /\ sweep' = [sweep EXCEPT ![s] =
               [sweep[s] EXCEPT !.due = rest, !.notified = sweep[s].notified \cup {m}]]
       \/ /\ "unreachable" \in Faults
          /\ sweep' = [sweep EXCEPT ![s] = [sweep[s] EXCEPT !.due = rest]]
          /\ UNCHANGED sent
  /\ UNCHANGED <<act, sub, plan, granted, elapsed, cut>>
  /\ Undisturbed /\ UNCHANGED Ledger

\* Mutant of SaveReminders: the list read was extended in place, so that it
\* never differs from itself.
SaveAliased(s) ==
  /\ act[s].pc = "remind"
  /\ sweep[s].due = {}
  /\ Goto(s, "users")
  /\ UNCHANGED sweep /\ Undisturbed /\ UNCHANGED Ledger /\ UNCHANGED Subscription

\* Writes the extended list back over the subscription's own.
SaveReminders(s) ==
  LET u == sweep[s].user IN
  /\ act[s].pc = "remind"
  /\ sweep[s].due = {}
  /\ \/ /\ sweep[s].notified # sweep[s].read
        /\ sub' = [sub EXCEPT ![u] = [sub[u] EXCEPT !.notified = sweep[s].notified]]
     \/ /\ sweep[s].notified = sweep[s].read \/ "unreachable" \in Faults
        /\ UNCHANGED sub
  /\ Goto(s, "users")
  /\ UNCHANGED <<sweep, plan, granted, elapsed, sent, cut>>
  /\ Undisturbed /\ UNCHANGED Ledger

EndSweep(s) ==
  /\ act[s].pc = "users"
  /\ sweep[s].users = {}
  /\ act' = [act EXCEPT ![s] = Idle]
  /\ sweep' = [sweep EXCEPT ![s] = NoSweep]
  /\ Undisturbed /\ UNCHANGED Ledger /\ UNCHANGED Subscription

SweepStep(s) ==
  \/ StartSweep(s) \/ Fetch(s) \/ Expire(s) \/ StartReminders(s)
  \/ ReadSubscription(s) \/ Remind(s) \/ SaveReminders(s) \/ EndSweep(s)
  \/ MarkPaid(s)

-----------------------------------------------------------------------------

Next ==
  \/ Environment
  \/ \E c \in Clients : VerifyStep(c)
  \/ \E h \in Hooks : HookStep(h)
  \/ \E s \in Sweepers : SweepStep(s)
  \/ \E a \in Actors : Interrupted(a)

Spec == Init /\ [][Next]_vars

\* Handlers that run go on, Razorpay delivers until it is answered, the sweep
\* comes round and orders grow old; nobody has to pay or to call /verify.
Fairness ==
  /\ \A c \in Clients : WF_vars(Reject(c) \/ MarkPaid(c))
  /\ \A h \in Hooks : WF_vars(HookStep(h))
  /\ \A s \in Sweepers : WF_vars(SweepStep(s))
  /\ \A o \in Orders : WF_vars(GrowOld(o))

FairSpec == Spec /\ Fairness

-----------------------------------------------------------------------------
(* Properties.                                                             *)

\* A plan, a billing period or a paid record is only ever given for an order
\* that Razorpay captured, whichever way the confirmation came.
OnlyCapturedIsGranted ==
  /\ \A o \in Orders : payment[o].status = "paid" \/ o \in granted
                       => razorpay[o] = "captured"
  /\ \A u \in Users : /\ plan[u] # NoOrder => razorpay[plan[u]] = "captured"
                      /\ sub[u].order # NoOrder => razorpay[sub[u].order] = "captured"

\* Some handler has recorded the payment of o and is about to extend the period.
Extending(o) == \E a \in Actors : act[a].pc = "extend" /\ act[a].order = o

\* A paid record, which makes every later confirmation do nothing, is backed by a
\* billing period or by a handler about to extend it.  The one way to lose the
\* period is a handler cut short between these two writes: no refusal, mismatch,
\* late failure or giving up, in whatever order, is another.
PaidIsGranted ==
  \A o \in Orders : payment[o].status = "paid" =>
    o \in granted \/ Extending(o) \/ o \in cut

\* No reminder is sent twice in a billing period, although a renewal may clear
\* the list of those sent between the sweep's reading and writing it.
RemindedOnce == \A u \in Users, m \in Milestones : sent[u][m] <= 1

\* An order that was paid for gives its buyer a billing period, also after failed
\* attempts and when the sweep has given it up.
CapturedIsGranted ==
  \A o \in Orders : razorpay[o] = "captured" ~> o \in granted

\* The safety net: an order that was paid for while it was young gives its buyer a
\* billing period, even if the browser and the webhook are lost.
PromptlyCapturedIsGranted ==
  \A o \in Orders :
    razorpay[o] = "captured" /\ ~payment[o].old ~> o \in granted

\* A reminder that has fallen due is sent or marked as sent, unless the period
\* is renewed first.
DueRemindersSettle ==
  \A u \in Users, m \in Milestones :
    elapsed[u] >= m ~> m \in sub[u].notified \/ elapsed[u] < m

\* What the comments of the code say, and the code does not do.

\* A renewal resets the list so that the reminders of the new period fire again:
\* what the list names was sent in this period.
ListedRemindersWereSent ==
  \A u \in Users : \A m \in sub[u].notified : sent[u][m] > 0

\* Whichever confirmation arrives first does the work and the other is a safe no-op:
\* the one that finds the order paid finds it granted, or about to be.
SecondIsSafeNoOp ==
  \A a \in Actors : act[a].pc = "look" /\ payment[act[a].order].status = "paid" =>
    act[a].order \in granted \/ Extending(act[a].order)

=============================================================================
