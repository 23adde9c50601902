---------------------------- MODULE PaymentsProofs ----------------------------
(***************************************************************************)
(* Proofs about Payments.  The invariant is what the three ways to confirm *)
(* a payment have in common: an actor that is on its way to mark an order  *)
(* paid knows that Razorpay captured it, and captured stays captured.      *)
(***************************************************************************)
EXTENDS Payments, TLAPS

Confirming == {"look", "pay", "extend", "assign"}
Failing    == {"reject", "failed", "mismatched", "expire"}

\* Who works on an order has one; who confirms it knows it was captured.
Confirmed ==
  \A a \in Actors :
    /\ act[a].pc \in Confirming \cup Failing => act[a].order \in Orders
    /\ act[a].pc \in Confirming => razorpay[act[a].order] = "captured"

\* Only the webhook of a captured payment says so.
HooksAreTrue == \A o \in Orders : <<"captured", o>> \in pending
                                    => razorpay[o] = "captured"

Inv == TypeOK /\ Confirmed /\ HooksAreTrue /\ OnlyCapturedIsGranted

\* The local states that actors start from.
LEMMA IdleIsLocal == Idle \in Local /\ Idle.pc = "idle"
  BY DEF Idle, Local, PCs

\* An empty sweep is a sweep; a step that moves one presupposes a user.
LEMMA NoSweepIsSweep == ASSUME NEW u \in Users PROVE NoSweep \in Sweep
<1>1. (CHOOSE v \in Users : TRUE) \in Users
  OBVIOUS
<1> QED
  BY <1>1 DEF NoSweep, Sweep

-----------------------------------------------------------------------------
(* What the writes and the moves of an actor keep.                         *)

\* A status write keeps the collection typed.
LEMMA SetStatusType ==
  ASSUME TypeOK, NEW o \in Orders, NEW s \in {"none", "created", "paid", "failed"},
         SetStatus(o, s)
  PROVE  payment' \in [Orders -> [status : {"none", "created", "paid", "failed"},
                                  old : BOOLEAN]]
  BY DEF SetStatus, TypeOK

\* So does a failing or paying actor, whose order is one.
LEMMA MoveType ==
  ASSUME TypeOK, NEW a \in Actors, NEW pc \in PCs,
         NEW o \in Orders \cup {NoOrder}, Goto(a, pc) \/ Start(a, pc, o)
  PROVE  act' \in [Actors -> Local]
<1>1. [act[a] EXCEPT !.pc = pc] \in Local
  BY DEF TypeOK, Local
<1>2. [pc |-> pc, order |-> o, hook |-> "none"] \in Local
  BY DEF Local
<1> QED
  BY <1>1, <1>2 DEF Goto, Start, TypeOK

\* An actor that is through is idle or takes the sweep's next order.
LEMMA ReturnType ==
  ASSUME TypeOK, NEW a \in Actors, Return(a)
  PROVE  /\ act' \in [Actors -> Local]
         /\ pending' \in SUBSET pending
<1>1. [Idle EXCEPT !.pc = "pick"] \in Local
  BY IdleIsLocal DEF Local, PCs
<1> QED
  BY <1>1, IdleIsLocal DEF Return, TypeOK

\* One actor moves and captured orders stay captured: what the actors know
\* remains true if the mover knows it too.
LEMMA MoveKeepsConfirmed ==
  ASSUME Confirmed, NEW a \in Actors, TypeOK, NEW l,
         act' = [act EXCEPT ![a] = l],
         \A o \in Orders : razorpay[o] = "captured" => razorpay'[o] = "captured",
         l.pc \in Confirming \cup Failing => l.order \in Orders,
         l.pc \in Confirming => razorpay[l.order] = "captured"
  PROVE  Confirmed'
<1>1. ASSUME NEW b \in Actors
      PROVE  /\ act'[b].pc \in Confirming \cup Failing => act'[b].order \in Orders
             /\ act'[b].pc \in Confirming => razorpay'[act'[b].order] = "captured"
  <2>1. act'[b] = IF b = a THEN l ELSE act[b]
    BY DEF TypeOK
  <2> QED
    BY <2>1 DEF Confirmed
<1> QED
  BY <1>1 DEF Confirmed

\* The same for an actor that goes on with its order.
LEMMA GotoKeepsConfirmed ==
  ASSUME Confirmed, TypeOK, NEW a \in Actors, NEW pc, Goto(a, pc),
         razorpay' = razorpay,
         pc \in Confirming \cup Failing => act[a].pc \in Confirming \cup Failing,
         pc \in Confirming => act[a].pc \in Confirming
  PROVE  Confirmed'
<1>1. act' = [act EXCEPT ![a] = [act[a] EXCEPT !.pc = pc]]
  BY DEF Goto
<1>2. /\ [act[a] EXCEPT !.pc = pc].pc = pc
      /\ [act[a] EXCEPT !.pc = pc].order = act[a].order
  BY DEF TypeOK, Local
<1>3. act[a].pc \in Confirming \cup Failing => act[a].order \in Orders
  BY DEF Confirmed
<1>4. act[a].pc \in Confirming => razorpay[act[a].order] = "captured"
  BY DEF Confirmed
<1> QED
  BY <1>1, <1>2, <1>3, <1>4, MoveKeepsConfirmed

\* And for one that is through, or moves nowhere.
LEMMA ReturnKeepsConfirmed ==
  ASSUME Confirmed, TypeOK, NEW a \in Actors, Return(a), razorpay' = razorpay
  PROVE  Confirmed'
<1>1. PICK l \in {Idle, [Idle EXCEPT !.pc = "pick"]} : act' = [act EXCEPT ![a] = l]
  BY DEF Return
<1>2. l.pc \notin Confirming \cup Failing
  BY <1>1, IdleIsLocal DEF Confirming, Failing, Idle
<1> QED
  BY <1>1, <1>2, MoveKeepsConfirmed

\* A step that records no payment and grants nothing keeps the invariant.
LEMMA NothingGranted ==
  ASSUME Inv, TypeOK', Confirmed',
         \A o \in Orders : razorpay[o] = "captured" => razorpay'[o] = "captured",
         \A o \in Orders : <<"captured", o>> \in pending' => <<"captured", o>> \in pending,
         \A o \in Orders : payment'[o].status = "paid" => payment[o].status = "paid",
         granted' = granted, plan' = plan,
         \A u \in Users : sub'[u].order = sub[u].order
  PROVE  Inv'
<1>1. HooksAreTrue'
  BY DEF Inv, HooksAreTrue
<1>2. \A u \in Users : plan[u] \in Orders \cup {NoOrder}
                       /\ sub[u].order \in Orders \cup {NoOrder}
  BY DEF Inv, TypeOK
<1>3. \A o \in granted : o \in Orders
  BY DEF Inv, TypeOK
<1>4. OnlyCapturedIsGranted'
  BY <1>2, <1>3 DEF Inv, OnlyCapturedIsGranted
<1> QED
  BY <1>1, <1>4 DEF Inv

-----------------------------------------------------------------------------
(* The invariant is inductive.                                             *)

\* Razorpay, the users and the clock.
LEMMA EnvironmentStep == ASSUME Inv, Environment PROVE Inv'
<1>1. TypeOK /\ Confirmed
  BY DEF Inv
<1>2. ASSUME NEW o \in Orders, CreateOrder(o) PROVE Inv'
  <2>1. payment' \in [Orders -> [status : {"none", "created", "paid", "failed"},
                                 old : BOOLEAN]]
    BY <1>1, <1>2, SetStatusType DEF CreateOrder
  <2>2. TypeOK'
    BY <1>1, <1>2, <2>1 DEF CreateOrder, TypeOK, Subscription
  <2>3. \A p \in Orders : razorpay[p] = "captured" => razorpay'[p] = "captured"
    BY <1>1, <1>2 DEF CreateOrder, TypeOK
  <2>4. Confirmed'
    BY <1>1, <1>2, <2>3 DEF CreateOrder, Confirmed
  <2>5. \A p \in Orders : payment'[p].status = "paid" => payment[p].status = "paid"
    BY <1>1, <1>2 DEF CreateOrder, SetStatus, TypeOK
  <2> QED
    BY <1>2, <2>2, <2>3, <2>4, <2>5, NothingGranted DEF CreateOrder, Subscription
<1>3. ASSUME NEW o \in Orders, Capture(o) PROVE Inv'
  <2>1. TypeOK'
    BY <1>1, <1>3 DEF Capture, TypeOK, Ledger, Subscription, Events, Kinds
  <2>2. \A p \in Orders : razorpay'[p] = IF p = o THEN "captured" ELSE razorpay[p]
    BY <1>1, <1>3 DEF Capture, TypeOK
  <2>3. Confirmed'
    BY <1>1, <1>3, <2>2 DEF Capture, Confirmed
  <2>4. HooksAreTrue'
    BY <1>3, <2>2 DEF Capture, HooksAreTrue, Inv
  <2>5. \A u \in Users : plan[u] \in Orders \cup {NoOrder}
                         /\ sub[u].order \in Orders \cup {NoOrder}
    BY <1>1 DEF TypeOK
  <2>6. OnlyCapturedIsGranted'
    BY <1>1, <1>3, <2>2, <2>5
       DEF Capture, Inv, OnlyCapturedIsGranted, Ledger, Subscription
  <2> QED
    BY <2>1, <2>3, <2>4, <2>6 DEF Inv
<1>4. ASSUME NEW o \in Orders, GrowOld(o) PROVE Inv'
  <2>1. TypeOK'
    BY <1>1, <1>4 DEF GrowOld, TypeOK, Subscription
  <2>2. \A p \in Orders : payment'[p].status = payment[p].status
    BY <1>1, <1>4 DEF GrowOld, TypeOK
  <2>3. Confirmed'
    BY <1>1, <1>4 DEF GrowOld, Confirmed
  <2> QED
    BY <1>4, <2>1, <2>2, <2>3, NothingGranted DEF GrowOld, Subscription
<1>5. ASSUME NEW o \in Orders, NEW kind \in {"failed", "mismatched"}, Misfire(o, kind)
      PROVE  Inv'
  <2>1. TypeOK'
    BY <1>1, <1>5 DEF Misfire, TypeOK, Ledger, Subscription, Events, Kinds
  <2>2. Confirmed'
    BY <1>1, <1>5 DEF Misfire, Confirmed
  <2>3. \A p \in Orders : <<"captured", p>> \in pending' => <<"captured", p>> \in pending
    BY <1>5 DEF Misfire
  <2> QED
    BY <1>5, <2>1, <2>2, <2>3, NothingGranted DEF Misfire, Ledger, Subscription
<1>6. ASSUME NEW e \in Events, LoseEvent(e) PROVE Inv'
  <2>1. TypeOK'
    BY <1>1, <1>6 DEF LoseEvent, TypeOK, Ledger, Subscription
  <2>2. Confirmed'
    BY <1>1, <1>6 DEF LoseEvent, Confirmed
  <2> QED
    BY <1>6, <2>1, <2>2, NothingGranted DEF LoseEvent, Ledger, Subscription
<1>7. ASSUME NEW u \in Users, PeriodElapses(u) PROVE Inv'
  <2>1. elapsed' \in [Users -> 0..Reminders]
    BY <1>1, <1>7, ConstantsAssumption DEF PeriodElapses, TypeOK, ConstantsAssumption
  <2>2. TypeOK'
    BY <1>1, <1>7, <2>1 DEF PeriodElapses, TypeOK, Ledger
  <2>3. Confirmed'
    BY <1>1, <1>7 DEF PeriodElapses, Confirmed
  <2> QED
    BY <1>7, <2>2, <2>3, NothingGranted DEF PeriodElapses, Ledger
<1> QED
  BY <1>2, <1>3, <1>4, <1>5, <1>6, <1>7 DEF Environment

\* _mark_payment_paid, whoever runs it.
LEMMA MarkPaidStep == ASSUME Inv, NEW a \in Actors, MarkPaid(a) PROVE Inv'
<1>1. TypeOK /\ Confirmed
  BY DEF Inv
<1>2. CASE Look(a)
  <2>1. CASE Return(a)
    <3>1. TypeOK'
      BY <1>1, <1>2, <2>1, ReturnType DEF Look, TypeOK, Others, Ledger, Subscription
    <3>2. Confirmed'
      BY <1>1, <1>2, <2>1, ReturnKeepsConfirmed DEF Look, Others
    <3>3. pending' \in SUBSET pending
      BY <1>1, <2>1, ReturnType
    <3> QED
      BY <1>2, <3>1, <3>2, <3>3, NothingGranted DEF Look, Others, Ledger, Subscription
  <2>2. CASE Goto(a, "pay") /\ UNCHANGED pending
    <3>1. act' \in [Actors -> Local]
      BY <1>1, <2>2, MoveType DEF PCs
    <3>2. TypeOK'
      BY <1>1, <1>2, <2>2, <3>1 DEF Look, TypeOK, Others, Ledger, Subscription
    <3>3. Confirmed'
      BY <1>1, <1>2, <2>2, GotoKeepsConfirmed DEF Look, Others, Confirming
    <3> QED
      BY <1>2, <2>2, <3>2, <3>3, NothingGranted DEF Look, Others, Ledger, Subscription
  <2> QED
    BY <1>2, <2>1, <2>2 DEF Look
<1>3. CASE Pay(a)
  <2>1. act[a].order \in Orders /\ razorpay[act[a].order] = "captured"
    BY <1>1, <1>3 DEF Pay, Confirmed, Confirming
  <2>2. act' \in [Actors -> Local]
    BY <1>1, <1>3, MoveType DEF Pay, PCs
  <2>3. payment' \in [Orders -> [status : {"none", "created", "paid", "failed"},
                                 old : BOOLEAN]]
    BY <1>1, <1>3, <2>1, SetStatusType DEF Pay
  <2>4. TypeOK'
    BY <1>1, <1>3, <2>2, <2>3 DEF Pay, TypeOK, Others, Subscription
  <2>5. Confirmed'
    BY <1>1, <1>3, GotoKeepsConfirmed DEF Pay, Others, Confirming
  <2>6. HooksAreTrue'
    BY <1>3 DEF Pay, Inv, HooksAreTrue, Others
  <2>7. \A o \in Orders : payment'[o].status = "paid"
                            => payment[o].status = "paid" \/ o = act[a].order
    BY <1>1, <1>3 DEF Pay, SetStatus, TypeOK
  <2>8. OnlyCapturedIsGranted'
    BY <1>3, <2>1, <2>7 DEF Pay, Inv, OnlyCapturedIsGranted, Others, Subscription
  <2> QED
    BY <2>4, <2>5, <2>6, <2>8 DEF Inv
<1>4. CASE Extend(a)
  <2>1. act[a].order \in Orders /\ razorpay[act[a].order] = "captured"
    BY <1>1, <1>4 DEF Extend, Confirmed, Confirming
  <2>2. act' \in [Actors -> Local]
    BY <1>1, <1>4, MoveType DEF Extend, PCs
  <2>3. \A u \in Users : sub'[u] = IF u = Buyer[act[a].order]
                                   THEN [order |-> act[a].order, notified |-> {}]
                                   ELSE sub[u]
    BY <1>1, <1>4 DEF Extend, TypeOK
  <2>4. /\ sub' \in [Users -> [order : Orders \cup {NoOrder},
                               notified : SUBSET Milestones]]
        /\ elapsed' \in [Users -> 0..Reminders]
        /\ sent' \in [Users -> [Milestones -> 0..2]]
        /\ granted' \in SUBSET Orders
    BY <1>1, <1>4, <2>1, ConstantsAssumption DEF Extend, TypeOK, ConstantsAssumption
  <2>5. TypeOK'
    BY <1>1, <1>4, <2>2, <2>4 DEF Extend, TypeOK, Others, Ledger
  <2>6. Confirmed'
    BY <1>1, <1>4, GotoKeepsConfirmed DEF Extend, Others, Confirming
  <2>7. HooksAreTrue'
    BY <1>4 DEF Extend, Inv, HooksAreTrue, Others
  <2>8. OnlyCapturedIsGranted'
    BY <1>4, <2>1, <2>3 DEF Extend, Inv, OnlyCapturedIsGranted, Others, Ledger
  <2> QED
    BY <2>5, <2>6, <2>7, <2>8 DEF Inv
<1>5. CASE Assign(a)
  <2>1. act[a].order \in Orders /\ razorpay[act[a].order] = "captured"
    BY <1>1, <1>5 DEF Assign, Confirmed, Confirming
  <2>2. act' \in [Actors -> Local] /\ pending' \in SUBSET pending
    BY <1>1, <1>5, ReturnType DEF Assign
  <2>3. \A u \in Users : plan'[u] = IF u = Buyer[act[a].order] THEN act[a].order
                                                              ELSE plan[u]
    BY <1>1, <1>5 DEF Assign, TypeOK
  <2>4. TypeOK'
    BY <1>1, <1>5, <2>1, <2>2 DEF Assign, TypeOK, Others, Ledger
  <2>5. Confirmed'
    BY <1>1, <1>5, ReturnKeepsConfirmed DEF Assign, Others
  <2>6. HooksAreTrue'
    BY <1>5, <2>2 DEF Assign, Inv, HooksAreTrue, Others
  <2>7. OnlyCapturedIsGranted'
    BY <1>5, <2>1, <2>3 DEF Assign, Inv, OnlyCapturedIsGranted, Others, Ledger
  <2> QED
    BY <2>4, <2>5, <2>6, <2>7 DEF Inv
<1> QED
  BY <1>2, <1>3, <1>4, <1>5 DEF MarkPaid

\* A step that only writes "failed" and answers keeps the invariant: for the
\* signature check, the webhooks of failed payments and the sweep.
LEMMA FailingStep ==
  ASSUME Inv, NEW a \in Actors, act[a].pc \in Failing,
         SetStatus(act[a].order, "failed"), Return(a),
         UNCHANGED <<razorpay, sweep, seen>>, UNCHANGED Subscription
  PROVE  Inv'
<1>1. TypeOK /\ Confirmed
  BY DEF Inv
<1>2. act[a].order \in Orders
  BY <1>1 DEF Confirmed
<1>3. payment' \in [Orders -> [status : {"none", "created", "paid", "failed"},
                               old : BOOLEAN]]
  BY <1>1, <1>2, SetStatusType
<1>4. act' \in [Actors -> Local] /\ pending' \in SUBSET pending
  BY <1>1, ReturnType
<1>5. TypeOK'
  BY <1>1, <1>3, <1>4 DEF TypeOK, Subscription
<1>6. Confirmed'
  BY <1>1, ReturnKeepsConfirmed
<1>7. \A p \in Orders : payment'[p].status = "paid" => payment[p].status = "paid"
  BY <1>1 DEF SetStatus, TypeOK
<1> QED
  BY <1>4, <1>5, <1>6, <1>7, NothingGranted DEF Subscription

\* /verify.
LEMMA VerifyPreserves == ASSUME Inv, NEW c \in Clients, VerifyStep(c) PROVE Inv'
<1>1. TypeOK /\ Confirmed /\ c \in Actors
  BY DEF Inv, Actors
<1>2. ASSUME NEW o \in Orders, Verify(c, o) PROVE Inv'
  <2>1. PICK pc \in {"look", "reject"} :
          /\ act' = [act EXCEPT ![c] = [pc |-> pc, order |-> o, hook |-> "none"]]
          /\ pc = "look" => razorpay[o] = "captured"
    BY <1>2 DEF Verify, Start
  <2>2. act' \in [Actors -> Local]
    BY <1>1, <2>1, MoveType DEF Start, PCs
  <2>3. TypeOK'
    BY <1>1, <1>2, <2>2 DEF Verify, TypeOK, Others, Ledger, Subscription
  <2>4. Confirmed'
    BY <1>1, <1>2, <2>1, MoveKeepsConfirmed DEF Verify, Others, Confirming
  <2> QED
    BY <1>2, <2>3, <2>4, NothingGranted DEF Verify, Others, Ledger, Subscription
<1>3. CASE Reject(c)
  BY <1>1, <1>3, FailingStep DEF Reject, Failing, Others
<1>4. CASE MarkPaid(c)
  BY <1>1, <1>4, MarkPaidStep
<1> QED
  BY <1>2, <1>3, <1>4 DEF VerifyStep

\* The webhook.
LEMMA HookPreserves == ASSUME Inv, NEW h \in Hooks, HookStep(h) PROVE Inv'
<1>1. TypeOK /\ Confirmed /\ h \in Actors
  BY DEF Inv, Actors
<1>2. ASSUME NEW e \in Events, Deliver(h, e) PROVE Inv'
  <2>1. e[1] \in Kinds /\ e[2] \in Orders /\ e = <<e[1], e[2]>>
    BY DEF Events
  <2>2. CASE e \in seen
    <3>1. TypeOK'
      BY <1>1, <1>2, <2>2 DEF Deliver, TypeOK, Others, Subscription
    <3>2. Confirmed'
      BY <1>1, <1>2, <2>2 DEF Deliver, Confirmed, Others
    <3> QED
      BY <1>2, <2>2, <3>1, <3>2, NothingGranted DEF Deliver, Others, Subscription
  <2>3. CASE e \notin seen
    <3> DEFINE pc == IF e[1] = "captured" THEN "look" ELSE e[1]
    <3>1. act' = [act EXCEPT ![h] = [pc |-> pc, order |-> e[2], hook |-> e[1]]]
      BY <1>2, <2>3 DEF Deliver
    <3>2. pc \in PCs /\ (pc \in Confirming => e[1] = "captured")
      BY <2>1 DEF PCs, Kinds, Confirming
    <3>3. [pc |-> pc, order |-> e[2], hook |-> e[1]] \in Local
      BY <2>1, <3>2 DEF Local
    <3>4. act' \in [Actors -> Local] /\ seen' \in SUBSET Events
      BY <1>1, <1>2, <2>3, <3>1, <3>3 DEF TypeOK, Deliver
    <3>5. TypeOK'
      BY <1>1, <1>2, <2>3, <3>4 DEF Deliver, TypeOK, Others, Subscription
    <3>6. e[1] = "captured" => razorpay[e[2]] = "captured"
      BY <1>2, <2>1 DEF Deliver, Inv, HooksAreTrue
    <3> HIDE DEF pc
    <3>7. Confirmed'
      BY <1>1, <1>2, <2>1, <3>1, <3>2, <3>6, MoveKeepsConfirmed DEF Deliver, Others
    <3> QED
      BY <1>2, <2>3, <3>5, <3>7, NothingGranted DEF Deliver, Others, Subscription
  <2> QED
    BY <2>2, <2>3
<1>3. CASE HookMismatched(h)
  <2>1. CASE Return(h)
    <3>1. act' \in [Actors -> Local] /\ pending' \in SUBSET pending
      BY <1>1, <2>1, ReturnType
    <3>2. TypeOK'
      BY <1>1, <1>3, <3>1 DEF HookMismatched, TypeOK, Others, Ledger, Subscription
    <3>3. Confirmed'
      BY <1>1, <1>3, <2>1, ReturnKeepsConfirmed DEF HookMismatched, Others
    <3> QED
      BY <1>3, <3>1, <3>2, <3>3, NothingGranted
         DEF HookMismatched, Others, Ledger, Subscription
  <2>2. CASE Goto(h, "failed") /\ UNCHANGED pending
    <3>1. act' \in [Actors -> Local]
      BY <1>1, <2>2, MoveType DEF PCs
    <3>2. TypeOK'
      BY <1>1, <1>3, <2>2, <3>1 DEF HookMismatched, TypeOK, Others, Ledger, Subscription
    <3>3. Confirmed'
      BY <1>1, <1>3, <2>2, GotoKeepsConfirmed
         DEF HookMismatched, Others, Confirming, Failing
    <3> QED
      BY <1>3, <2>2, <3>2, <3>3, NothingGranted
         DEF HookMismatched, Others, Ledger, Subscription
  <2> QED
    BY <1>3, <2>1, <2>2 DEF HookMismatched
<1>4. CASE HookFailed(h)
  BY <1>1, <1>4, FailingStep DEF HookFailed, Failing, Others
<1>5. CASE MarkPaid(h)
  BY <1>1, <1>5, MarkPaidStep
<1> QED
  BY <1>2, <1>3, <1>4, <1>5 DEF HookStep

\* Every sweep step moves the sweeper to a place where it holds no order, except
\* that it may take up one that Razorpay reports.
LEMMA SweepPreserves == ASSUME Inv, NEW s \in Sweepers, SweepStep(s) PROVE Inv'
<1>1. TypeOK /\ Confirmed /\ s \in Actors
  BY DEF Inv, Actors
<1>2. /\ sweep[s] \in Sweep
      /\ \A f \in Sweep : [sweep EXCEPT ![s] = f] \in [Sweepers -> Sweep]
  BY <1>1 DEF TypeOK
<1>3. CASE StartSweep(s)
  <2>1. act' \in [Actors -> Local]
    BY <1>1, <1>3, MoveType DEF StartSweep, PCs
  <2>2. [sweep[s] EXCEPT !.orders = {o \in Orders : /\ payment[o].status = "created"
                                                    /\ payment[o].old}] \in Sweep
    BY <1>2 DEF Sweep
  <2>3. sweep' \in [Sweepers -> Sweep]
    BY <1>2, <1>3, <2>2 DEF StartSweep
  <2>4. TypeOK'
    BY <1>1, <1>3, <2>1, <2>3 DEF StartSweep, TypeOK, Undisturbed, Ledger, Subscription
  <2>5. Confirmed'
    BY <1>1, <1>3, GotoKeepsConfirmed DEF StartSweep, Undisturbed, Confirming, Failing
  <2> QED
    BY <1>3, <2>4, <2>5, NothingGranted DEF StartSweep, Undisturbed, Ledger, Subscription
<1>4. CASE Fetch(s)
  <2>1. PICK o \in sweep[s].orders :
          /\ sweep' = [sweep EXCEPT ![s].orders = @ \ {o}]
          /\ \/ Start(s, IF razorpay[o] = "captured" THEN "look" ELSE "expire", o)
             \/ UNCHANGED act
    BY <1>4 DEF Fetch
  <2>2. o \in Orders
    BY <1>2 DEF Sweep
  <2>3. [sweep[s] EXCEPT !.orders = @ \ {o}] \in Sweep
    BY <1>2 DEF Sweep
  <2>4. sweep' \in [Sweepers -> Sweep]
    BY <1>2, <2>1, <2>3
  <2>5. CASE UNCHANGED act
    <3>1. TypeOK'
      BY <1>1, <1>4, <2>4, <2>5 DEF Fetch, TypeOK, Undisturbed, Ledger, Subscription
    <3>2. Confirmed'
      BY <1>1, <1>4, <2>5 DEF Fetch, Confirmed, Undisturbed
    <3> QED
      BY <1>4, <3>1, <3>2, NothingGranted DEF Fetch, Undisturbed, Ledger, Subscription
  <2>6. CASE Start(s, IF razorpay[o] = "captured" THEN "look" ELSE "expire", o)
    <3>1. PICK pc \in {"look", "expire"} :
            /\ Start(s, pc, o)
            /\ pc = "look" => razorpay[o] = "captured"
      BY <2>6
    <3>2. act' \in [Actors -> Local]
      BY <1>1, <2>2, <3>1, MoveType DEF PCs
    <3>3. TypeOK'
      BY <1>1, <1>4, <2>4, <3>2 DEF Fetch, TypeOK, Undisturbed, Ledger, Subscription
    <3>4. Confirmed'
      BY <1>1, <1>4, <2>2, <3>1, MoveKeepsConfirmed
         DEF Fetch, Start, Undisturbed, Confirming
    <3> QED
      BY <1>4, <3>3, <3>4, NothingGranted DEF Fetch, Undisturbed, Ledger, Subscription
  <2> QED
    BY <2>1, <2>5, <2>6
<1>5. CASE Expire(s)
  BY <1>1, <1>5, FailingStep DEF Expire, Failing, Others
<1>6. CASE StartReminders(s)
  <2>1. act' \in [Actors -> Local]
    BY <1>1, <1>6, MoveType DEF StartReminders, PCs
  <2>2. [sweep[s] EXCEPT !.users = Users] \in Sweep
    BY <1>2 DEF Sweep
  <2>3. sweep' \in [Sweepers -> Sweep]
    BY <1>2, <1>6, <2>2 DEF StartReminders
  <2>4. TypeOK'
    BY <1>1, <1>6, <2>1, <2>3
       DEF StartReminders, TypeOK, Undisturbed, Ledger, Subscription
  <2>5. Confirmed'
    BY <1>1, <1>6, GotoKeepsConfirmed DEF StartReminders, Undisturbed, Confirming, Failing
  <2> QED
    BY <1>6, <2>4, <2>5, NothingGranted
       DEF StartReminders, Undisturbed, Ledger, Subscription
<1>7. CASE ReadSubscription(s)
  <2>1. PICK u \in sweep[s].users :
          sweep' = [sweep EXCEPT ![s] =
            [orders |-> {}, users |-> sweep[s].users \ {u}, user |-> u,
             read |-> sub[u].notified, notified |-> sub[u].notified,
             due |-> IF sub[u].order = NoOrder THEN {}
                     ELSE {m \in Milestones : m <= elapsed[u]} \ sub[u].notified]]
    BY <1>7 DEF ReadSubscription
  <2>2. u \in Users /\ sub[u].notified \in SUBSET Milestones
    BY <1>1, <1>2 DEF Sweep, TypeOK
  <2>3. sweep' \in [Sweepers -> Sweep]
    BY <1>1, <1>2, <2>1, <2>2 DEF Sweep, TypeOK
  <2>4. act' \in [Actors -> Local]
    BY <1>1, <1>7, MoveType DEF ReadSubscription, PCs
  <2>5. TypeOK'
    BY <1>1, <1>7, <2>3, <2>4
       DEF ReadSubscription, TypeOK, Undisturbed, Ledger, Subscription
  <2>6. Confirmed'
    BY <1>1, <1>7, GotoKeepsConfirmed
       DEF ReadSubscription, Undisturbed, Confirming, Failing
  <2> QED
    BY <1>7, <2>5, <2>6, NothingGranted
       DEF ReadSubscription, Undisturbed, Ledger, Subscription
<1>8. CASE Remind(s)
  <2>1. PICK m \in sweep[s].due :
          \/ /\ sent' = [sent EXCEPT ![sweep[s].user] =
                  [sent[sweep[s].user] EXCEPT ![m] = OnceMore(sent[sweep[s].user][m])]]
             /\ sweep' = [sweep EXCEPT ![s] =
                  [sweep[s] EXCEPT !.due = sweep[s].due \ {m},
                                   !.notified = sweep[s].notified \cup {m}]]
          \/ /\ sweep' = [sweep EXCEPT ![s] = [sweep[s] EXCEPT !.due = sweep[s].due \ {m}]]
             /\ UNCHANGED sent
    BY <1>8 DEF Remind
  <2>2. m \in Milestones /\ sweep[s].user \in Users
    BY <1>2, <2>1 DEF Sweep
  <2>3. sweep' \in [Sweepers -> Sweep]
    <3>1. [sweep[s] EXCEPT !.due = sweep[s].due \ {m},
                           !.notified = sweep[s].notified \cup {m}] \in Sweep
      BY <1>2, <2>2 DEF Sweep
    <3>2. [sweep[s] EXCEPT !.due = sweep[s].due \ {m}] \in Sweep
      BY <1>2 DEF Sweep
    <3> QED
      BY <1>2, <2>1, <3>1, <3>2
  <2>4. sent' \in [Users -> [Milestones -> 0..2]]
    <3>1. sent[sweep[s].user] \in [Milestones -> 0..2]
      BY <1>1, <2>2 DEF TypeOK
    <3>2. OnceMore(sent[sweep[s].user][m]) \in 0..2
      BY <2>2, <3>1 DEF OnceMore
    <3>3. [sent[sweep[s].user] EXCEPT ![m] = OnceMore(sent[sweep[s].user][m])]
            \in [Milestones -> 0..2]
      BY <3>1, <3>2
    <3>4. \/ UNCHANGED sent
          \/ sent' = [sent EXCEPT ![sweep[s].user] =
               [sent[sweep[s].user] EXCEPT ![m] = OnceMore(sent[sweep[s].user][m])]]
      BY <2>1
    <3> QED
      BY <1>1, <2>2, <3>3, <3>4 DEF TypeOK
  <2>6. TypeOK'
    BY <1>1, <1>8, <2>3, <2>4 DEF Remind, TypeOK, Undisturbed, Ledger
  <2>7. Confirmed'
    BY <1>1, <1>8 DEF Remind, Confirmed, Undisturbed
  <2> QED
    BY <1>8, <2>6, <2>7, NothingGranted DEF Remind, Undisturbed, Ledger
<1>9. CASE SaveReminders(s)
  <2>1. act' \in [Actors -> Local]
    BY <1>1, <1>9, MoveType DEF SaveReminders, PCs
  <2>2. sweep[s].user \in Users /\ sweep[s].notified \in SUBSET Milestones
    BY <1>2 DEF Sweep
  <2>3. /\ sub' \in [Users -> [order : Orders \cup {NoOrder},
                               notified : SUBSET Milestones]]
        /\ \A u \in Users : sub'[u].order = sub[u].order
    <3> DEFINE u == sweep[s].user
               Record == [order : Orders \cup {NoOrder}, notified : SUBSET Milestones]
    <3>1. sub \in [Users -> Record]
      BY <1>1 DEF TypeOK
    <3>2. /\ [sub[u] EXCEPT !.notified = sweep[s].notified] \in Record
          /\ [sub[u] EXCEPT !.notified = sweep[s].notified].order = sub[u].order
      BY <2>2, <3>1
    <3>3. \/ UNCHANGED sub
          \/ sub' = [sub EXCEPT ![u] = [sub[u] EXCEPT !.notified = sweep[s].notified]]
      BY <1>9 DEF SaveReminders
    <3> HIDE DEF Record
    <3>4. sub' \in [Users -> Record]
      BY <2>2, <3>1, <3>2, <3>3
    <3>5. \A v \in Users : sub'[v].order = sub[v].order
      BY <2>2, <3>1, <3>2, <3>3
    <3> QED
      BY <3>4, <3>5 DEF Record
  <2>4. TypeOK'
    BY <1>1, <1>9, <2>1, <2>3 DEF SaveReminders, TypeOK, Undisturbed, Ledger
  <2>5. Confirmed'
    BY <1>1, <1>9, GotoKeepsConfirmed
       DEF SaveReminders, Undisturbed, Confirming, Failing
  <2> QED
    BY <1>9, <2>3, <2>4, <2>5, NothingGranted DEF SaveReminders, Undisturbed, Ledger
<1>10. CASE EndSweep(s)
  <2>1. sweep' \in [Sweepers -> Sweep]
    BY <1>2, <1>10, ConstantsAssumption, NoSweepIsSweep
       DEF EndSweep, ConstantsAssumption
  <2>2. act' \in [Actors -> Local]
    BY <1>1, <1>10, IdleIsLocal DEF EndSweep, TypeOK
  <2>3. TypeOK'
    BY <1>1, <1>10, <2>1, <2>2 DEF EndSweep, TypeOK, Undisturbed, Ledger, Subscription
  <2>4. Confirmed'
    BY <1>1, <1>10, IdleIsLocal, MoveKeepsConfirmed
       DEF EndSweep, Undisturbed, Confirming, Failing
  <2> QED
    BY <1>10, <2>3, <2>4, NothingGranted DEF EndSweep, Undisturbed, Ledger, Subscription
<1>11. CASE MarkPaid(s)
  BY <1>1, <1>11, MarkPaidStep
<1> QED
  BY <1>3, <1>4, <1>5, <1>6, <1>7, <1>8, <1>9, <1>10, <1>11 DEF SweepStep

\* An exception, or the end of a process.
LEMMA InterruptionPreserves ==
  ASSUME Inv, NEW a \in Actors, Interrupted(a) PROVE Inv'
<1>1. TypeOK /\ Confirmed
  BY DEF Inv
<1>2. PICK l \in {Idle, [pc |-> "pick", order |-> NoOrder, hook |-> "none"]} :
        act' = [act EXCEPT ![a] = l]
  BY DEF Interrupted, Start
<1>3. l \in Local /\ l.pc \notin Confirming \cup Failing
  BY <1>2, IdleIsLocal DEF Local, PCs, Confirming, Failing
<1>4. sweep' \in [Sweepers -> Sweep]
  BY <1>1, ConstantsAssumption, NoSweepIsSweep
     DEF Interrupted, TypeOK, ConstantsAssumption
<1>5. cut' \in SUBSET Orders
  <2>1. CASE act[a].pc # "extend"
    BY <1>1, <2>1 DEF Interrupted, TypeOK
  <2>2. CASE act[a].pc = "extend"
    <3>1. act[a].order \in Orders
      BY <1>1, <2>2 DEF Confirmed, Confirming
    <3> QED
      BY <1>1, <2>2, <3>1 DEF Interrupted, TypeOK
  <2> QED
    BY <2>1, <2>2
<1>6. TypeOK'
  <2>1. act' \in [Actors -> Local]
    BY <1>1, <1>2, <1>3 DEF TypeOK
  <2> QED
    BY <1>1, <1>4, <1>5, <2>1 DEF Interrupted, TypeOK, Ledger
<1>7. Confirmed'
  BY <1>1, <1>2, <1>3, MoveKeepsConfirmed DEF Interrupted
<1> QED
  BY <1>6, <1>7, NothingGranted DEF Interrupted, Ledger

\* The initial states satisfy the invariant.
LEMMA InvInitially == Init => Inv
<1> SUFFICES ASSUME Init PROVE Inv
  OBVIOUS
<1>1. TypeOK
  <2>1. sweep \in [Sweepers -> Sweep]
    BY ConstantsAssumption, NoSweepIsSweep DEF Init, ConstantsAssumption
  <2>2. act \in [Actors -> Local]
    BY IdleIsLocal DEF Init
  <2>3. elapsed \in [Users -> 0..Reminders]
    BY ConstantsAssumption DEF Init, ConstantsAssumption
  <2> QED
    BY <2>1, <2>2, <2>3 DEF Init, TypeOK
<1>2. Confirmed
  BY IdleIsLocal DEF Init, Confirmed, Confirming, Failing
<1>3. HooksAreTrue
  BY DEF Init, HooksAreTrue
<1>4. OnlyCapturedIsGranted
  BY DEF Init, OnlyCapturedIsGranted
<1> QED
  BY <1>1, <1>2, <1>3, <1>4 DEF Inv

\* Every step keeps it.
LEMMA InvInductive == Inv /\ [Next]_vars => Inv'
<1> SUFFICES ASSUME Inv, [Next]_vars PROVE Inv'
  OBVIOUS
<1>1. CASE Environment
  BY <1>1, EnvironmentStep
<1>2. ASSUME NEW c \in Clients, VerifyStep(c) PROVE Inv'
  BY <1>2, VerifyPreserves
<1>3. ASSUME NEW h \in Hooks, HookStep(h) PROVE Inv'
  BY <1>3, HookPreserves
<1>4. ASSUME NEW s \in Sweepers, SweepStep(s) PROVE Inv'
  BY <1>4, SweepPreserves
<1>5. ASSUME NEW a \in Actors, Interrupted(a) PROVE Inv'
  BY <1>5, InterruptionPreserves
<1>6. CASE UNCHANGED vars
  BY <1>6 DEF vars, Inv, TypeOK, Confirmed, HooksAreTrue, OnlyCapturedIsGranted
<1> QED
  BY <1>1, <1>2, <1>3, <1>4, <1>5, <1>6 DEF Next

\* The invariant holds in every reachable state, whatever goes wrong.
THEOREM InvAlways == Spec => []Inv
  BY InvInitially, InvInductive, PTL DEF Spec

\* Every variable keeps to its type.
THEOREM TypesCorrect == Spec => []TypeOK
<1>1. Inv => TypeOK
  BY DEF Inv
<1> QED
  BY <1>1, InvAlways, PTL

\* No plan, billing period or paid record without a payment that Razorpay
\* captured: for any number of users, orders, clients, webhooks and sweepers,
\* and under every fault.
THEOREM OnlyCapturedOrdersAreGranted == Spec => []OnlyCapturedIsGranted
<1>1. Inv => OnlyCapturedIsGranted
  BY DEF Inv
<1> QED
  BY <1>1, InvAlways, PTL

-----------------------------------------------------------------------------
(* What is recorded as paid is granted, unless its handler was cut short   *)
(* between the two writes.                                                 *)

\* A step that records no payment and moves no actor out of "extend" leaves
\* whoever still has to grant a paid order where it is.
LEMMA GrantersStay ==
  ASSUME PaidIsGranted, granted \subseteq granted', cut \subseteq cut',
         \A o \in Orders : payment'[o].status = "paid" => payment[o].status = "paid",
         \A b \in Actors : act[b].pc = "extend" => act'[b] = act[b]
  PROVE  PaidIsGranted'
<1>1. ASSUME NEW o \in Orders, payment'[o].status = "paid"
      PROVE  o \in granted' \/ Extending(o)' \/ o \in cut'
  <2>1. CASE o \in granted \/ o \in cut
    BY <2>1
  <2>2. CASE Extending(o)
    <3>1. PICK b \in Actors : act[b].pc = "extend" /\ act[b].order = o
      BY <2>2 DEF Extending
    <3> QED
      BY <3>1 DEF Extending
  <2> QED
    BY <1>1, <2>1, <2>2 DEF PaidIsGranted
<1> QED
  BY <1>1 DEF PaidIsGranted

\* An actor moves alone.
LEMMA MovesAlone ==
  ASSUME NEW a \in Actors, TypeOK,
         \/ Return(a)
         \/ \E pc \in PCs : Goto(a, pc)
         \/ \E pc \in PCs, o \in Orders \cup {NoOrder} : Start(a, pc, o)
  PROVE  \A b \in Actors : b # a => act'[b] = act[b]
BY DEF Return, Goto, Start, TypeOK

\* Writing another status records no payment.
LEMMA OtherStatus ==
  ASSUME TypeOK, NEW o \in Orders, NEW s \in {"created", "failed"}, SetStatus(o, s)
  PROVE  \A p \in Orders : payment'[p].status = "paid" => payment[p].status = "paid"
BY DEF SetStatus, TypeOK

\* Razorpay, the users and the clock grant nothing and move nobody.
LEMMA EnvironmentPays ==
  ASSUME TypeOK, PaidIsGranted, Environment PROVE PaidIsGranted'
<1>1. UNCHANGED <<act, granted, cut>>
  BY DEF Environment, CreateOrder, Capture, GrowOld, Misfire, LoseEvent, PeriodElapses,
         Subscription
<1>2. ASSUME NEW o \in Orders, CreateOrder(o) PROVE PaidIsGranted'
  BY <1>1, <1>2, OtherStatus, GrantersStay DEF CreateOrder
<1>3. ASSUME NEW o \in Orders, GrowOld(o) PROVE PaidIsGranted'
  <2>1. \A p \in Orders : payment'[p].status = payment[p].status
    BY <1>3 DEF GrowOld, TypeOK
  <2> QED
    BY <1>1, <2>1, GrantersStay
<1>4. CASE UNCHANGED payment
  BY <1>1, <1>4, GrantersStay
<1> QED
  BY <1>2, <1>3, <1>4
     DEF Environment, Capture, Misfire, LoseEvent, PeriodElapses, Ledger

\* The handler that records a payment is the one that grants it.
LEMMA MarkPaidPays ==
  ASSUME Inv, PaidIsGranted, NEW a \in Actors, MarkPaid(a) PROVE PaidIsGranted'
<1>1. TypeOK /\ Confirmed
  BY DEF Inv
<1>2. CASE Look(a)
  <2>1. \A b \in Actors : b # a => act'[b] = act[b]
    BY <1>1, <1>2, MovesAlone DEF Look, PCs
  <2> QED
    BY <1>2, <2>1, GrantersStay DEF Look, Ledger, Subscription
<1>3. CASE Pay(a)
  <2>1. \A b \in Actors : b # a => act'[b] = act[b]
    BY <1>1, <1>3, MovesAlone DEF Pay, PCs
  <2>2. act'[a].pc = "extend" /\ act'[a].order = act[a].order
    BY <1>1, <1>3 DEF Pay, Goto, TypeOK, Local
  <2>3. \A o \in Orders : payment'[o].status = "paid"
                            => payment[o].status = "paid" \/ o = act[a].order
    BY <1>1, <1>3 DEF Pay, SetStatus, TypeOK
  <2>4. granted' = granted /\ cut' = cut /\ act[a].pc # "extend"
    BY <1>3 DEF Pay, Subscription
  <2>5. ASSUME NEW o \in Orders, payment'[o].status = "paid", o \notin granted',
               o \notin cut'
        PROVE  Extending(o)'
    <3>1. CASE o = act[a].order
      BY <2>2, <3>1 DEF Extending
    <3>2. CASE payment[o].status = "paid"
      <4>1. PICK b \in Actors : act[b].pc = "extend" /\ act[b].order = o
        BY <2>4, <2>5, <3>2 DEF PaidIsGranted, Extending
      <4> QED
        BY <2>1, <2>4, <4>1 DEF Extending
    <3> QED
      BY <2>3, <2>5, <3>1, <3>2
  <2> QED
    BY <2>5 DEF PaidIsGranted
<1>4. CASE Extend(a)
  <2>1. \A b \in Actors : b # a => act'[b] = act[b]
    BY <1>1, <1>4, MovesAlone DEF Extend, PCs
  <2>2. granted' = granted \cup {act[a].order} /\ cut' = cut /\ payment' = payment
    BY <1>4 DEF Extend, Ledger
  <2>3. ASSUME NEW o \in Orders, payment'[o].status = "paid", o \notin granted',
               o \notin cut'
        PROVE  Extending(o)'
    <3>1. PICK b \in Actors : act[b].pc = "extend" /\ act[b].order = o
      BY <2>2, <2>3 DEF PaidIsGranted, Extending
    <3> QED
      BY <2>1, <2>2, <2>3, <3>1 DEF Extending
  <2> QED
    BY <2>3 DEF PaidIsGranted
<1>5. CASE Assign(a)
  <2>1. \A b \in Actors : b # a => act'[b] = act[b]
    BY <1>1, <1>5, MovesAlone DEF Assign
  <2> QED
    BY <1>5, <2>1, GrantersStay DEF Assign, Ledger
<1> QED
  BY <1>2, <1>3, <1>4, <1>5 DEF MarkPaid

\* An actor that fails an order and is through had granted nothing.
LEMMA FailingPays ==
  ASSUME Inv, PaidIsGranted, NEW a \in Actors, act[a].pc \in Failing, Return(a),
         SetStatus(act[a].order, "failed") \/ UNCHANGED payment,
         UNCHANGED <<granted, cut>>
  PROVE  PaidIsGranted'
<1>1. TypeOK /\ Confirmed
  BY DEF Inv
<1>2. act[a].order \in Orders
  BY <1>1 DEF Confirmed
<1>3. \A b \in Actors : b # a => act'[b] = act[b]
  BY <1>1, MovesAlone
<1>4. \A p \in Orders : payment'[p].status = "paid" => payment[p].status = "paid"
  BY <1>1, <1>2, OtherStatus
<1> QED
  BY <1>3, <1>4, GrantersStay DEF Failing

\* So had one that is elsewhere and leaves the payments alone.
LEMMA BystanderPays ==
  ASSUME PaidIsGranted, NEW a \in Actors, act[a].pc # "extend",
         \A b \in Actors : b # a => act'[b] = act[b],
         UNCHANGED <<payment, granted, cut>>
  PROVE  PaidIsGranted'
BY GrantersStay

\* A handler that is cut short before it grants an order leaves it marked so.
LEMMA InterruptedPays ==
  ASSUME TypeOK, PaidIsGranted, NEW a \in Actors, Interrupted(a) PROVE PaidIsGranted'
<1>1. \A b \in Actors : b # a => act'[b] = act[b]
  BY DEF Interrupted, Start, TypeOK
<1>2. granted' = granted /\ payment' = payment
  BY DEF Interrupted, Ledger
<1>3. CASE act[a].pc # "extend"
  <2>1. cut' = cut
    BY <1>3 DEF Interrupted
  <2> QED
    BY <1>1, <1>2, <1>3, <2>1, BystanderPays
<1>4. CASE act[a].pc = "extend"
  <2>1. cut' = cut \cup {act[a].order}
    BY <1>4 DEF Interrupted
  <2>2. ASSUME NEW o \in Orders, payment'[o].status = "paid", o \notin granted',
               o \notin cut'
        PROVE  Extending(o)'
    <3>1. PICK b \in Actors : act[b].pc = "extend" /\ act[b].order = o
      BY <1>2, <2>1, <2>2 DEF PaidIsGranted, Extending
    <3> QED
      BY <1>1, <2>1, <2>2, <3>1 DEF Extending
  <2> QED
    BY <2>2 DEF PaidIsGranted
<1> QED
  BY <1>3, <1>4

\* No step leaves a paid order without a period in any other way.
LEMMA StepPays == ASSUME Inv, PaidIsGranted, [Next]_vars PROVE PaidIsGranted'
<1>1. TypeOK
  BY DEF Inv
<1>2. CASE Environment
  BY <1>1, <1>2, EnvironmentPays
<1>3. ASSUME NEW c \in Clients, VerifyStep(c) PROVE PaidIsGranted'
  <2>1. c \in Actors
    BY DEF Actors
  <2>2. ASSUME NEW o \in Orders, Verify(c, o) PROVE PaidIsGranted'
    <3>1. \A b \in Actors : b # c => act'[b] = act[b]
      BY <1>1, <2>1, <2>2, MovesAlone DEF Verify, PCs
    <3> QED
      BY <2>1, <2>2, <3>1, BystanderPays DEF Verify, Ledger, Subscription
  <2>3. CASE Reject(c)
    BY <2>1, <2>3, FailingPays DEF Reject, Failing, Subscription
  <2>4. CASE MarkPaid(c)
    BY <2>1, <2>4, MarkPaidPays
  <2> QED
    BY <1>3, <2>2, <2>3, <2>4 DEF VerifyStep
<1>4. ASSUME NEW h \in Hooks, HookStep(h) PROVE PaidIsGranted'
  <2>1. h \in Actors
    BY DEF Actors
  <2>2. ASSUME NEW e \in Events, Deliver(h, e) PROVE PaidIsGranted'
    <3>1. \A b \in Actors : b # h => act'[b] = act[b]
      BY <1>1, <2>1, <2>2 DEF Deliver, TypeOK
    <3> QED
      BY <2>1, <2>2, <3>1, BystanderPays DEF Deliver, Subscription
  <2>3. CASE HookMismatched(h)
    <3>1. \A b \in Actors : b # h => act'[b] = act[b]
      BY <1>1, <2>1, <2>3, MovesAlone DEF HookMismatched, PCs
    <3> QED
      BY <2>1, <2>3, <3>1, BystanderPays DEF HookMismatched, Ledger, Subscription
  <2>4. CASE HookFailed(h)
    BY <2>1, <2>4, FailingPays DEF HookFailed, Failing, Subscription
  <2>5. CASE MarkPaid(h)
    BY <2>1, <2>5, MarkPaidPays
  <2> QED
    BY <1>4, <2>2, <2>3, <2>4, <2>5 DEF HookStep
<1>5. ASSUME NEW s \in Sweepers, SweepStep(s) PROVE PaidIsGranted'
  <2>1. s \in Actors
    BY DEF Actors
  <2>2. CASE StartSweep(s) \/ StartReminders(s) \/ ReadSubscription(s) \/ SaveReminders(s)
    <3>1. \A b \in Actors : b # s => act'[b] = act[b]
      BY <1>1, <2>1, <2>2, MovesAlone
         DEF StartSweep, StartReminders, ReadSubscription, SaveReminders, PCs
    <3>2. UNCHANGED <<payment, granted, cut>> /\ act[s].pc # "extend"
      BY <2>2 DEF StartSweep, StartReminders, ReadSubscription, SaveReminders, Ledger,
                  Subscription
    <3> QED
      BY <2>1, <3>1, <3>2, BystanderPays
  <2>3. CASE Fetch(s)
    <3>1. \A b \in Actors : b # s => act'[b] = act[b]
      BY <1>1, <2>1, <2>3 DEF Fetch, Start, TypeOK
    <3> QED
      BY <2>1, <2>3, <3>1, BystanderPays DEF Fetch, Ledger, Subscription
  <2>4. CASE Expire(s)
    BY <2>1, <2>4, FailingPays DEF Expire, Failing, Subscription
  <2>5. CASE Remind(s)
    BY <2>1, <2>5, BystanderPays DEF Remind, Ledger
  <2>6. CASE EndSweep(s)
    <3>1. \A b \in Actors : b # s => act'[b] = act[b]
      BY <1>1, <2>1, <2>6 DEF EndSweep, TypeOK
    <3> QED
      BY <2>1, <2>6, <3>1, BystanderPays DEF EndSweep, Ledger, Subscription
  <2>7. CASE MarkPaid(s)
    BY <2>1, <2>7, MarkPaidPays
  <2> QED
    BY <1>5, <2>2, <2>3, <2>4, <2>5, <2>6, <2>7 DEF SweepStep
<1>6. ASSUME NEW a \in Actors, Interrupted(a) PROVE PaidIsGranted'
  BY <1>1, <1>6, InterruptedPays
<1>7. CASE UNCHANGED vars
  BY <1>7 DEF vars, PaidIsGranted, Extending
<1> QED
  BY <1>2, <1>3, <1>4, <1>5, <1>6, <1>7 DEF Next

\* An order recorded as paid has extended the billing period or is about to, unless
\* a handler of it was cut short between the two writes: for any number of
\* confirmations at a time and under every fault.
THEOREM PaidOrdersAreGranted == Spec => []PaidIsGranted
<1>1. Init => PaidIsGranted
  BY DEF Init, PaidIsGranted
<1>2. Inv /\ PaidIsGranted /\ [Next]_vars => PaidIsGranted'
  BY StepPays
<1> QED
  BY <1>1, <1>2, InvAlways, PTL DEF Spec

-----------------------------------------------------------------------------
(* No reminder is sent twice: what has been sent in this period is on the  *)
(* subscription's list or on that of the sweep which is about to save it.  *)

\* One scheduler sweeps, and neither is its process cut short nor the store away.
SoleSweeper ==
  /\ \A r, s \in Sweepers : r = s
  /\ Faults \cap {"unreachable", "interrupted"} = {}

Reminding(s) == act[s].pc = "remind"

SentIsListed ==
  \A u \in Users, m \in Milestones :
    /\ sent[u][m] \in {0, 1}
    /\ sent[u][m] = 1 =>
         \/ m \in sub[u].notified
         \/ \E s \in Sweepers : /\ Reminding(s) /\ sweep[s].user = u
                                /\ m \in sweep[s].notified \ sweep[s].read

\* A sweep at its reminders: what is due was not sent, and the list that it will
\* write back lacks nothing that is on the subscription's.
SweepIsFresh ==
  \A s \in Sweepers : Reminding(s) =>
    /\ \A m \in sweep[s].due : sent[sweep[s].user][m] = 0
    /\ sweep[s].due \cap sweep[s].read = {}
    /\ sub[sweep[s].user].notified \subseteq sweep[s].notified

Once == SentIsListed /\ SweepIsFresh

-----------------------------------------------------------------------------

\* A step that leaves the reminders and whoever sends them alone.
LEMMA BystanderReminds ==
  ASSUME Once, UNCHANGED <<sub, sent, sweep>>,
         \A s \in Sweepers : Reminding(s)' <=> Reminding(s)
  PROVE  Once'
<1>1. SentIsListed'
  BY DEF Once, SentIsListed
<1>2. SweepIsFresh'
  BY DEF Once, SweepIsFresh
<1> QED
  BY <1>1, <1>2 DEF Once

\* Where an actor that is not at its reminders goes, it sends none.
LEMMA NotReminding ==
  ASSUME TypeOK, NEW a \in Actors, act[a].pc # "remind",
         \/ Return(a)
         \/ \E pc \in PCs \ {"remind"} : Goto(a, pc)
         \/ \E pc \in PCs \ {"remind"}, o \in Orders \cup {NoOrder} : Start(a, pc, o)
  PROVE  \A s \in Sweepers : Reminding(s)' <=> Reminding(s)
<1>1. \A b \in Actors : b # a => act'[b] = act[b]
  BY MovesAlone
<1>2. act'[a].pc # "remind"
  BY DEF TypeOK, Return, Goto, Start, Idle, Local
<1> QED
  BY <1>1, <1>2 DEF Reminding, Actors

\* A renewal clears the list and the reminders of one user together.
LEMMA RenewalReminds ==
  ASSUME TypeOK, Once, NEW a \in Actors, act[a].order \in Orders, Extend(a)
  PROVE  Once'
<1> DEFINE u == Buyer[act[a].order]
<1>1. /\ u \in Users
      /\ sub'[u].notified = {} /\ \A m \in Milestones : sent'[u][m] = 0
      /\ \A v \in Users : v # u => sub'[v] = sub[v] /\ sent'[v] = sent[v]
      /\ sweep' = sweep
  BY ConstantsAssumption DEF Extend, TypeOK, Others
<1>2. \A s \in Sweepers : Reminding(s)' <=> Reminding(s)
  BY NotReminding DEF Extend, PCs
<1> HIDE DEF u
<1>3. SentIsListed'
  BY <1>1, <1>2 DEF Once, SentIsListed
<1>4. SweepIsFresh'
  <2>1. \A s \in Sweepers : sweep[s].user \in Users /\ sweep[s].due \subseteq Milestones
    BY DEF TypeOK, Sweep
  <2> QED
    BY <1>1, <1>2, <2>1 DEF Once, SweepIsFresh
<1> QED
  BY <1>3, <1>4 DEF Once

LEMMA MarkPaidReminds ==
  ASSUME Inv, Once, NEW a \in Actors, MarkPaid(a) PROVE Once'
<1>1. TypeOK /\ Confirmed
  BY DEF Inv
<1>2. CASE Extend(a)
  <2>1. act[a].order \in Orders
    BY <1>1, <1>2 DEF Confirmed, Extend, Confirming
  <2> QED
    BY <1>1, <1>2, <2>1, RenewalReminds
<1>3. CASE Look(a) \/ Pay(a) \/ Assign(a)
  <2>1. UNCHANGED <<sub, sent, sweep>>
    BY <1>3 DEF Look, Pay, Assign, Others, Subscription
  <2>2. \A s \in Sweepers : Reminding(s)' <=> Reminding(s)
    BY <1>1, <1>3, NotReminding DEF Look, Pay, Assign, PCs
  <2> QED
    BY <2>1, <2>2, BystanderReminds
<1> QED
  BY <1>2, <1>3 DEF MarkPaid

-----------------------------------------------------------------------------
(* The sweep's own steps.                                                  *)

LEMMA ReadReminds ==
  ASSUME SoleSweeper, TypeOK, Once, NEW s \in Sweepers, ReadSubscription(s)
  PROVE  Once'
<1>1. PICK u \in sweep[s].users :
        sweep' = [sweep EXCEPT ![s] =
          [orders |-> {}, users |-> sweep[s].users \ {u}, user |-> u,
           read |-> sub[u].notified, notified |-> sub[u].notified,
           due |-> IF sub[u].order = NoOrder THEN {}
                   ELSE {m \in Milestones : m <= elapsed[u]} \ sub[u].notified]]
  BY DEF ReadSubscription
<1>2. u \in Users /\ UNCHANGED <<sub, sent>> /\ \A r \in Sweepers : r = s /\ ~Reminding(r)
  BY <1>1 DEF TypeOK, Sweep, ReadSubscription, Subscription, Reminding, SoleSweeper
<1>3. /\ sweep'[s].user = u /\ sweep'[s].read = sub[u].notified
      /\ sweep'[s].notified = sub[u].notified
      /\ sweep'[s].due \subseteq Milestones \ sub[u].notified
  BY <1>1 DEF TypeOK
<1>4. SentIsListed'
  BY <1>2 DEF Once, SentIsListed
<1>5. SweepIsFresh'
  BY <1>2, <1>3 DEF Once, SentIsListed, SweepIsFresh
<1> QED
  BY <1>4, <1>5 DEF Once

LEMMA RemindReminds ==
  ASSUME SoleSweeper, TypeOK, Once, NEW s \in Sweepers, Remind(s)
  PROVE  Once'
<1> DEFINE u == sweep[s].user
<1>1. PICK m \in sweep[s].due :
        /\ sent' = [sent EXCEPT ![u] = [sent[u] EXCEPT ![m] = OnceMore(sent[u][m])]]
        /\ sweep' = [sweep EXCEPT ![s] =
             [sweep[s] EXCEPT !.due = sweep[s].due \ {m},
                              !.notified = sweep[s].notified \cup {m}]]
  BY DEF Remind, SoleSweeper
<1>2. /\ u \in Users /\ m \in Milestones /\ sent[u] \in [Milestones -> 0..2]
      /\ Reminding(s) /\ Reminding(s)' /\ sub' = sub
  BY DEF TypeOK, Sweep, Remind, Reminding
<1>3. sent[u][m] = 0 /\ m \notin sweep[s].read
  BY <1>2 DEF Once, SweepIsFresh
<1>4. /\ sent'[u][m] = 1
      /\ \A v \in Users, n \in Milestones : v # u \/ n # m => sent'[v][n] = sent[v][n]
  BY <1>1, <1>2, <1>3 DEF TypeOK, OnceMore
<1>5. /\ sweep'[s].user = u /\ sweep'[s].read = sweep[s].read
      /\ sweep'[s].notified = sweep[s].notified \cup {m}
      /\ sweep'[s].due = sweep[s].due \ {m}
  BY <1>1 DEF TypeOK, Sweep
<1>6. \A r \in Sweepers : r = s
  BY DEF SoleSweeper
<1>7. sweep[s].due \subseteq Milestones
  BY DEF TypeOK, Sweep
<1> HIDE DEF u
<1>8. SentIsListed'
  <2> SUFFICES ASSUME NEW v \in Users, NEW n \in Milestones
               PROVE  /\ sent'[v][n] \in {0, 1}
                      /\ sent'[v][n] = 1 =>
                           \/ n \in sub'[v].notified
                           \/ \E r \in Sweepers :
                                /\ Reminding(r)' /\ sweep'[r].user = v
                                /\ n \in sweep'[r].notified \ sweep'[r].read
    BY DEF SentIsListed
  <2>1. CASE v = u /\ n = m
    BY <2>1, <1>2, <1>3, <1>4, <1>5
  <2>2. CASE v # u \/ n # m
    <3>1. sent'[v][n] = sent[v][n]
      BY <1>4, <2>2
    <3> QED
      BY <3>1, <1>2, <1>5, <1>6 DEF Once, SentIsListed, u
  <2> QED
    BY <2>1, <2>2
<1>9. SweepIsFresh'
  BY <1>2, <1>3, <1>4, <1>5, <1>6, <1>7 DEF Once, SweepIsFresh, u
<1> QED
  BY <1>8, <1>9 DEF Once

LEMMA SaveReminds ==
  ASSUME SoleSweeper, TypeOK, Once, NEW s \in Sweepers, SaveReminders(s)
  PROVE  Once'
<1> DEFINE u == sweep[s].user
<1>1. /\ Reminding(s) /\ u \in Users /\ UNCHANGED <<sent, sweep>>
      /\ \A r \in Sweepers : r = s
  BY DEF SaveReminders, Reminding, SoleSweeper, TypeOK, Sweep
<1>2. ~Reminding(s)'
  BY DEF SaveReminders, Goto, Reminding, TypeOK, Local, Actors
<1>3. \/ sub' = sub /\ sweep[s].notified = sweep[s].read
      \/ /\ sub'[u].notified = sweep[s].notified
         /\ \A v \in Users : v # u => sub'[v] = sub[v]
  BY <1>1 DEF SaveReminders, SoleSweeper, TypeOK
<1> HIDE DEF u
<1>4. ASSUME NEW v \in Users, NEW n \in Milestones, sent[v][n] = 1
      PROVE  n \in sub'[v].notified
  <2>1. \/ n \in sub[v].notified
        \/ v = u /\ n \in sweep[s].notified \ sweep[s].read
    BY <1>1, <1>4 DEF Once, SentIsListed, u
  <2>2. sub[u].notified \subseteq sweep[s].notified
    BY <1>1 DEF Once, SweepIsFresh, u
  <2> QED
    BY <1>3, <2>1, <2>2
<1>5. SentIsListed'
  BY <1>1, <1>4 DEF Once, SentIsListed
<1>6. SweepIsFresh'
  BY <1>1, <1>2 DEF SweepIsFresh
<1> QED
  BY <1>5, <1>6 DEF Once

LEMMA SweepReminds ==
  ASSUME SoleSweeper, Inv, Once, NEW s \in Sweepers, SweepStep(s) PROVE Once'
<1>1. s \in Actors /\ TypeOK
  BY DEF Actors, Inv
<1>2. CASE StartSweep(s) \/ StartReminders(s) \/ Fetch(s) \/ Expire(s) \/ EndSweep(s)
  <2>1. ~Reminding(s) /\ ~Reminding(s)' /\ UNCHANGED <<sub, sent>>
    BY <1>1, <1>2 DEF StartSweep, StartReminders, Fetch, Expire, EndSweep, Goto, Start,
       Return, Idle, Reminding, TypeOK, Local, Subscription
  <2>2. \A r \in Sweepers : r = s
    BY DEF SoleSweeper
  <2> QED
    BY <2>1, <2>2 DEF Once, SentIsListed, SweepIsFresh
<1> QED
  BY <1>1, <1>2, ReadReminds, RemindReminds, SaveReminds, MarkPaidReminds DEF SweepStep

LEMMA StepReminds ==
  ASSUME SoleSweeper, Inv, Once, [Next]_vars PROVE Once'
<1>1. TypeOK
  BY DEF Inv
<1>2. CASE Environment \/ UNCHANGED vars
  <2>1. UNCHANGED <<sub, sent, sweep, act>>
    BY <1>2 DEF vars, Environment, CreateOrder, Capture, GrowOld, Misfire, LoseEvent,
       PeriodElapses, Subscription
  <2> QED
    BY <2>1, BystanderReminds DEF Reminding
<1>3. ASSUME NEW c \in Clients, VerifyStep(c) PROVE Once'
  <2>1. c \in Actors
    BY DEF Actors
  <2>2. ASSUME NEW o \in Orders, Verify(c, o) PROVE Once'
    <3>1. \A s \in Sweepers : Reminding(s)' <=> Reminding(s)
      BY <1>1, <2>1, <2>2, NotReminding DEF Verify, PCs
    <3> QED
      BY <2>2, <3>1, BystanderReminds DEF Verify, Others, Subscription
  <2>3. CASE Reject(c)
    <3>1. \A s \in Sweepers : Reminding(s)' <=> Reminding(s)
      BY <1>1, <2>1, <2>3, NotReminding DEF Reject
    <3> QED
      BY <2>3, <3>1, BystanderReminds DEF Reject, Others, Subscription
  <2> QED
    BY <1>3, <2>1, <2>2, <2>3, MarkPaidReminds DEF VerifyStep
<1>4. ASSUME NEW h \in Hooks, HookStep(h) PROVE Once'
  <2>1. h \in Actors /\ h \notin Sweepers
    BY ConstantsAssumption DEF Actors
  <2>2. ASSUME NEW e \in Events, Deliver(h, e) PROVE Once'
    <3>1. \A s \in Sweepers : act'[s] = act[s]
      BY <1>1, <2>1, <2>2 DEF Deliver, TypeOK, Actors
    <3> QED
      BY <2>2, <3>1, BystanderReminds DEF Deliver, Others, Subscription, Reminding
  <2>3. CASE HookMismatched(h) \/ HookFailed(h)
    <3>1. \A s \in Sweepers : Reminding(s)' <=> Reminding(s)
      BY <1>1, <2>1, <2>3, NotReminding DEF HookMismatched, HookFailed, PCs
    <3> QED
      BY <2>3, <3>1, BystanderReminds DEF HookMismatched, HookFailed, Others, Subscription
  <2> QED
    BY <1>4, <2>1, <2>2, <2>3, MarkPaidReminds DEF HookStep
<1>5. ASSUME NEW a \in Actors, Interrupted(a) PROVE Once'
  BY <1>5 DEF Interrupted, SoleSweeper
<1> QED
  BY <1>2, <1>3, <1>4, <1>5, SweepReminds DEF Next

\* With one sweep that is not cut short and reaches the store, no reminder is sent
\* twice in a billing period, whenever a renewal clears the list of those sent.
THEOREM RemindersAreSentOnce ==
  ASSUME SoleSweeper PROVE Spec => []RemindedOnce
<1>1. Init => Once
  BY DEF Init, Once, SentIsListed, SweepIsFresh, Reminding, Idle, Actors
<1>2. Inv /\ Once /\ [Next]_vars => Once'
  BY StepReminds
<1>3. Once => RemindedOnce
  BY DEF Once, SentIsListed, RemindedOnce
<1> QED
  BY <1>1, <1>2, <1>3, InvAlways, PTL DEF Spec

================================================================================
