---------------------------- MODULE RowStoreProofs ----------------------------
(***************************************************************************)
(* Proofs about RowStore.  With one process, whoever has read the row      *)
(* holds the lock that every other call waits for, so that its copy is     *)
(* still the row when it replaces it.  With several, the same is true if   *)
(* nobody calls update: one command needs no lock.  Nothing else is needed *)
(* for calls to take effect at once; refused commands, repeated attempts   *)
(* and stopped processes do no harm.                                       *)
(***************************************************************************)
EXTENDS RowStore, TLAPS

\* All callers share the lock.
OneProcess == \A p, q \in Processes : p = q

\* Every call is one command to MongoDB.
OnlyCommands == \A k \in Calls : k.kind # "update"

Ordered == OneProcess \/ OnlyCommands

\* Who is between its two commands holds the lock, and an up-to-date copy.
Fresh ==
  \A c \in Callers : call[c].pc = "read" =>
    /\ lock[ProcessOf[c]] = c
    /\ row \in Rows /\ call[c].copy = row
    /\ call[c].does.kind = "update"

Inv == TypeOK /\ Fresh /\ ClaimHolds

LEMMA SomeCallIsCall == SomeCall \in Calls
  BY CallAssumption DEF SomeCall

LEMMA IdleIsCall == Idle \in Call
  BY SomeCallIsCall DEF Idle, Call

\* Writing some fields of a row gives a row.
LEMMA MergeIsRow ==
  ASSUME NEW r \in Rows, NEW u \in Updates
  PROVE  Merge(r, u) \in Rows
<1>1. PICK S \in SUBSET Fields : u \in [S -> Values]
  BY DEF Updates
<1> QED
  BY <1>1 DEF Merge, Rows

LEMMA CallsAreTyped ==
  ASSUME NEW k \in Calls
  PROVE  k.kind \in Kinds /\ k.set \in Updates /\ Written(k) \in Updates
<1>1. k \in CallType
  BY CallAssumption
<1>2. [f \in {State} |-> Posting] \in [{State} -> Values] /\ {State} \in SUBSET Fields
  BY CallAssumption
<1>3. [f \in {State} |-> Posting] \in Updates
  BY <1>2 DEF Updates
<1> QED
  BY <1>1, <1>3 DEF CallType, Written

\* Writing all the fields gives a row, whatever was there.
LEMMA InsertIsRow ==
  ASSUME NEW k \in Calls, k.kind = "insert", NEW r
  PROVE  Merge(r, Written(k)) \in Rows
<1>1. k.set \in [Fields -> Values]
  BY CallAssumption DEF Rows
<1> QED
  BY <1>1 DEF Merge, Written, Rows

\* What a call does to the row.
LEMMA Effects ==
  ASSUME NEW k \in Calls, NEW r \in Rows \cup {NoRow}
  PROVE  /\ Effect(k, r) \in Rows \cup {NoRow}
         /\ Hits(k, r) \in BOOLEAN
<1>1. Hits(k, r) \in BOOLEAN /\ (Hits(k, r) /\ k.kind # "insert" => r \in Rows)
  BY DEF Hits
<1>2. CASE ~Hits(k, r) \/ k.kind = "delete"
  BY <1>1, <1>2 DEF Effect
<1>3. CASE Hits(k, r) /\ k.kind = "insert"
  BY <1>1, <1>3, InsertIsRow DEF Effect
<1>4. CASE Hits(k, r) /\ k.kind \notin {"insert", "delete"}
  BY <1>1, <1>4, CallsAreTyped, MergeIsRow DEF Effect
<1> QED
  BY <1>1, <1>2, <1>3, <1>4

-----------------------------------------------------------------------------
(* Types.                                                                  *)

LEMMA TypeInit == Init => TypeOK
<1>1. Idle \in Call /\ Idle.pc = "idle"
  BY IdleIsCall DEF Idle
<1> QED
  BY <1>1 DEF Init, TypeOK

\* A call under way may be replaced by another one of the type.
LEMMA CallMoves ==
  ASSUME TypeOK, NEW c \in Callers, NEW k \in Call,
         k.pc = "read" => k.copy \in Rows,
         call' = [call EXCEPT ![c] = k]
  PROVE  /\ call' \in [Callers -> Call]
         /\ \A d \in Callers : call'[d].pc = "read" => call'[d].copy \in Rows
  BY DEF TypeOK

\* Every step keeps the types.
LEMMA TypeStep == TypeOK /\ [Next]_vars => TypeOK'
<1> SUFFICES ASSUME TypeOK, [Next]_vars PROVE TypeOK'
  OBVIOUS
<1> USE IdleIsCall
<1>1. ASSUME NEW c \in Callers, Step(c) PROVE TypeOK'
  <2>1. /\ call[c] \in Call /\ call[c].does \in Calls /\ ProcessOf[c] \in Processes
        /\ row \in Rows \cup {NoRow} /\ Idle.pc = "idle"
    BY StoreAssumption DEF TypeOK, Call, Idle
  <2>2. ASSUME NEW a \in BOOLEAN, Answer(c, a)
        PROVE  /\ call' \in [Callers -> Call]
               /\ \A d \in Callers : call'[d].pc = "read" => call'[d].copy \in Rows
    <3> DEFINE k == [call[c] EXCEPT !.pc = "done", !.answer = a, !.copy = NoRow]
    <3>1. k \in Call /\ k.pc = "done"
      BY <2>1 DEF Call
    <3> QED
      BY <2>2, <3>1, CallMoves DEF Answer
  <2>3. CASE Ask(c)
    <3>1. PICK k \in Calls : call' = [call EXCEPT ![c] = [Idle EXCEPT !.pc = "asked", !.does = k]]
      BY <2>3 DEF Ask
    <3> DEFINE n == [Idle EXCEPT !.pc = "asked", !.does = k]
    <3>2. n \in Call /\ n.pc = "asked"
      BY <2>1 DEF Call, Idle
    <3> HIDE DEF n
    <3>3. call' = [call EXCEPT ![c] = n]
      BY <3>1 DEF n
    <3> QED
      BY <2>3, <3>2, <3>3, CallMoves DEF Ask, TypeOK
  <2>4. CASE Command(c)
    <3>1. /\ Effect(call[c].does, row) \in Rows \cup {NoRow}
          /\ Hits(call[c].does, row) \in BOOLEAN
      BY <2>1, Effects
    <3>2. claimed' \in BOOLEAN
      BY <2>4 DEF Command, Holds, TypeOK
    <3> QED
      BY <2>2, <2>4, <3>1, <3>2 DEF Command, TypeOK
  <2>5. CASE Read(c)
    <3>1. CASE row = NoRow
      BY <2>2, <2>5, <3>1 DEF Read, TypeOK
    <3>2. CASE row # NoRow
      <4> DEFINE n == [call[c] EXCEPT !.pc = "read", !.copy = row]
      <4>1. n \in Call /\ n.copy \in Rows
        BY <2>1, <3>2 DEF Call
      <4>2. call' = [call EXCEPT ![c] = n] /\ lock' = [lock EXCEPT ![ProcessOf[c]] = c]
        BY <2>5, <3>2 DEF Read
      <4> HIDE DEF n
      <4>3. /\ call' \in [Callers -> Call]
            /\ \A d \in Callers : call'[d].pc = "read" => call'[d].copy \in Rows
        BY <4>1, <4>2, CallMoves
      <4> QED
        BY <2>5, <4>2, <4>3 DEF Read, TypeOK
    <3> QED
      BY <3>1, <3>2
  <2>6. CASE Replace(c)
    <3>1. /\ call' \in [Callers -> Call]
          /\ \A d \in Callers : call'[d].pc = "read" => call'[d].copy \in Rows
      BY <2>2, <2>6 DEF Replace
    <3>2. claimed' \in BOOLEAN
      BY <2>6 DEF Replace, Holds, TypeOK
    <3>3. row' \in Rows \cup {NoRow}
      BY <2>1, <2>6, CallsAreTyped, MergeIsRow DEF Replace, TypeOK
    <3>4. lock' \in [Processes -> Callers \cup {Nobody}]
      BY <2>6 DEF Replace, Free, TypeOK
    <3> QED
      BY <3>1, <3>2, <3>3, <3>4 DEF TypeOK
  <2>7. CASE Refused(c)
    <3> DEFINE n == [call[c] EXCEPT !.pc = "asked", !.copy = NoRow]
    <3>1. n \in Call /\ n.pc = "asked"
      BY <2>1 DEF Call
    <3> QED
      BY <2>7, <3>1, CallMoves DEF Refused, Free, TypeOK
  <2>8. CASE LoseReply(c)
    <3> DEFINE n == [call[c] EXCEPT !.pc = "asked", !.answer = FALSE]
    <3>1. n \in Call /\ n.pc = "asked"
      BY <2>1 DEF Call
    <3> QED
      BY <2>8, <3>1, CallMoves DEF LoseReply, TypeOK
  <2>9. CASE GiveUp(c) \/ Return(c)
    BY <2>1, <2>9, CallMoves DEF GiveUp, Return, TypeOK
  <2> QED
    BY <1>1, <2>3, <2>4, <2>5, <2>6, <2>7, <2>8, <2>9 DEF Step
<1>2. ASSUME NEW p \in Processes, Stop(p) PROVE TypeOK'
  <2>1. Idle.pc = "idle"
    BY DEF Idle
  <2> QED
    BY <1>2, <2>1 DEF Stop, TypeOK
<1>3. CASE UNCHANGED vars
  BY <1>3 DEF vars, TypeOK
<1> QED
  BY <1>1, <1>2, <1>3 DEF Next

\* The row, the calls, the locks and the history variable keep their types,
\* whichever process a caller runs in.
THEOREM TypeCorrect == Spec => []TypeOK
<1> QED
  BY TypeInit, TypeStep, PTL DEF Spec

-----------------------------------------------------------------------------
(* The lock orders the calls of one process.                               *)

\* Only the holder of the lock is between its two commands.
LEMMA OneReader ==
  ASSUME Ordered, TypeOK, Fresh, NEW c \in Callers
  PROVE  /\ Unlocked(c) => \A d \in Callers : call[d].pc # "read"
         /\ call[c].pc = "read" => \A d \in Callers : call[d].pc = "read" => d = c
<1>1. CASE OneProcess
  <2>1. \A d \in Callers : ProcessOf[d] = ProcessOf[c] /\ d # Nobody
    BY <1>1, StoreAssumption DEF OneProcess
  <2> QED
    BY <2>1 DEF Fresh, Unlocked
<1>2. CASE OnlyCommands
  <2>1. \A d \in Callers : call[d].does \in Calls
    BY DEF TypeOK, Call
  <2> QED
    BY <1>2, <2>1 DEF Fresh, OnlyCommands
<1> QED
  BY <1>1, <1>2 DEF Ordered

LEMMA FreshInit == Init => Fresh
<1>1. Idle.pc = "idle"
  BY DEF Idle
<1> QED
  BY <1>1 DEF Init, Fresh

\* A copy stays up to date until it is written back.
LEMMA FreshStep ==
  ASSUME Ordered, TypeOK, Fresh, [Next]_vars
  PROVE  Fresh'
<1>1. ASSUME NEW c \in Callers, Step(c) PROVE Fresh'
  <2>1. /\ call \in [Callers -> Call] /\ ProcessOf[c] \in Processes
        /\ lock \in [Processes -> Callers \cup {Nobody}]
        /\ row \in Rows \cup {NoRow} /\ Idle.pc = "idle"
    BY StoreAssumption DEF TypeOK, Idle
  <2>2. ASSUME \A d \in Callers : call'[d].pc # "read" PROVE Fresh'
    BY <2>2 DEF Fresh
  <2>3. ASSUME UNCHANGED <<row, lock>>, call'[c].pc # "read",
               \A d \in Callers \ {c} : call'[d] = call[d]
        PROVE  Fresh'
    BY <2>3 DEF Fresh
  <2>4. CASE Ask(c) \/ LoseReply(c) \/ GiveUp(c) \/ Return(c)
    <3>0. ASSUME Ask(c)
          PROVE  call'[c].pc # "read" /\ \A d \in Callers \ {c} : call'[d] = call[d]
      <4>1. PICK k \in Calls : call' = [call EXCEPT ![c] = [Idle EXCEPT !.pc = "asked", !.does = k]]
        BY <3>0 DEF Ask
      <4> DEFINE n == [Idle EXCEPT !.pc = "asked", !.does = k]
      <4>2. n.pc = "asked"
        BY DEF Idle
      <4> HIDE DEF n
      <4>3. call' = [call EXCEPT ![c] = n]
        BY <4>1 DEF n
      <4> QED
        BY <2>1, <4>2, <4>3
    <3>1. call'[c].pc # "read" /\ \A d \in Callers \ {c} : call'[d] = call[d]
      BY <2>1, <2>4, <3>0 DEF LoseReply, GiveUp, Return, Call
    <3> QED
      BY <2>3, <2>4, <3>1 DEF Ask, LoseReply, GiveUp, Return
  <2>5. CASE Command(c)
    <3>1. call'[c].pc # "read" /\ \A d \in Callers \ {c} : call'[d] = call[d]
      BY <2>1, <2>5 DEF Command, Answer, Call
    <3> QED
      BY <2>2, <2>5, <3>1, OneReader DEF Command
  <2>6. CASE Read(c)
    <3>1. \A d \in Callers : call[d].pc # "read"
      BY <2>6, OneReader DEF Read
    <3>2. CASE row = NoRow
      <4>1. call'[c].pc # "read" /\ \A d \in Callers \ {c} : call'[d] = call[d]
        BY <2>1, <2>6, <3>2 DEF Read, Answer, Call
      <4> QED
        BY <2>2, <3>1, <4>1
    <3>3. CASE row # NoRow
      <4>0. call[c] \in Call
        BY <2>1
      <4> DEFINE n == [call[c] EXCEPT !.pc = "read", !.copy = row]
      <4>1. /\ call'[c].copy = row /\ lock'[ProcessOf[c]] = c /\ row' = row
            /\ call'[c].does.kind = "update"
            /\ \A d \in Callers \ {c} : call'[d] = call[d]
        <5>1. n.copy = row /\ n.does = call[c].does
          BY <4>0 DEF Call
        <5>2. call' = [call EXCEPT ![c] = n] /\ lock' = [lock EXCEPT ![ProcessOf[c]] = c]
          BY <2>6, <3>3 DEF Read
        <5> HIDE DEF n
        <5> QED
          BY <2>1, <2>6, <5>1, <5>2 DEF Read, Kind
      <4> QED
        BY <2>1, <3>1, <3>3, <4>1 DEF Fresh
    <3> QED
      BY <3>2, <3>3
  <2>7. CASE Replace(c) \/ Refused(c)
    <3>1. call[c].pc = "read"
      BY <2>7 DEF Replace, Refused
    <3>2. call'[c].pc # "read" /\ \A d \in Callers \ {c} : call'[d] = call[d]
      BY <2>1, <2>7 DEF Replace, Refused, Answer, Call
    <3> QED
      BY <2>2, <3>1, <3>2, OneReader
  <2> QED
    BY <1>1, <2>4, <2>5, <2>6, <2>7 DEF Step
<1>2. ASSUME NEW p \in Processes, Stop(p) PROVE Fresh'
  <2>1. ASSUME NEW c \in Callers, call[c].pc = "read" PROVE ProcessOf[c] = p
    <3>1. OneProcess
      <4>1. call[c].does \in Calls
        BY DEF TypeOK, Call
      <4> QED
        BY <2>1, <4>1 DEF Fresh, Ordered, OnlyCommands
    <3> QED
      BY <3>1, StoreAssumption DEF OneProcess
  <2>2. Idle.pc = "idle"
    BY DEF Idle
  <2>3. \A c \in Callers : call'[c].pc # "read"
    BY <1>2, <2>1, <2>2 DEF Stop
  <2> QED
    BY <2>3 DEF Fresh
<1>3. CASE UNCHANGED vars
  BY <1>3 DEF vars, Fresh
<1> QED
  BY <1>1, <1>2, <1>3 DEF Next

\* A claim stands until somebody writes the state.
LEMMA ClaimStep ==
  ASSUME TypeOK, Fresh, ClaimHolds, [Next]_vars
  PROVE  ClaimHolds'
<1>1. ASSUME NEW c \in Callers, Command(c) PROVE ClaimHolds'
  <2> DEFINE k == call[c].does
  <2>1. /\ k \in Calls /\ row \in Rows \cup {NoRow} /\ State \in Fields
        /\ row' = Effect(k, row)
        /\ claimed' = IF Hits(k, row) THEN Holds(k, claimed) ELSE claimed
    BY <1>1, CallAssumption DEF Command, TypeOK, Call
  <2> HIDE DEF k
  <2>2. CASE ~Hits(k, row)
    BY <2>1, <2>2 DEF Effect, ClaimHolds
  <2>3. CASE Hits(k, row) /\ claimed'
    <3>1. /\ row \in Rows /\ k.kind \notin {"insert", "delete"}
          /\ row' = Merge(row, Written(k))
      BY <2>1, <2>3 DEF Holds, Hits, Effect
    <3>2. row' \in Rows
      BY <2>1, <3>1, CallsAreTyped, MergeIsRow
    <3>3. CASE k.kind = "claim"
      BY <2>1, <3>1, <3>2, <3>3, CallAssumption DEF Merge, Written, ClaimHolds
    <3>4. CASE k.kind # "claim"
      <4>1. claimed /\ State \notin DOMAIN k.set
        BY <2>1, <2>3, <3>4 DEF Holds
      <4> QED
        BY <2>1, <3>1, <3>2, <3>4, <4>1, CallAssumption DEF Merge, Written, ClaimHolds
    <3> QED
      BY <3>3, <3>4
  <2> QED
    BY <2>2, <2>3 DEF ClaimHolds
<1>2. ASSUME NEW c \in Callers, Replace(c) PROVE ClaimHolds'
  <2>1. /\ call[c].does \in Calls /\ State \in Fields /\ call[c].does.set \in Updates
        /\ row \in Rows /\ call[c].copy = row /\ row # NoRow
    BY <1>2, CallAssumption, CallsAreTyped DEF Replace, TypeOK, Call, Fresh
  <2>2. row' = Merge(row, call[c].does.set) /\ claimed' = Holds(call[c].does, claimed)
    BY <1>2, <2>1 DEF Replace
  <2>3. row' \in Rows
    BY <2>1, <2>2, MergeIsRow
  <2>4. call[c].does.kind = "update"
    BY <1>2 DEF Fresh, Replace
  <2> QED
    BY <2>1, <2>2, <2>3, <2>4, CallAssumption DEF Merge, Holds, ClaimHolds
<1>3. ASSUME NEW c \in Callers,
             Ask(c) \/ Read(c) \/ Refused(c) \/ LoseReply(c) \/ GiveUp(c) \/ Return(c)
      PROVE  ClaimHolds'
  BY <1>3 DEF Ask, Read, Refused, LoseReply, GiveUp, Return, ClaimHolds
<1>4. ASSUME NEW p \in Processes, Stop(p) PROVE ClaimHolds'
  BY <1>4 DEF Stop, ClaimHolds
<1>5. CASE UNCHANGED vars
  BY <1>5 DEF vars, ClaimHolds
<1> QED
  BY <1>1, <1>2, <1>3, <1>4, <1>5 DEF Next, Step

-----------------------------------------------------------------------------
(* The theorems.                                                           *)

\* What the theorems below rest on, kept by every step.
LEMMA InvHolds ==
  ASSUME Ordered
  PROVE  Spec => []Inv
<1>1. Init => Inv
  BY TypeInit, FreshInit DEF Inv, Init, ClaimHolds
<1>2. Inv /\ [Next]_vars => Inv'
  <2> SUFFICES ASSUME Inv, [Next]_vars PROVE Inv'
    OBVIOUS
  <2> QED
    BY TypeStep, FreshStep, ClaimStep DEF Inv
<1> QED
  BY <1>1, <1>2, PTL DEF Spec

\* While all callers run in one process, or none of them calls update, a claimed
\* row stays posting until somebody writes its state, whatever commands fail and are
\* repeated: claim_scheduled_job_for_posting lets one caller win.
THEOREM ClaimsHold ==
  ASSUME Ordered
  PROVE  Spec => []ClaimHolds
<1>1. Inv => ClaimHolds
  BY DEF Inv
<1> QED
  BY <1>1, InvHolds, PTL

\* While all callers run in one process, or none of them calls update, no call
\* undoes what another one wrote to a field that it does not name.
THEOREM FieldsAreKept ==
  ASSUME Ordered
  PROVE  Spec => OnlyNamedFieldsChange
<1> DEFINE Kept == row # NoRow /\ row' # NoRow =>
       \A f \in Fields : row'[f] # row[f] =>
         \E c \in Callers : /\ call[c].pc # "idle" /\ call'[c].pc = "done"
                            /\ call'[c] # call[c] /\ f \in DOMAIN Written(call[c].does)
<1>1. Inv /\ [Next]_vars => [Kept]_vars
  <2> SUFFICES ASSUME Inv, [Next]_vars, row # NoRow, row' # NoRow, NEW f \in Fields, row'[f] # row[f]
               PROVE  \E c \in Callers :
                        /\ call[c].pc # "idle" /\ call'[c].pc = "done"
                        /\ call'[c] # call[c] /\ f \in DOMAIN Written(call[c].does)
    OBVIOUS
  <2>1. PICK c \in Callers : Command(c) \/ Replace(c)
    BY DEF Next, Step, Ask, Read, Refused, LoseReply, GiveUp, Return, Stop, vars
  <2>2. /\ call \in [Callers -> Call] /\ call[c] \in Call /\ call[c].does \in Calls
        /\ row \in Rows
    BY DEF Inv, TypeOK, Call
  <2>3. /\ call[c].pc \notin {"idle", "done"} /\ call'[c].pc = "done"
        /\ \E u \in Updates : u = Written(call[c].does) /\ row' = Merge(row, u)
    <3>1. CASE Command(c)
      <4>1. call'[c].pc = "done" /\ call[c].pc = "asked"
        BY <2>2, <3>1 DEF Command, Answer, Call
      <4>2. row' = Merge(row, Written(call[c].does))
        BY <3>1 DEF Command, Effect, Hits
      <4> QED
        BY <2>2, <4>1, <4>2, CallsAreTyped
    <3>2. CASE Replace(c)
      <4>1. call'[c].pc = "done" /\ call[c].pc = "read"
        BY <2>2, <3>2 DEF Replace, Answer, Call
      <4>2. call[c].copy = row /\ call[c].does.kind = "update"
        BY <4>1 DEF Inv, Fresh
      <4>3. row' = Merge(row, Written(call[c].does))
        BY <3>2, <4>2 DEF Replace, Written
      <4> QED
        BY <2>2, <4>1, <4>3, CallsAreTyped
    <3> QED
      BY <2>1, <3>1, <3>2
  <2>4. f \in DOMAIN Written(call[c].does)
    BY <2>3 DEF Merge
  <2> QED
    BY <2>3, <2>4
<1> QED
  BY <1>1, InvHolds, PTL DEF Spec, OnlyNamedFieldsChange

-----------------------------------------------------------------------------
(* Every call takes effect in one step.                                    *)

\* The calls as AtomicRow sees them.
Shown == [c \in Callers |-> Seen(call[c])]

LEMMA SameCalls ==
  /\ Atomic!Quiet = Quiet /\ Seen(Idle) = Quiet
  /\ \A k : Atomic!Asked(k) = Asked(k)
  /\ \A k, a : Atomic!Done(k, a) = Done(k, a)
  /\ \A k, r : Atomic!Effect(k, r) = Effect(k, r) /\ Atomic!Hits(k, r) = Hits(k, r)
<1>1. Atomic!Quiet = Quiet
  BY DEF Atomic!Quiet, Quiet, Atomic!SomeCall, SomeCall
<1>2. Seen(Idle) = Quiet
  BY DEF Seen, Idle, Quiet
<1>3. ASSUME NEW k, NEW r
      PROVE  Atomic!Effect(k, r) = Effect(k, r) /\ Atomic!Hits(k, r) = Hits(k, r)
  <2>1. Atomic!Hits(k, r) = Hits(k, r)
    BY DEF Atomic!Hits, Hits
  <2>2. Atomic!Merge(r, Atomic!Written(k)) = Merge(r, Written(k))
    BY DEF Atomic!Merge, Merge, Atomic!Written, Written
  <2> QED
    BY <2>1, <2>2 DEF Atomic!Effect, Effect
<1>4. \A k, a : Atomic!Asked(k) = Asked(k) /\ Atomic!Done(k, a) = Done(k, a)
  BY DEF Atomic!Asked, Asked, Atomic!Done, Done
<1> QED
  BY <1>1, <1>2, <1>3, <1>4

\* One call of the store moves: so does the same call of AtomicRow.
LEMMA SeenMoves ==
  ASSUME NEW c \in Callers, NEW k, call \in [Callers -> Call],
         call' = [call EXCEPT ![c] = k]
  PROVE  /\ Shown' = [Shown EXCEPT ![c] = Seen(k)]
         /\ Shown[c] = Seen(call[c])
  BY DEF Shown

\* Every step of the store is a step of AtomicRow, or none that its callers see.
LEMMA StepIsAtomic ==
  ASSUME Ordered, Inv, [Next]_vars
  PROVE  [Atomic!Next]_<<row, Shown>>
<1>0. Shown = [c \in Callers |-> Seen(call[c])] /\ call \in [Callers -> Call]
  BY DEF Shown, Inv, TypeOK
<1>1. ASSUME NEW c \in Callers, Step(c)
      PROVE  \/ UNCHANGED <<row, Shown>>
             \/ Atomic!Ask(c) \/ Atomic!TakeEffect(c) \/ Atomic!Retry(c) \/ Atomic!Return(c)
             \/ \E C \in SUBSET Callers : Atomic!Fail(C)
  <2> DEFINE k == call[c].does
  <2>1. /\ call[c] \in Call /\ k \in Calls /\ row \in Rows \cup {NoRow}
        /\ Shown[c] = Seen(call[c])
    BY <1>0 DEF Inv, TypeOK, Call
  <2>2. ASSUME NEW a \in BOOLEAN, Answer(c, a), call[c].pc \in {"asked", "read"},
               a = Hits(k, row), row' = Effect(k, row)
        PROVE  Atomic!TakeEffect(c)
    <3> DEFINE n == [call[c] EXCEPT !.pc = "done", !.answer = a, !.copy = NoRow]
    <3>1. n.pc = "done" /\ n.does = k /\ n.answer = a
      BY <2>1 DEF Call
    <3>2. call' = [call EXCEPT ![c] = n]
      BY <2>2 DEF Answer
    <3> HIDE DEF n
    <3>3. Seen(n) = Done(k, a)
      BY <3>1 DEF Seen, Done
    <3>4. Shown' = [Shown EXCEPT ![c] = Seen(n)]
      BY <1>0, <3>2, SeenMoves
    <3>5. Shown[c].pc = "asked" /\ Shown[c].does = k
      BY <2>1, <2>2 DEF Seen
    <3> QED
      BY <2>2, <3>3, <3>4, <3>5, SameCalls DEF Atomic!TakeEffect, Shown
  <2>3. CASE Ask(c)
    <3>1. PICK j \in Calls : call' = [call EXCEPT ![c] = [Idle EXCEPT !.pc = "asked", !.does = j]]
      BY <2>3 DEF Ask
    <3> DEFINE n == [Idle EXCEPT !.pc = "asked", !.does = j]
    <3>2. Seen(n) = Asked(j)
      <4>1. n.pc = "asked" /\ n.does = j /\ n.answer = FALSE
        BY DEF Idle
      <4> HIDE DEF n
      <4> QED
        BY <4>1 DEF Seen, Asked
    <3>3. Shown' = [Shown EXCEPT ![c] = Seen(n)]
      BY <1>0, <3>1, SeenMoves
    <3>4. Shown[c].pc = "idle"
      BY <2>1, <2>3 DEF Ask, Seen
    <3> QED
      BY <2>3, <3>2, <3>3, <3>4, SameCalls DEF Ask, Atomic!Ask, Shown
  <2>4. CASE Command(c)
    <3>1. Hits(k, row) \in BOOLEAN
      BY <2>1, Effects
    <3> QED
      BY <2>2, <2>4, <3>1 DEF Command
  <2>5. CASE Read(c)
    <3>1. CASE row = NoRow
      <4>1. Hits(k, row) = FALSE /\ Effect(k, row) = row /\ Answer(c, FALSE)
        BY <2>5, <3>1 DEF Read, Kind, Hits, Effect
      <4> QED
        BY <2>2, <2>5, <4>1 DEF Read
    <3>2. CASE row # NoRow
      <4> DEFINE n == [call[c] EXCEPT !.pc = "read", !.copy = row]
      <4>1. call' = [call EXCEPT ![c] = n]
        BY <2>5, <3>2 DEF Read
      <4>2. Seen(n) = Seen(call[c])
        BY <2>1, <2>5 DEF Seen, Call, Read
      <4> HIDE DEF n
      <4>3. Shown' = [Shown EXCEPT ![c] = Shown[c]]
        BY <1>0, <2>1, <4>1, <4>2, SeenMoves
      <4> QED
        BY <1>0, <2>5, <4>3 DEF Read
    <3> QED
      BY <3>1, <3>2
  <2>6. CASE Replace(c)
    <3>1. call[c].pc = "read"
      BY <2>6 DEF Replace
    <3>2. call[c].copy = row /\ row \in Rows /\ row # NoRow /\ k.kind = "update"
      BY <3>1, CallAssumption DEF Inv, Fresh
    <3>3. Hits(k, row) = TRUE /\ Effect(k, row) = Merge(row, k.set)
      BY <3>2 DEF Hits, Effect, Written
    <3>4. Answer(c, TRUE) /\ row' = Merge(row, k.set)
      BY <2>6, <3>2 DEF Replace
    <3> QED
      BY <2>2, <3>1, <3>3, <3>4
  <2>7. CASE Refused(c)
    <3> DEFINE n == [call[c] EXCEPT !.pc = "asked", !.copy = NoRow]
    <3>1. call' = [call EXCEPT ![c] = n]
      BY <2>7 DEF Refused
    <3>2. Seen(n) = Seen(call[c])
      BY <2>1, <2>7 DEF Seen, Call, Refused
    <3> HIDE DEF n
    <3>3. Shown' = [Shown EXCEPT ![c] = Shown[c]]
      BY <1>0, <2>1, <3>1, <3>2, SeenMoves
    <3> QED
      BY <1>0, <2>7, <3>3 DEF Refused
  <2>8. CASE LoseReply(c)
    <3> DEFINE n == [call[c] EXCEPT !.pc = "asked", !.answer = FALSE]
    <3>1. call' = [call EXCEPT ![c] = n] /\ call[c].pc = "done" /\ row' = row
      BY <2>8 DEF LoseReply
    <3>2. Seen(n) = Asked(k)
      <4>1. n.pc = "asked" /\ n.does = k /\ n.answer = FALSE
        BY <2>1 DEF Call
      <4> HIDE DEF n
      <4> QED
        BY <4>1 DEF Seen, Asked
    <3> HIDE DEF n
    <3>3. Shown' = [Shown EXCEPT ![c] = Seen(n)] /\ Shown[c].pc = "done"
      BY <1>0, <2>1, <3>1, SeenMoves DEF Seen
    <3> QED
      BY <2>1, <3>1, <3>2, <3>3, SameCalls DEF Atomic!Retry, Shown, Seen
  <2>9. CASE GiveUp(c)
    <3>1. call' = [call EXCEPT ![c] = Idle] /\ row' = row
      BY <2>9 DEF GiveUp
    <3>2. Shown' = [Shown EXCEPT ![c] = Quiet]
      BY <1>0, <3>1, SeenMoves, SameCalls
    <3>3. Shown' = [d \in Callers |-> IF d \in {c} THEN Quiet ELSE Shown[d]]
      BY <1>0, <3>2
    <3> QED
      BY <3>1, <3>3, SameCalls DEF Atomic!Fail, Shown
  <2>10. CASE Return(c)
    <3>1. call' = [call EXCEPT ![c] = Idle] /\ row' = row /\ call[c].pc = "done"
      BY <2>10 DEF Return
    <3>2. Shown' = [Shown EXCEPT ![c] = Quiet] /\ Shown[c].pc = "done"
      BY <1>0, <2>1, <3>1, SeenMoves, SameCalls DEF Seen
    <3> QED
      BY <3>1, <3>2, SameCalls DEF Atomic!Return, Shown
  <2> QED
    BY <1>1, <2>3, <2>4, <2>5, <2>6, <2>7, <2>8, <2>9, <2>10 DEF Step
<1>2. ASSUME NEW p \in Processes, Stop(p)
      PROVE  \E C \in SUBSET Callers : Atomic!Fail(C)
  <2> DEFINE C == {c \in Callers : ProcessOf[c] = p}
  <2>1. /\ row' = row
        /\ call' = [c \in Callers |-> IF c \in C THEN Idle ELSE call[c]]
    BY <1>2 DEF Stop
  <2>2. Shown' = [c \in Callers |-> IF c \in C THEN Quiet ELSE Shown[c]]
    BY <1>0, <2>1, SameCalls DEF Shown
  <2> QED
    BY <2>1, <2>2, SameCalls DEF Atomic!Fail, Shown
<1>3. CASE UNCHANGED vars
  BY <1>3 DEF vars, Shown
<1> QED
  BY <1>1, <1>2, <1>3 DEF Next, Atomic!Next

\* While all callers run in one process, or none of them calls update, storage.py
\* does what its callers rely on: each call takes effect in one step, on the row as
\* it then is.
THEOREM StoreIsAtomic ==
  ASSUME Ordered
  PROVE  Spec => TakesEffectAtOnce
<1>1. Init => Atomic!Init
  BY SameCalls DEF Init, Atomic!Init
<1>2. Inv /\ [Next]_vars => [Atomic!Next]_<<row, Shown>>
  BY StepIsAtomic
<1> QED
  BY <1>1, <1>2, InvHolds, PTL DEF Spec, TakesEffectAtOnce, Atomic!Spec, Shown

=============================================================================
