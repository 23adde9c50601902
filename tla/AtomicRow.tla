------------------------------ MODULE AtomicRow ------------------------------
(***************************************************************************)
(* What the handlers and loops rely on when they call the store about a    *)
(* scheduled_jobs row: every call takes effect in one step, on the row as  *)
(* it is at that moment, and changes only what it names.  A call may take  *)
(* effect more than once while it is under way, because transient errors   *)
(* are retried; its answer is that of the last time.                       *)
(***************************************************************************)

EXTENDS RowCalls

VARIABLES
  row,       \* the stored document
  call       \* [Callers -> the call under way]

Init ==
  /\ row = NoRow
  /\ call = [c \in Callers |-> Quiet]

Ask(c) ==
  /\ call[c].pc = "idle"
  /\ \E k \in Calls : call' = [call EXCEPT ![c] = Asked(k)]
  /\ UNCHANGED row

TakeEffect(c) ==
  /\ call[c].pc = "asked"
  /\ row' = Effect(call[c].does, row)
  /\ call' = [call EXCEPT ![c] = Done(call[c].does, Hits(call[c].does, row))]

\* A transient error: whoever called does not know that the call took effect.
Retry(c) ==
  /\ call[c].pc = "done"
  /\ call' = [call EXCEPT ![c] = Asked(call[c].does)]
  /\ UNCHANGED row

Return(c) ==
  /\ call[c].pc = "done"
  /\ call' = [call EXCEPT ![c] = Quiet]
  /\ UNCHANGED row

\* The caller hears of an error, or of nothing any more: the call may or may
\* not have taken effect.
Fail(C) ==
  /\ call' = [c \in Callers |-> IF c \in C THEN Quiet ELSE call[c]]
  /\ UNCHANGED row

Next ==
  \/ \E c \in Callers : Ask(c) \/ TakeEffect(c) \/ Retry(c) \/ Return(c)
  \/ \E C \in SUBSET Callers : Fail(C)

Spec == Init /\ [][Next]_<<row, call>>

=============================================================================
