------------------------------- MODULE RowStore -------------------------------
(***************************************************************************)
(* The calls as storage.py makes them.  update_scheduled_job_fields reads  *)
(* the row, merges and replaces it, and holds _db_write_lock in between;   *)
(* the other calls are one command to MongoDB each, sent under the lock.   *)
(* The lock is one of the process.  call_storage comes again when an error *)
(* looks transient, and an error does not tell whether the command was     *)
(* carried out; that it is carried out later still is left out.            *)
(***************************************************************************)
EXTENDS RowCalls

CONSTANTS
  Processes,
  ProcessOf,   \* [Callers -> Processes]
  Nobody,
  Faults       \* what may go wrong

FaultKinds == {"refused", "reply", "stop"}

ASSUME StoreAssumption ==
  /\ ProcessOf \in [Callers -> Processes]
  /\ Nobody \notin Callers
  /\ Faults \subseteq FaultKinds

VARIABLES
  row,
  call,     \* [Callers -> Call]
  lock,     \* [Processes -> the caller that holds _db_write_lock, or Nobody]
  claimed   \* history: a claim succeeded and nobody wrote the state since

vars == <<row, call, lock, claimed>>

Call == [pc : {"idle", "asked", "read", "done"}, does : Calls, answer : BOOLEAN,
         copy : Rows \cup {NoRow}]
Idle == [pc |-> "idle", does |-> SomeCall, answer |-> FALSE, copy |-> NoRow]

TypeOK ==
  /\ row \in Rows \cup {NoRow}
  /\ call \in [Callers -> Call]
  /\ \A c \in Callers : call[c].pc = "read" => call[c].copy \in Rows
  /\ lock \in [Processes -> Callers \cup {Nobody}]
  /\ claimed \in BOOLEAN

Init ==
  /\ row = NoRow
  /\ call = [c \in Callers |-> Idle]
  /\ lock = [p \in Processes |-> Nobody]
  /\ claimed = FALSE

Kind(c)   == call[c].does.kind
Unlocked(c) == lock[ProcessOf[c]] = Nobody
Free(c)   == lock' = [lock EXCEPT ![ProcessOf[c]] = Nobody]

\* Whether a call that finds its row settles who has it: a claim takes it, and
\* whoever writes the state or removes the row gives it up.
Holds(k, held) ==
  \/ k.kind = "claim"
  \/ held /\ k.kind \in {"update", "patch"} /\ State \notin DOMAIN k.set

Answer(c, a) == call' = [call EXCEPT ![c] = [call[c] EXCEPT !.pc = "done", !.answer = a,
                                                            !.copy = NoRow]]

Ask(c) ==
  /\ call[c].pc = "idle"
  /\ \E k \in Calls : call' = [call EXCEPT ![c] = [Idle EXCEPT !.pc = "asked", !.does = k]]
  /\ UNCHANGED <<row, lock, claimed>>

\* Mutant of Command: one command needs no lock.
CommandUnlocked(c) ==
  /\ call[c].pc = "asked" /\ Kind(c) # "update"
  /\ LET k == call[c].does IN
       /\ row' = Effect(k, row)
       /\ Answer(c, Hits(k, row))
       /\ claimed' = IF Hits(k, row) THEN Holds(k, claimed) ELSE claimed
  /\ UNCHANGED lock

\* patch, claim, insert and delete: one command.
Command(c) ==
  /\ call[c].pc = "asked" /\ Kind(c) # "update" /\ Unlocked(c)
  /\ LET k == call[c].does IN
       /\ row' = Effect(k, row)
       /\ Answer(c, Hits(k, row))
       /\ claimed' = IF Hits(k, row) THEN Holds(k, claimed) ELSE claimed
  /\ UNCHANGED lock

\* Mutant of Read: the lock is taken for the replacement only.
ReadUnlocked(c) ==
  /\ call[c].pc = "asked" /\ Kind(c) = "update" /\ Unlocked(c)
  /\ row # NoRow
  /\ call' = [call EXCEPT ![c] = [call[c] EXCEPT !.pc = "read", !.copy = row]]
  /\ UNCHANGED <<row, lock, claimed>>

\* update: find_one.
Read(c) ==
  /\ call[c].pc = "asked" /\ Kind(c) = "update" /\ Unlocked(c)
  /\ \/ /\ row # NoRow
        /\ call' = [call EXCEPT ![c] = [call[c] EXCEPT !.pc = "read", !.copy = row]]
        /\ lock' = [lock EXCEPT ![ProcessOf[c]] = c]
     \/ row = NoRow /\ Answer(c, FALSE) /\ UNCHANGED lock
  /\ UNCHANGED <<row, claimed>>

\* Mutant of Replace: the row is replaced by the fields of the update.
ReplaceUnmerged(c) ==
  /\ call[c].pc = "read"
  /\ row' = call[c].does.set
  /\ claimed' = Holds(call[c].does, claimed)
  /\ Answer(c, TRUE)
  /\ Free(c)

\* update: replace_one, which matches nothing if the row is gone.
Replace(c) ==
  /\ call[c].pc = "read"
  /\ \/ /\ row # NoRow
        /\ row' = Merge(call[c].copy, call[c].does.set)
        /\ claimed' = Holds(call[c].does, claimed)
        /\ Answer(c, TRUE)
     \/ row = NoRow /\ Answer(c, FALSE) /\ UNCHANGED <<row, claimed>>
  /\ Free(c)

\* Mutant of Refused: the next attempt only replaces again.
RefusedResumes(c) ==
  /\ "refused" \in Faults
  /\ call[c].pc = "read"
  /\ call' = call
  /\ Free(c)
  /\ UNCHANGED <<row, claimed>>

\* A command fails before it is carried out: the attempt ends and the lock is free.
Refused(c) ==
  /\ "refused" \in Faults
  /\ call[c].pc = "read"
  /\ call' = [call EXCEPT ![c] = [call[c] EXCEPT !.pc = "asked", !.copy = NoRow]]
  /\ Free(c)
  /\ UNCHANGED <<row, claimed>>

\* The command was carried out and the connection broke: run_with_retry comes again.
LoseReply(c) ==
  /\ "reply" \in Faults
  /\ call[c].pc = "done"
  /\ call' = [call EXCEPT ![c] = [call[c] EXCEPT !.pc = "asked", !.answer = FALSE]]
  /\ UNCHANGED <<row, lock, claimed>>

\* The last attempt, or the only one of a caller that does not retry, failed.
GiveUp(c) ==
  /\ call[c].pc = "asked" /\ Faults # {}
  /\ call' = [call EXCEPT ![c] = Idle]
  /\ UNCHANGED <<row, lock, claimed>>

Return(c) ==
  /\ call[c].pc = "done"
  /\ call' = [call EXCEPT ![c] = Idle]
  /\ UNCHANGED <<row, lock, claimed>>

\* A process ends with its calls and its lock.
Stop(p) ==
  /\ "stop" \in Faults
  /\ call' = [c \in Callers |-> IF ProcessOf[c] = p THEN Idle ELSE call[c]]
  /\ lock' = [lock EXCEPT ![p] = Nobody]
  /\ UNCHANGED <<row, claimed>>

Step(c) ==
  \/ Ask(c) \/ Command(c) \/ Read(c) \/ Replace(c)
  \/ Refused(c) \/ LoseReply(c) \/ GiveUp(c) \/ Return(c)

Next == (\E c \in Callers : Step(c)) \/ \E p \in Processes : Stop(p)

Spec == Init /\ [][Next]_vars

-----------------------------------------------------------------------------
(* Properties.                                                             *)

\* A row that somebody claimed stays posting until a call that writes the state,
\* or removes the row, takes effect: no second claim of it can succeed.
ClaimHolds == claimed => row # NoRow /\ row[State] = Posting

\* A field changes only when a call that names it takes effect: nothing that one
\* call wrote is undone by another that was about something else.
OnlyNamedFieldsChange ==
  [][row # NoRow /\ row' # NoRow =>
       \A f \in Fields : row'[f] # row[f] =>
         \E c \in Callers : /\ call[c].pc # "idle" /\ call'[c].pc = "done"
                            /\ call'[c] # call[c] /\ f \in DOMAIN Written(call[c].does)]_vars

\* A call as its caller sees it: one that has read the row has done nothing yet.
Seen(k) == [pc |-> IF k.pc = "read" THEN "asked" ELSE k.pc,
            does |-> k.does, answer |-> k.answer]

\* The store does what its callers rely on: every call takes effect in one step.
Atomic == INSTANCE AtomicRow WITH call <- [c \in Callers |-> Seen(call[c])]

TakesEffectAtOnce == Atomic!Spec

=============================================================================
