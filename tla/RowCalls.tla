------------------------------- MODULE RowCalls -------------------------------
(***************************************************************************)
(* The calls of the store about one scheduled_jobs row, and what each does *)
(* to the row.  (Calls about articles have the same two forms, update and  *)
(* patch.)  Documents are stored one by one, so that one row is enough.    *)
(***************************************************************************)

CONSTANTS
  Callers,
  Fields, Values,
  State,      \* the field that says where the row stands
  Posting,    \* its value while somebody publishes
  NoRow,
  Calls       \* the calls that the program makes

Rows    == [Fields -> Values]
Updates == UNION {[S -> Values] : S \in SUBSET Fields}
Kinds   == {"update", "patch", "claim", "insert", "delete"}

\* set: the fields written, all of them by an insert.  states: those a claim
\* requires and those a delete leaves alone.
CallType == [kind : Kinds, set : Updates, states : SUBSET Values]

\* The lists of states that callers claim from never name posting itself.
ASSUME CallAssumption ==
  /\ State \in Fields /\ Posting \in Values
  /\ NoRow \notin Rows
  /\ Calls \subseteq CallType /\ Calls # {}
  /\ \A k \in Calls : /\ k.kind = "insert" => k.set \in Rows
                      /\ k.kind = "claim" => Posting \notin k.states

Merge(r, u) == [f \in Fields |-> IF f \in DOMAIN u THEN u[f] ELSE r[f]]

\* Whether the filter of a call matches, which is also its answer (an insert
\* of an id that is taken raises an error).
Hits(k, r) ==
  IF k.kind = "insert" THEN r = NoRow
  ELSE /\ r # NoRow
       /\ k.kind = "claim"  => r[State] \in k.states
       /\ k.kind = "delete" => r[State] \notin k.states

\* A claim writes the state; an insert writes every field.
Written(k) == IF k.kind = "claim" THEN [f \in {State} |-> Posting] ELSE k.set

Effect(k, r) == IF ~Hits(k, r) THEN r
                ELSE IF k.kind = "delete" THEN NoRow ELSE Merge(r, Written(k))

SomeCall == CHOOSE k \in Calls : TRUE

\* A caller at rest, with a call under way, and with its answer.
Quiet      == [pc |-> "idle", does |-> SomeCall, answer |-> FALSE]
Asked(k)   == [pc |-> "asked", does |-> k, answer |-> FALSE]
Done(k, a) == [pc |-> "done", does |-> k, answer |-> a]

=============================================================================
