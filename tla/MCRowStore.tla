------------------------------ MODULE MCRowStore ------------------------------
(***************************************************************************)
(* Instances of RowStore for TLC: the calls that the scheduler, the worker *)
(* and the routes make about a row, with its state and its post id.        *)
(***************************************************************************)
EXTENDS RowStore, TLC

CONSTANTS scheduled, ready, posted, none, id, state, wp, p1

Make(kind, set, states) == [kind |-> kind, set |-> set, states |-> states]

MCFields == {state, wp}
MCValues == {scheduled, ready, Posting, posted, none, id}

\* reschedule, mark a preparation ready, keep the post id, mark the row posted,
\* patch the state, claim, schedule for the first time, clear.
MCCalls ==
  { Make("update", state :> scheduled @@ wp :> none, {}),
    Make("update", state :> ready, {}),
    Make("update", wp :> id, {}),
    Make("patch",  state :> posted @@ wp :> id, {}),
    Make("claim",  <<>>, {scheduled, ready}),
    Make("insert", state :> scheduled @@ wp :> none, {}),
    Make("delete", <<>>, {posted}) }

InOneProcess == [c \in Callers |-> p1]

Callers3 == Permutations(Callers)

=============================================================================
