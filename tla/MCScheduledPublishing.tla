------------------------ MODULE MCScheduledPublishing ------------------------
(***************************************************************************)
(* Instances of ScheduledPublishing for TLC.                               *)
(***************************************************************************)
EXTENDS ScheduledPublishing

\* Users schedule, edit, retry, cancel and look at the board.
Editing == {"schedule", "reschedule", "edit", "retry", "cancel", "clear", "board"}

=============================================================================
