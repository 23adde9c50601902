---------------------------- MODULE MCBulkSchedule ----------------------------
(* An instance of BulkSchedule: from November 2026, whose first day is a   *)
(* Sunday.                                                                 *)
EXTENDS BulkSchedule

FromNovember == <<30, 31, 31, 28, 31, 30, 31, 31, 30, 31, 30, 31>>

\* Wednesday the 4th, at nine.
Wednesday == {24 * 4 + 9}

=============================================================================
