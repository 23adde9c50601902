----------------------------- MODULE MCUsageQuota -----------------------------
(* Two runs with the slot and a preparation, a publish request and a payment *)
(* of an account in one process; months of two days.                         *)
EXTENDS UsageQuota, TLC

MCProcessOf  == [a \in Actors |-> CHOOSE p \in Processes : TRUE]
MCDayLimit   == [p \in Plans |-> IF p = "pro" THEN 2 ELSE 1]
MCMonthLimit == [p \in Plans |-> IF p = "pro" THEN 3 ELSE 2]
MCTokenLimit == [p \in Plans |-> 1]
MCSymmetry   == Permutations(Serial)

=============================================================================
