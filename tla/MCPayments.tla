------------------------------ MODULE MCPayments ------------------------------
(***************************************************************************)
(* Instances of Payments for TLC.                                          *)
(***************************************************************************)
EXTENDS Payments

\* All orders are of one buyer.
OneBuyer == [o \in Orders |-> CHOOSE u \in Users : TRUE]

=============================================================================
