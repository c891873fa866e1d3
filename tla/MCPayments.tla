----------------------------- MODULE MCPayments -----------------------------
(***************************************************************************)
(* Payments for TLC: one order of 2, paid in two instalments of 1, by      *)
(* M-Pesa and in cash.                                                     *)
(***************************************************************************)
EXTENDS Payments

CONSTANTS i1, i2, o1, r1, r2

MCOrderOf == [i \in Intents |-> o1]
MCAmount == [i \in Intents |-> 1]
MCTotal == [o \in Orders |-> 2]
=============================================================================
