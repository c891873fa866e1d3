---------------------------- MODULE MCProcurement ----------------------------
(***************************************************************************)
(* Procurement for TLC: a requisition, two orders of two lines, an invoice *)
(* paid in two instalments and a return.                                   *)
(***************************************************************************)
EXTENDS Procurement, TLC

CONSTANTS q1, q2, o1, o2, l1, l2

MCOrdered == [l \in Lines |-> 1]
MCDeliveries == {[l \in Lines |-> IF l \in S THEN 1 ELSE 0] : S \in SUBSET Lines \ {{}}}
MCSymmetry == Permutations({q1, q2}) \cup Permutations({o1, o2}) \cup Permutations({l1, l2})
=============================================================================
