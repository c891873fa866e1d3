---------------------------- MODULE MCPointOfSale ----------------------------
(***************************************************************************)
(* PointOfSale for TLC: a cashier and a super admin, a checkout under a    *)
(* key, a tender part cash and part not, and one refund request.           *)
(***************************************************************************)
EXTENDS PointOfSale, TLC

CONSTANTS q1, q2, c1, m1, k1, r1

MCTenders == {[total |-> 2, cash |-> 1]}
MCBodyOf == [k \in Keys |-> [who |-> m1, tender |-> [total |-> 2, cash |-> 1]]]
MCSymmetry == Permutations({q1, q2})
=============================================================================
