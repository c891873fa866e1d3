----------------------------- MODULE MCLastMile -----------------------------
(***************************************************************************)
(* LastMile for TLC: at the hub is either a shipment with cash to collect  *)
(* and one task, or a shipment with none and two tasks; the other is on    *)
(* the road.  The second failed attempt of a task is its last.             *)
(***************************************************************************)
EXTENDS LastMile, TLC

CONSTANTS q1, q2, s1, s2, t1, t2, t3

MCShipOf == [t \in Tasks |-> IF t = t1 THEN s1 ELSE s2]
MCMaxAttempts == [t \in Tasks |-> IF t = t1 THEN 2 ELSE 1]
MCCod == [s \in Shipments |-> IF s = s1 THEN 1 ELSE 0]
MCSymmetry == Permutations({q1, q2}) \cup Permutations({t2, t3})
MCStarts == {[s \in Shipments |-> IF s = here THEN "AT_HUB" ELSE "IN_TRANSIT"] : here \in Shipments}
=============================================================================
