-------------------------- MODULE ShipmentLifecycle --------------------------
(***************************************************************************)
(* What transitionShipmentStatus promises ("Enforces the formal state      *)
(* machine transitions"): a shipment's status moves only along the         *)
(* transition table, one shipment at a time.                               *)
(***************************************************************************)
EXTENDS ShipmentStatus

CONSTANTS Shipments, Booked   \* shipment -> statuses it may start in
VARIABLE status

Init == status \in {f \in [Shipments -> SHIPMENT_STATUSES] : \A s \in Shipments : f[s] \in Booked[s]}

Transition(s, target) ==
  /\ Allows(status[s], target)
  /\ status' = [status EXCEPT ![s] = target]

Next == \E s \in Shipments, target \in SHIPMENT_STATUSES : Transition(s, target)

Spec == Init /\ [][Next]_status
=============================================================================
