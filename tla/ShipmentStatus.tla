--------------------------- MODULE ShipmentStatus ---------------------------
(***************************************************************************)
(* The canonical shipment statuses and the transition table that           *)
(* server/services/shipmentService.js exports.  Every component that moves *)
(* a shipment reads this table.  The legacy alias FAILED_DELIVERY is       *)
(* normalised to DELIVERY_FAILED before the table is consulted, so it is   *)
(* not a status of its own here.                                           *)
(***************************************************************************)

\* Targets each status lists; an empty set is a terminal status.
ALLOWED_TRANSITIONS ==
  [ DRAFT              |-> {"BOOKED", "CANCELLED"},
    BOOKED             |-> {"PAID", "PAYMENT_PENDING", "ACCEPTED", "AT_ORIGIN_HUB", "SORTED",
                            "READY_FOR_DISPATCH", "LOADED", "READY_FOR_DELIVERY", "CANCELLED"},
    PAYMENT_PENDING    |-> {"PAID", "ACCEPTED", "AT_ORIGIN_HUB", "CANCELLED"},
    PAID               |-> {"ACCEPTED", "AT_ORIGIN_HUB", "CANCELLED"},
    ACCEPTED           |-> {"AT_ORIGIN_HUB", "SORTED", "READY_FOR_DISPATCH", "LOADED",
                            "READY_FOR_DELIVERY", "CANCELLED"},
    AT_ORIGIN_HUB      |-> {"SORTED", "READY_FOR_DISPATCH", "LOADED", "READY_FOR_DELIVERY",
                            "ON_HOLD", "EXCEPTION"},
    SORTED             |-> {"READY_FOR_DISPATCH", "LOADED", "READY_FOR_DELIVERY", "ON_HOLD",
                            "EXCEPTION"},
    READY_FOR_DISPATCH |-> {"LOADED", "ON_HOLD", "EXCEPTION"},
    LOADED             |-> {"IN_TRANSIT", "READY_FOR_DISPATCH", "EXCEPTION"},
    IN_TRANSIT         |-> {"AT_HUB", "EXCEPTION"},
    AT_HUB             |-> {"SORTED", "READY_FOR_DISPATCH", "LOADED", "READY_FOR_DELIVERY",
                            "READY_FOR_PICKUP", "ON_HOLD", "EXCEPTION"},
    READY_FOR_DELIVERY |-> {"OUT_FOR_DELIVERY", "DELIVERY_FAILED", "RETURN_TO_HUB", "ON_HOLD",
                            "EXCEPTION", "CANCELLED"},
    OUT_FOR_DELIVERY   |-> {"DELIVERED", "DELIVERY_FAILED", "RETURN_TO_HUB", "EXCEPTION"},
    DELIVERED          |-> {},
    DELIVERY_FAILED    |-> {"READY_FOR_DELIVERY", "OUT_FOR_DELIVERY", "RETURN_TO_HUB",
                            "RETURNED", "EXCEPTION"},
    READY_FOR_PICKUP   |-> {"DELIVERED", "RETURN_TO_HUB", "EXCEPTION"},
    RETURN_TO_HUB      |-> {"RETURNED", "READY_FOR_DELIVERY", "AT_HUB", "EXCEPTION"},
    RETURNED           |-> {},
    ON_HOLD            |-> {"BOOKED", "ACCEPTED", "AT_ORIGIN_HUB", "SORTED", "READY_FOR_DISPATCH",
                            "LOADED", "IN_TRANSIT", "READY_FOR_DELIVERY", "CANCELLED"},
    EXCEPTION          |-> {"AT_ORIGIN_HUB", "AT_HUB", "SORTED", "READY_FOR_DISPATCH", "LOADED",
                            "IN_TRANSIT", "READY_FOR_DELIVERY", "RETURN_TO_HUB", "CANCELLED"},
    CANCELLED          |-> {} ]

SHIPMENT_STATUSES == DOMAIN ALLOWED_TRANSITIONS

Allows(from, to) == to \in ALLOWED_TRANSITIONS[from]
=============================================================================
