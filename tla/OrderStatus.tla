----------------------------- MODULE OrderStatus -----------------------------
(***************************************************************************)
(* The order statuses and the transition table of                          *)
(* server/services/orderService.js.                                        *)
(***************************************************************************)

\* Targets each status lists; an empty set is a terminal status.
ALLOWED_TRANSITIONS ==
  [ DRAFT              |-> {"CONFIRMED", "CANCELLED"},
    CONFIRMED          |-> {"PAID", "PROCESSING", "CANCELLED"},
    PAID               |-> {"PROCESSING", "CANCELLED"},
    PROCESSING         |-> {"PACKED", "CANCELLED"},
    PACKED             |-> {"READY_FOR_DISPATCH", "CANCELLED"},
    READY_FOR_DISPATCH |-> {"DISPATCHED", "CANCELLED"},
    DISPATCHED         |-> {"IN_TRANSIT", "FAILED_DELIVERY", "CANCELLED"},
    IN_TRANSIT         |-> {"DELIVERED", "FAILED_DELIVERY", "RETURNED"},
    DELIVERED          |-> {"RETURNED", "PARTIALLY_RETURNED", "REFUNDED"},
    FAILED_DELIVERY    |-> {"DISPATCHED", "RETURNED", "CANCELLED"},
    RETURNED           |-> {"REFUNDED"},
    PARTIALLY_RETURNED |-> {"REFUNDED"},
    CANCELLED          |-> {},
    REFUNDED           |-> {} ]

ORDER_STATUSES == DOMAIN ALLOWED_TRANSITIONS

Allows(from, to) == to \in ALLOWED_TRANSITIONS[from]
=============================================================================
