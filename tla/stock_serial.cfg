CONSTANTS
  Requests = {q1}
  Orders = {o1}
  Quantities = {1, 2}
  Opening = {2}
  Operations = {"reserve", "release", "quarantine", "expire", "writeOffDamaged",
    "writeOffExpired", "restoreDamaged", "restoreExpired", "receiveGood", "receiveDamaged",
    "lose", "find", "returnGood", "returnDamaged", "refund", "add", "deduct",
    "create", "edit", "transition", "checkout", "exchange"}
  MaxStock = 2
SPECIFICATION Spec
INVARIANTS InBalance AvailableNotNegative ReadyIsAllocated
PROPERTIES OrdersConserveUnits
