CONSTANTS
  q1 = q1 q2 = q2 o1 = o1 o2 = o2 l1 = l1 l2 = l2
  Requests = {q1, q2}
  Requisitions = {r1}
  Orders = {o1, o2}
  Invoices = {i1}
  Returns = {t1}
  Lines = {l1, l2}
  Ordered <- MCOrdered
  Total = 2
  Deliveries <- MCDeliveries
  Amounts = {1, 2}
  MaxRequests = 5
  AfterRace = FALSE
SYMMETRY MCSymmetry
SPECIFICATION Spec
INVARIANTS GoodsAgree InvoicesAgree DoneOnce
PROPERTIES OrdersMoveForward
CHECK_DEADLOCK FALSE
