CONSTANTS
  i1 = i1 i2 = i2 o1 = o1 r1 = r1 r2 = r2
  NoRef = NoRef
  Requests = {q1, q2}
  Intents = {i1, i2}
  Orders = {o1}
  Refs = {r1, r2}
  MpesaIntents = {i1}
  OrderOf <- MCOrderOf
  Amount <- MCAmount
  Total <- MCTotal
  StaffTargets = {"CANCELLED"}
  Faults = {"network", "webhook"}
  MaxPayments = 2
  AfterRace = FALSE
SPECIFICATION FairSpec
INVARIANTS CreditsStand LedgerAgrees 
PROPERTIES PaymentMovesConfirmed ChargeIsAccounted
CHECK_DEADLOCK FALSE
