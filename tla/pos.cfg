CONSTANTS
  q1 = q1 q2 = q2 c1 = c1 m1 = m1 k1 = k1 r1 = r1
  NoKey = NoKey
  Requests = {q1, q2}
  Cashiers = {c1, m1}
  Admins = {m1}
  MaxShifts = 2
  Refunds = {r1}
  Keys = {k1}
  BodyOf <- MCBodyOf
  Tenders <- MCTenders
  Payouts = {1}
  Floats = {1}
  Counts = {1}
  MaxRequests = 5
  AfterRace = FALSE
SYMMETRY MCSymmetry
SPECIFICATION Spec
INVARIANTS DrawerAgrees ShiftsAgree MadeOnce
PROPERTIES ClosedShiftStands
CHECK_DEADLOCK FALSE
