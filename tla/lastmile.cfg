CONSTANTS
  q1 = q1 q2 = q2 s1 = s1 s2 = s2 t1 = t1 t2 = t2 t3 = t3
  Requests = {q1, q2}
  Shipments = {s1, s2}
  Tasks = {t1, t2, t3}
  ShipOf <- MCShipOf
  MaxAttempts <- MCMaxAttempts
  Cod <- MCCod
  Amounts = {0, 1}
  Starts <- MCStarts
  Asleep = {"IN_TRANSIT"}
  StaffTargets = {"EXCEPTION", "AT_HUB"}
  BoardStatuses = {"FAILED"}
  MaxTries <- MCMaxAttempts
  AfterRace = FALSE
  Faults = {"rollback"}
SYMMETRY MCSymmetry
SPECIFICATION Spec
INVARIANTS TypeOK  AttemptsAgree CashAgrees
PROPERTIES ReconciledIsClosed
CHECK_DEADLOCK FALSE
