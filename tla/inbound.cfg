CONSTANTS
  q1 = q1 q2 = q2 a = a b = b u1 = u1 u2 = u2
  Requests = {q1, q2}
  Shipments = {a, b}
  Manifest = {a}
  CrossBorder = {a}
  Outbound = {a}
  Sessions = {n1}
  Scans = {u1, u2}
  ScanOf <- MCScanOf
  Batches <- MCBatches
  Starts <- MCStarts
  StaffTargets = {"EXCEPTION"}
  Marks = {"CLEARED"}
  MaxRepeats = 2
  MaxRequests = 5
  AfterRace = FALSE
SYMMETRY MCSymmetry
SPECIFICATION Spec
INVARIANTS TypeOK CountersAgree ReportAgrees
PROPERTIES MovesAreLegal
CHECK_DEADLOCK FALSE
