CONSTANTS
  Ops = {1, 2, 3, 4}
  Guarded = {2}
  Callers = {"heartbeat"}
  Calls = {"c1"}
  Faults = {"lost"}
SPECIFICATION FairSpec
PROPERTIES KeepsPromise EveryOperationLeaves
CHECK_DEADLOCK FALSE
