CONSTANTS
  Ops = {1, 2}
  Guarded = {2}
  Callers = {"heartbeat", "button"}
  Calls = {"c1", "c2"}
  Faults = {"lost", "refusal", "database", "crash", "indexeddb"}
SPECIFICATION SyncSpec
INVARIANTS LogIsTrue GuardedOnce
CHECK_DEADLOCK FALSE
