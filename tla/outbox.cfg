CONSTANTS
  MaxMessages = 2
  BatchSize = 2
  MaxRetries = 2
  MaxTrouble = 1
SPECIFICATION FairSpec
INVARIANTS SendsBounded SentStands
PROPERTIES EveryMessageSettles
CHECK_DEADLOCK FALSE
