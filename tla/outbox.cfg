SPECIFICATION FairSpec
CONSTANTS
  MaxEvents = 2
  Workers = {w1,w2}
  MaxAttempts = 2
  MaxRetries = 1
  w1 = w1
  w2 = w2
INVARIANTS
  OneLiveSender
  AttemptsCountClaims
PROPERTIES
  KeepsPromise
  EveryEmailDecided
CHECK_DEADLOCK FALSE
