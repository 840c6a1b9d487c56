SPECIFICATION FairSpec
CONSTANTS
  d1 = d1
  w1 = w1
  w2 = w2
  NoDocument = NoDocument
  Document <- OneDocument
  Worker <- TwoWorkers
  MaxRetries = 1
  MaxFaults = 2
CHECK_DEADLOCK FALSE
INVARIANTS
  RevokedHoldsNothing
  AclFollowsScope
  NoneForgotten
  IndexIsHonest
PROPERTIES
  IngestionSettles
