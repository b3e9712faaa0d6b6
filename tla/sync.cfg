CONSTANTS
  k1 = k1
  t1 = t1
  t2 = t2
  Nobody = Nobody
  Connectors = {k1}
  Tuples <- MCTuples
  Owner <- OneSource
  Checks = {c1}
  ChunkSize = 1
  Retries = 1
  MaxStaleness = 1
  MaxClock = 2
  MaxChanges = 2
SPECIFICATION FairSpec
CHECK_DEADLOCK FALSE
INVARIANTS AllowWasTrue CleanRunsInLine
PROPERTIES RemovalsBeforeSave Converges
