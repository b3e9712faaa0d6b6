CONSTANTS
  w1 = w1
  w2 = w2
  w3 = w3
  Writers <- MCWriters
  Nobody = Nobody
  BatchSize = 1
SPECIFICATION FairSpec
CHECK_DEADLOCK FALSE
INVARIANTS LiveVerifies ExportsVerify NothingLost
PROPERTIES EveryRecordEnds
