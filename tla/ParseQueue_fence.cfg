SPECIFICATION FairSpec
CONSTANTS
  Contents = {c1}
  NoKey = nokey
  Workers = {w1, w2}
  MaxAttempts = 2
  MaxRows = 3
  MaxRestarts = 1
  MaxFaults = 2
INVARIANTS
  LiveClaimStands
  ResultMatchesStatus
  RetriesBounded
PROPERTY
  EveryContentSettles
