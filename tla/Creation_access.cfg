SPECIFICATION FairSpec
CONSTANTS
  Requests = {r1, r2}
  Addresses = {a1}
  SessionLifetime = 2
  MaxTime = 2
  KeptDays = 1
  MaxEvents = 3
  Lifetime = 2
  DailyLimit = 2
  Burst = 2
  Attempts = 2
  KdfSlots = 1
INVARIANTS OneSuccessor GrantsNest EndIsFinal CreationsBounded OwnerKeepsAccess
PROPERTY EveryRequestEnds
CHECK_DEADLOCK FALSE
