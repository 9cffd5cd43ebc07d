SPECIFICATION Spec
CONSTANTS
  Contents = {c1}
  NoKey = nokey
  Workers = {w1, w2}
  MaxAttempts = 1
  MaxRows = 1
  MaxRestarts = 1
  MaxFaults = 0
INVARIANT
  ShutdownIsFree
