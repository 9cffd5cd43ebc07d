SPECIFICATION Spec
CONSTANTS
  Messages = {1, 2, 3}
  Attached = {1}
  Times = {1, 2}
  Requests = {r1, r2}
  Limit = 1
  PageLimit = 2
  HeavySlots = 1
  CfSlots = 2
  MaxStarts = 2
  MaxFaults = 1
INVARIANTS SlotsHeld WalkComplete NumbersStable MissingMeansGone NoCircularWait
SYMMETRY RequestSymmetry
CHECK_DEADLOCK FALSE
