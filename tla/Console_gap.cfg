SPECIFICATION Spec
CONSTANTS
  Limit = 1
  MaxMail = 4
  MaxClicks = 2
  MaxFaults = 0
INVARIANT Whole
CHECK_DEADLOCK FALSE
