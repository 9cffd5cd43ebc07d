SPECIFICATION Spec
CONSTANTS
  p1 = p1
  p2 = p2
  Procs = {p1, p2}
  Keys = {1, 2}
  Commands <- Operator
  Batch = 1
  MaxFaults = 1
CONSTRAINT Explored
INVARIANTS LeaseForLifetime
