SPECIFICATION Spec
CONSTANTS
  k1 = k1
  k2 = k2
  Keys = {k1, k2}
  TooLarge = TooLarge
  Writers = {w1, w2}
  SizeOf <- KeySize
  MaxBytes = 2
  MinFreeBytes = 1
  Capacity = 20
  MaxFaults = 0
  MaxOutages = 1
SYMMETRY Symmetry
INVARIANTS PutIsDurable
