SPECIFICATION Spec
CONSTANTS
  k1 = k1
  k2 = k2
  Keys = {k1, k2}
  TooLarge = TooLarge
  Writers = {w1, w2, w3}
  SizeOf <- KeySize
  MaxBytes = 2
  MinFreeBytes = 1
  Capacity = 7
  MaxFaults = 2
  MaxOutages = 2
SYMMETRY Symmetry
INVARIANTS ObjectsWhole InstalledSurvives DeletionSticks FloorHolds
