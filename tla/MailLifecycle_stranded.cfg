SPECIFICATION Spec
CONSTANTS
  Inboxes = {i1, i2}
  Contents = {1}
  Deliveries = {d1, d2}
  Requests = {x1, x2}
  Sweeper = sweeper
  SizeBytes <- KeySize
  MaxInboxMessages = 2
  MaxInboxStorageBytes = 2
  BatchSize = 1
  MaxFaults = 0
  LateCommits = FALSE
SYMMETRY Symmetry
INVARIANT
  NoStrandedContent
