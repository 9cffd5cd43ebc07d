SPECIFICATION FairSpec
CONSTANTS
  Inboxes = {i1}
  Contents = {1}
  Deliveries = {d1, d2, d3}
  Requests = {x1}
  Sweeper = sweeper
  SizeBytes <- KeySize
  MaxInboxMessages = 3
  MaxInboxStorageBytes = 2
  BatchSize = 2
  MaxFaults = 1
  LateCommits = TRUE
PROPERTIES
  QueueDrains
  ExpiredRemoved
INVARIANTS
  QuotasHold
