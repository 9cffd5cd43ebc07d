SPECIFICATION Spec
CONSTANTS
  Inboxes = {i1, i2}
  Contents = {1}
  Deliveries = {d1, d2}
  Requests = {x1}
  Sweeper = sweeper
  SizeBytes <- KeySize
  MaxInboxMessages = 2
  MaxInboxStorageBytes = 2
  BatchSize = 1
  MaxFaults = 2
  LateCommits = TRUE
SYMMETRY Symmetry
INVARIANTS
  TypeOK
  MessagesReadable
  ObjectsOwned
PROPERTY
  ImplementsMailbox
