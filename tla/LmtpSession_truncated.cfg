SPECIFICATION Spec
CONSTANTS
  m1 = m1
  m2 = m2
  i1 = i1
  i2 = i2
  i3 = i3
  Conns = {c1, c2}
  Msgs = {m1, m2}
  Inboxes = {i1, i2, i3}
  To <- Recipients
  Bodies <- Lines
  Closing = {i2}
  MaxSessions = 1
  MaxRecipients = 2
  MaxBytes = 7
  MaxLineBytes = 2
  MaxFaults = 1
CHECK_DEADLOCK FALSE
INVARIANTS StoredIsWhole
