SPECIFICATION FairSpec
CONSTANTS
  Limit = 1
  MaxMail = 4
  MaxClicks = 5
  MaxFaults = 1
INVARIANTS FlagsMeanWork NothingComesBack WholeUnlessOverrun LeftIsCleared
PROPERTY MailAppears
CHECK_DEADLOCK FALSE
