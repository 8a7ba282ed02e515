SPECIFICATION FairSpec
CONSTANTS
  m1 = m1
  m2 = m2
  none = none
  Matches <- MCMatches
  Outcomes <- MCOutcomes
  QueueCapacity = 2
  MaxAttempts = 2
  NoEnvelope = none
CHECK_DEADLOCK FALSE
INVARIANT WriterTypeOK
PROPERTY LedgerImplemented
