SPECIFICATION FairSpec
CONSTANTS
  None = None
  Documents <- MCDocuments
  Key <- MCKey
  After <- MCAfter
  Interval = 1
  RetryDelay = 1
  Heartbeat = 3
  Stale = 2
  NotReceived = 2
  Timeout = 4
  Attempts = 3
  MaxTime = 6
INVARIANTS
  TypeOK
  OutputIsFaithful
  SelectsThisRound
PROPERTIES
  ExitIsHonest
  DeadlineIsKept
  Terminates
