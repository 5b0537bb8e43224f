SPECIFICATION Spec
CONSTANTS
  None = None
  Documents <- MCDocuments
  Key <- MCKey
  After <- MCAfter
  Interval = 2
  RetryDelay = 1
  Heartbeat = 3
  Stale = 2
  NotReceived = 3
  Timeout = 6
  Attempts = 3
  MaxTime = 8
INVARIANTS
  NotReceivedMeansNeverSeen
