SPECIFICATION FairSpec
CONSTANTS
  None = None
  Malformed = Malformed
  NoNumber = NoNumber
  CommandLines <- MCCommandLines
  Chars <- MCChars
  Values <- MCValues
  Texts <- MCTexts
  Timeout = 2
  StdinLimit = 2
  MaxSnapshots = 2
  MaxTime = 5
  Intervals <- MCIntervals
  Lifetimes <- MCLifetimes
  DefaultInterval = 2
  DefaultLifetime = 4
  SlowDown = 2
INVARIANTS
  TypeOK
  OneAnswer
  DiagnosisIsTheCause
  OneBudget
PROPERTIES
  PollsAsTold
  Ends
