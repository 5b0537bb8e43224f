SPECIFICATION FairSpec
CONSTANTS
  p1 = p1
  p2 = p2
  t1 = t1
  Uri = uri
  OtherUri = otherUri
  Texts <- MCTexts
  PollTexts <- MCPollTexts
  MaxVersion = 4
  MaxWire = 2
  MaxEvents = 2
INVARIANTS
  TypeOK
  QueueIsSound
  NoMissedUpdate
  FinalTextCoversConsumed
  SuccessIsTerminal
  ErrorAgreesWithClose
PROPERTIES
  TimeoutIsHonest
  EndsUnlessNotified
  ImplementsWatch
