SPECIFICATION Spec
CONSTANTS
  p1 = p1
  p2 = p2
  t1 = t1
  Uri = uri
  OtherUri = otherUri
  Texts <- MCTexts
  PollTexts <- MCPollTexts
  MaxVersion = 2
  MaxWire = 2
  MaxEvents = 2
INVARIANTS
  CompletedIsDetected
