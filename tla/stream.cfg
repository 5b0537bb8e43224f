SPECIFICATION FairSpec
CONSTANTS
  open = open
  settled = settled
  Uri = uri
  OtherUri = otherUri
  Texts <- MCTexts
  WantedTexts <- MCWantedTexts
  MaxVersion = 4
  MaxWire = 2
  MaxEvents = 2
INVARIANTS
  TypeOK
  NoMissedUpdate
  OutputIsWellFormed
  SnapshotCoversConsumed
  OneLateSnapshot
PROPERTIES
  TimeoutIsHonest
  Terminates
  ImplementsWatch
