SPECIFICATION FairSpec
CONSTANTS
  OneShots = {a, b}
  Streamers = {s}
INVARIANTS
  TypeOK
  NobodyWaitsInVain
PROPERTIES
  CycleIsMonotone
  WaitersAreServed
