SPECIFICATION Spec
CONSTANTS
  OneShots = {a}
  Streamers = {s}
PROPERTIES
  CycleStartsFresh
