CONSTANTS
  Clocks = {0, 11059200, 24000000}
  DefaultFosc = 11059200
  Files <- MCFiles
  MaxCalls = 6
  MaxEvents = 2
SPECIFICATION Spec
CHECK_DEADLOCK FALSE
INVARIANTS
  P5FollowsPart
  SavedRestores
PROPERTY
  RestoreRewinds
