CONSTANTS
  Menu <- MCMenu
  Start <- MCStart
  Pins <- MCPins
  Constants <- MCConstants
  HasUpper = TRUE
  HasExt = TRUE
SPECIFICATION Spec
INVARIANTS
  TypeOK
  BoardSeesPins
PROPERTIES
  WritesWhatItNames
  GoesWhereItSays
  ArithmeticExact
  ReturnsHome
  BitOpsKeepLatch
CHECK_DEADLOCK FALSE
