CONSTANTS
  Menu <- MCMenu
  Start <- MCStart
  Pins <- MCPins
  Constants <- MCConstants
  HasUpper = TRUE
  HasExt = TRUE
SPECIFICATION Spec
PROPERTY AuxCarryOfLowDigit
CHECK_DEADLOCK FALSE
