CONSTANTS
  Hex <- MCHex
  Segment = 2
  Linear = 6
  Block = 2
  EraseUnit = 4
  FlashSize = 8
  Erased = 255
  Stray <- MCStray
  MaxPulses = 2
  MaxFaults = 2
SPECIFICATION Spec
CHECK_DEADLOCK FALSE
INVARIANT
  FlashedIsImage
PROPERTY
  EndsWhenTimed
