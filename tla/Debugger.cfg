SPECIFICATION Spec
CONSTANTS
  Slot = {1, 2}
  Place = {main, handler}
  Entry = main
  Handler = handler
  Value = {0, 1}
  Zero = 0
  MaxSP = 3
  MaxId = 2
  MaxCount = 2
VIEW LiveState
INVARIANTS
  TypeOK
  WatchHasCause
PROPERTIES
  HandlesNotReused
  StepEndsInBounds
  PassesNoBreakpoint
