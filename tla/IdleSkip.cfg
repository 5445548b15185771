SPECIFICATION Spec
CONSTANTS
  TimerTop = 12
  Reloads <- MCReloads
  Prescale = 3
  Quantum = 9
  FixedPoint = 4
  Slices <- MCSlices
  MainLoops <- MCMainLoops
  Queued = 0
  CharClocks = 7
  MixedRates = FALSE
INVARIANTS
  TypeOK
  SlicesAgree
PROPERTIES
  NeverPastTarget
  IdleWakes
