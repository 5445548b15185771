SPECIFICATION Spec
CONSTANTS
  TimerTop = 12
  Reloads <- MCReloads
  Prescale = 3
  Quantum = 9
  FixedPoint = 4
  Slices <- MCSlices
  MainLoops <- MCMainLoops
  Queued = 1
  CharClocks = 7
  MixedRates = FALSE
INVARIANT
  SlicesAgree
