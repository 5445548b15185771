CONSTANTS
  Radix = 4
  Low13 = 2
  Machine = 3
  PcaDivisor <- MCPcaDivisor
  WdtRadix = 8
  WdtLimit = 3
  AdcClocks <- MCAdcClocks
  Setups <- MCSetups
  Counts <- MCCounts
  Window = 12
SPECIFICATION Spec
INVARIANTS
  TypeOK
  TimersCountClocks
  PwmPulseWhole
PROPERTIES
  AdcAnswersAsked
  WdtBitesOnTime
