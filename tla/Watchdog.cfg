CONSTANTS
  Radix = 4
  Low13 = 2
  Machine = 3
  PcaDivisor <- MCPcaDivisor
  WdtRadix = 8
  WdtLimit = 3
  AdcClocks <- MCAdcClocks
  Setups <- Watchdog
  Counts <- MCCounts
  Window = 12
SPECIFICATION Spec
PROPERTY WdtBites
