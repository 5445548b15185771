SPECIFICATION Spec
CONSTANTS
  IeValues <- MCIeValues
  IpValues <- MCIpValues
  Scales <- MCScales
  OpReturns <- MCOpReturns
  MaxCalls = 1
INVARIANTS
  TypeOK
  NestingOK
  StackBound
  NoFalseMismatch
  PollPicksHighest
PROPERTIES
  RequestKept
  ParkedCoreStays
  IdleWakes
