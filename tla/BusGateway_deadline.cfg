SPECIFICATION GatewaySpec
CONSTANTS
  TMO_INT = 4
  TMO_EXT = 4
  IntLatency = 2
  MaxLatency = 8
  DeadlineAnswer = TRUE
  MaxSequence = 3
INVARIANTS
  EveryAccessTracked
