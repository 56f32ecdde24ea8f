SPECIFICATION UnitsSpec
CONSTANTS
  Depth = 4
  Data = {d1, d2}
  Init0 = Init0
  Words = 2
  Width = 4
  ROUND_ROBIN_EN = TRUE
  MaxBurst = 3
  TMO_INT = 4
  TMO_EXT = 4
  IntLatency = 2
  MaxLatency = 8
  DeadlineAnswer = FALSE
  MaxSequence = 3
  WordSpace = 4
  SetCycles = 3
  TimeValues <- MCTimes
  MaxTime = 13
  MaxTimerCalls = 2
INVARIANTS
  LevelInv
  LanesCorrect
  AluCorrect
  AnswerReachesRequester
  NoRequestLost
  LockedSequenceAtomic
  EveryAccessTracked
  ErrorMeansNoAnswer
  ExternalCycleClosed
  CounterCorrect
PROPERTIES
  Refinement
  ReadPortFresh
  NoStarvation
  AccessTerminates
  TimerExact
CHECK_DEADLOCK FALSE
