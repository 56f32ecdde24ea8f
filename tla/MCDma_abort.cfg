SPECIFICATION Spec
CONSTANTS
  DSC_FIFO = 8
  AddrSpace = 4
  NumSpace = 4
  Value = {0, 1, 2, 3, 4}
  Clients <- MCAborting
  InitMem <- MCMem
PROPERTIES
  DisableTerminates
