SPECIFICATION Spec
CONSTANTS
  Addr = {0}
  WordSpace = 4
  DataOf <- MCData
  MayDo <- MCDual
INVARIANTS
  StoreConditionalExclusive
