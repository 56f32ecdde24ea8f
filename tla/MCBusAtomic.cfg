SPECIFICATION Spec
CONSTANTS
  Addr = {0, 1}
  WordSpace = 4
  DataOf <- MCData
  MayDo <- MCMayDo
INVARIANTS
  StoreConditionalExclusive
PROPERTIES
  Atomic
