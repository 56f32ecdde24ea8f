SPECIFICATION Spec
CONSTANTS
  Generics <- MCGenerics
  Tag <- MCTag
  Value <- MCValue
  Junk = Junk
INVARIANTS ReadCorrect Coherent
PROPERTIES FenceFlushes RequestAnswered
