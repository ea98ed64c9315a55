CONSTANTS
  c1 = c1
  c2 = c2
  a = a
  b = b
  d = d
  Client = {c1, c2}
  Chunk = {a, b, d}
  File <- MCFile
  FileName <- MCFileName
  NoFile = NoFile
  Recipe = Recipe
  PowBatchSize = 2
  SendBatchSize = 2
  Versions = 2
  Faults = {"pow", "die", "reset"}
SPECIFICATION Spec
INVARIANTS IndInv Restorable
CHECK_DEADLOCK FALSE
