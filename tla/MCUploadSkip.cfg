CONSTANTS
  c1 = c1
  c2 = c2
  a = a
  b = b
  d = d
  Client = {c1}
  Chunk = {a, b, d}
  File <- MCOneFile
  FileName <- MCFileName
  NoFile = NoFile
  Recipe = Recipe
  PowBatchSize = 2
  SendBatchSize = 2
  Versions = 2
  Faults = {}
SPECIFICATION Spec
INVARIANT RestorableAlways
CHECK_DEADLOCK FALSE
