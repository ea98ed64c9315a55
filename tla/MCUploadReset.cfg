CONSTANTS
  c1 = c1
  c2 = c2
  a = a
  b = b
  d = d
  Client = {c1}
  Chunk = {a, b, d}
  File <- MCFile
  FileName <- MCFileName
  NoFile = NoFile
  Recipe = Recipe
  PowBatchSize = 1
  SendBatchSize = 2
  Versions = 2
  Faults = {"die", "reset"}
SPECIFICATION FairSpec
PROPERTY ThreadExits
CHECK_DEADLOCK FALSE
