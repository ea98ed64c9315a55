CONSTANTS
  c1 = c1
  c2 = c2
  a = a
  b = b
  d = d
  Client = {c1, c2}
  Chunk = {a, b, d}
  File <- MCFile
  FileName <- MCFileName
  NoFile = NoFile
  Recipe = Recipe
  PowBatchSize = 2
  SendBatchSize = 3
  Versions = 2
  Faults = {"die"}
SPECIFICATION FairSpec
INVARIANTS WholeRecipe FinishedIsStored
PROPERTY SessionEnds
CHECK_DEADLOCK FALSE
