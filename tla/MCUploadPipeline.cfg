SPECIFICATION Spec
CONSTANTS
  Chunks = {a, b, c, d}
  a = a
  b = b
  c = c
  d = d
  MaxLen = 4
  RecipeHead = RecipeHead
  QueueSize = 2
  KeyBatch = 2
  PowBatch = 3
  Faults = {"sk", "hash", "exchange", "encrypt", "pow", "send", "interrupt"}
  Files <- MCFiles
INVARIANTS DoneIsAll LivesLonger
PROPERTIES CopiesFile Joins
CHECK_DEADLOCK FALSE
