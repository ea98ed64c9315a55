SPECIFICATION CFBSpec
CONSTANTS
  c1 = c1
  c2 = c2
  Client = {c1}
  HashBatches <- MCBatches
  Renewals = 0
  Kills = 0
  Junk = 99
CHECK_DEADLOCK FALSE
INVARIANTS KeyOfContent
