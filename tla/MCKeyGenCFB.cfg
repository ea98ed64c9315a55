SPECIFICATION CFBSpec
CONSTANTS
  c1 = c1
  c2 = c2
  Client = {c1, c2}
  HashBatches <- MCBatches
  Renewals = 2
  Kills = 1
  Junk = 99
CHECK_DEADLOCK FALSE
INVARIANTS AnswersOwn ThreadsCounted
PROPERTIES Finishes
