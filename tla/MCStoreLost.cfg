CONSTANTS
  c1 = c1
  c2 = c2
  c3 = c3
  None = None
  Chunk = {c1, c2}
  Size <- MCSize
  MaxContainerSize = 4
  Names = 2
  Thread = {"t1"}
  Serial = TRUE
  Faults = {"kill"}
SPECIFICATION Spec
INVARIANT IndexedReadable
