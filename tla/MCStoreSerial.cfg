CONSTANTS
  c1 = c1
  c2 = c2
  c3 = c3
  None = None
  Chunk = {c1, c2, c3}
  Size <- MCSize
  MaxContainerSize = 4
  Names = 3
  Thread = {"t1"}
  Serial = TRUE
  Faults = {}
SPECIFICATION Spec
INVARIANTS IndInv IndexedReadable RestoredRight
PROPERTY ImplementsMap
