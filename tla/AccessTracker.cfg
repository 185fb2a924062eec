SPECIFICATION FairSpec
CONSTANTS
  a1 = a1
  a2 = a2
  a3 = a3
  a4 = a4
  x = x
  y = y
  None = none
  Accesses = {a1, a2, a3, a4}
  DocumentOf <- MCDocumentOf
  Flushes = {1, 2, 3, 4}
  Callers = {"timer", "caller"}
  FlushThreshold = 2
CHECK_DEADLOCK FALSE
INVARIANTS
  TypeOK
  EveryAccessOnce
  BufferBounded
PROPERTIES
  AccessesWritten
  NoneForgotten
