\* Two workers and the world thread; of two asynchronous transactions and a single
\* statement two are issued, and a direct transaction; one operation may fail or
\* lose its connection.
SPECIFICATION FairSpec

CONSTANTS
  Workers = {w1, w2}
  World = world
  Ops = {t1, t2, t3, t4}
  Direct = {t3}
  Single = {t4}
  Faulty = {t2}
  Size = 2
  LoopBreaker = 2
  MaxIssued = 2
  MaxLosses = 1
  NoOp = NoOp
  NoThread = NoThread

INVARIANTS
  InIssueOrder

PROPERTIES
  StoreSpec
  OperationsSettle
  CloseEnds

\* The server stops.
CHECK_DEADLOCK FALSE
