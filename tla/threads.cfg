\* Up to two map update threads, an ordinary and an instanceable map, two
\* instances, two rounds and the shutdown; two ids of queue updates.
SPECIFICATION FairSystemSpec

CONSTANTS
  inst = inst
  Workers = {w1, w2}
  World = world
  Maps = {plain, inst}
  Instances = {i1, i2}
  Parent <- MCParent
  NoMap = NoMap
  NoThread = NoThread
  MaxRounds = 2
  Ids = {a, b}
  Junk = Junk
  CounterRange = 3
  SeveralCall = FALSE

INVARIANTS
  NoneLost

PROPERTIES
  
  WaitsEnd
  

\* The server stops.
CHECK_DEADLOCK FALSE
