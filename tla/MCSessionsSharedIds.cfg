SPECIFICATION Spec
CONSTANTS
  s1 = s1
  s2 = s2
  t1 = t1
  t2 = t2
  None = None
  Controls <- MCControls
  Threads <- MCThreads
  ThreadsOf <- MCThreadsOf
  Watched <- MCWatched
  Ids <- MCIds
  IdsOf <- MCIdsShared
  MaxWire <- MCMaxWire
  MaxDrops <- MCMaxDrops
PROPERTY
  PressReachesItsSession
