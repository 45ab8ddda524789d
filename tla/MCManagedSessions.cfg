SPECIFICATION FairSpec
CONSTANTS
  s1 = s1
  s2 = s2
  t1 = t1
  t2 = t2
  None = None
  Controls <- MCControls
  Threads <- MCThreads
  ThreadsOf <- MCThreadsOf
  Watched <- MCWatched
  Ids <- MCIds
  IdsOf <- MCIdsApart
  MaxWire <- MCMaxWire
  MaxDrops <- MCMaxDrops
INVARIANTS
  TypeOK
  PromptCanBeAnswered
PROPERTIES
  PressReachesItsSession
  PressIsTaken
  PeerIsToldAnew
