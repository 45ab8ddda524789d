SPECIFICATION FairSpec
CONSTANTS
  c1 = c1
  c2 = c2
  None = None
  Calls <- MCCalls
  MaxWire <- MCMaxWire
  MaxDrops <- MCMaxDrops
INVARIANTS
  TypeOK
  DecidedOnTheDevice
  ExcludedLeftToWebUI
  PromptIsPending
PROPERTIES
  SettledForGood
  TakeoverSettles
  StalePromptLeaves
