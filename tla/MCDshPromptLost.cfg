SPECIFICATION Spec
CONSTANTS
  c1 = c1
  c2 = c2
  None = None
  Calls <- MCCalls
  MaxWire <- MCMaxWire
  MaxDrops <- MCMaxDrops
INVARIANT
  PromptCarriedUntilSettled
