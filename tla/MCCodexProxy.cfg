SPECIFICATION FairSpec
CONSTANTS
  change = change
  check = check
  t1 = t1
  None = None
  Requests <- MCRequests
  Turns <- MCTurns
  TurnOf <- MCTurnOf
  ReadOnly <- MCReadOnly
  Refusable <- MCRefusable
INVARIANTS
  TypeOK
  OneDecisionPerRequest
  AutoAcceptFollowsApproval
PROPERTIES
  ImplementsApproval
  DecisionArrives
CHECK_DEADLOCK FALSE
