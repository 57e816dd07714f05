SPECIFICATION FairSpec
CONSTANTS
  n1 = n1
  n2 = n2
  q1 = q1
  q2 = q2
  c1 = c1
  c2 = c2
  None = None
  Node <- TwoNodes
  Request <- TwoInputs
  Call <- TwoCalls
  Faults = 3
CHECK_DEADLOCK FALSE
INVARIANTS
  VerdictMatchesNodes
  ReservationCoversCalls
PROPERTIES
  
  ImplementsAtMostOnce
  DispatchSettles
  FinishedIsListed
