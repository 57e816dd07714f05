SPECIFICATION FairSpec
CONSTANTS
    s1 = s1
    s2 = s2
    Steers <- TwoSteers
    MaxRechecks = 1
    Faults = 2
INVARIANTS NoAcceptedLeft OnlyForceRejects
PROPERTIES SettleReturns AcceptedIsServed
CHECK_DEADLOCK FALSE
