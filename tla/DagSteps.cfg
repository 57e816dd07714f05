SPECIFICATION FairSpec
CONSTANTS
    None = None
    Steps <- ThreeSteps
    DependsOn <- ThreeNeeds
    Operator = {"build"}
    AllDone = {"clean"}
    MaxConcurrency = 2
    Actions = {"pause", "retry", "fail"}
    MaxOps = 2
    Stops = 1
    Restarts = 2
INVARIANTS  OutcomesAreFinal NeedsAreMet AttemptsAreAsked
PROPERTIES ResultsStand RunEnds
CHECK_DEADLOCK FALSE
