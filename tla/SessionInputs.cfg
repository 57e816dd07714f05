SPECIFICATION Spec
CONSTANTS
    None = None
    s1 = s1
    s2 = s2
    q1 = q1
    Steers <- TwoSteers
    Queues <- OneQueued
    Commands <- OneCommandEach
    MaxStreak = 2
    MaxRechecks = 1
    ToolTurns = 1
    Upsets = 1
    Crashes = 1
    Deletes = 0
INVARIANTS  MarkedIsInTranscript PromotedIsHeld InAdmissionOrder RepeatedOnlyByCrash IdleMeansAnswered
CHECK_DEADLOCK FALSE
