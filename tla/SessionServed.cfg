SPECIFICATION FairSpec
CONSTANTS
    None = None
    s1 = s1
    s2 = s2
    q1 = q1
    Steers <- OneSteer
    Queues <- OneQueued
    Commands <- NoCommands
    MaxStreak = 2
    MaxRechecks = 1
    ToolTurns = 1
    Upsets = 1
    Crashes = 1
    Deletes = 1
PROPERTIES  RunEnds
CHECK_DEADLOCK FALSE
