SPECIFICATION Spec
CONSTANTS
    None = None
    s1 = s1
    s2 = s2
    q1 = q1
    Steers <- TwoSteers
    Queues <- OneQueued
    Commands <- NoCommands
    MaxStreak = 2
    MaxRechecks = 1
    ToolTurns = 1
    Upsets = 0
    Crashes = 0
    Deletes = 1
INVARIANT PromotedIsHeld
CHECK_DEADLOCK FALSE
