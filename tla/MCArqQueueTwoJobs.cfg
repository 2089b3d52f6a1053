SPECIFICATION ArqSpec
CONSTANTS
    a1 = a1
    s1 = s1
    s2 = s2
    t1 = t1
    h1 = h1
    h2 = h2
    posting = posting
    NoApp = NoApp
    NoJob = NoJob
    App <- OneApp
    JobOf <- OneJobOf
    Raised = {"pacing_hold", "block"}
    Legacy = {}
    Session <- TwoSlots
    Tab <- OneTab
    OwnerStatus <- RerunStatus
    HoldId <- TwoHolds
    Redis = TRUE
    LiveApply = TRUE
    TransientAfterClick = TRUE
    MaxTries = 2
    MaxCommands = 2
    MaxClicks = 1
    MaxFaults = 1
INVARIANTS OneRunPerRow

CHECK_DEADLOCK FALSE
