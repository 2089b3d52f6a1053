SPECIFICATION DbSafety
CONSTANTS
    a1 = a1
    a2 = a2
    w1 = w1
    w2 = w2
    t1 = t1
    posting = posting
    NoApp = NoApp
    NoWorker = NoWorker
    App <- OneApp
    JobOf <- OneJobOf
    Raised = {"pacing_hold", "block"}
    Legacy = {}
    Session <- OneWorker
    Tab <- OneTab
    OwnerStatus <- Withdraw
    Redis = FALSE
    LiveApply = TRUE
    TransientAfterClick = FALSE
    MaxTries = 3
    MaxCommands = 2
    MaxClicks = 3
    MaxFaults = 0
PROPERTY WithdrawnStaysWithdrawn
