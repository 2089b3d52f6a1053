SPECIFICATION DbSpec
CONSTANTS
    a1 = a1
    a2 = a2
    w1 = w1
    w2 = w2
    t1 = t1
    posting = posting
    NoApp = NoApp
    NoWorker = NoWorker
    App <- OneApp
    JobOf <- OneJobOf
    Raised = {"pacing_hold", "block"}
    Legacy <- LegacyRow
    Session <- TwoWorkers
    Tab <- OneTab
    OwnerStatus <- RerunStatus
    Redis = FALSE
    LiveApply = TRUE
    TransientAfterClick = FALSE
    MaxTries = 3
    MaxCommands = 1
    MaxClicks = 2
    MaxFaults = 1
INVARIANTS MutualExclusion OneClickPerAsk
PROPERTIES LeavesApplying WaitingIsTried LedgerSpec
