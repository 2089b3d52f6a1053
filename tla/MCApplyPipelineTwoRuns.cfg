SPECIFICATION Spec
CONSTANTS
    a1 = a1
    s1 = s1
    s2 = s2
    t1 = t1
    posting = posting
    NoApp = NoApp
    App <- OneApp
    JobOf <- OneJobOf
    Raised = {"escalate", "pacing_hold", "block"}
    Legacy <- MCLegacy
    Session <- TwoSessions
    Tab <- OneTab
    OwnerStatus <- RerunStatus
    Redis = FALSE
    LiveApply = TRUE
    TransientAfterClick = TRUE
    MaxTries = 1
    MaxCommands = 2
    MaxClicks = 1
SYMMETRY Symmetric
CHECK_DEADLOCK FALSE
INVARIANT ReviewNeedsConsent
PROPERTY ApprovalSticks
