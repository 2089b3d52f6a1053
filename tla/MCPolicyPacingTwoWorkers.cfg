SPECIFICATION FairSpec
CONSTANTS
    a1 = a1
    a2 = a2
    a3 = a3
    App <- Apps
    Worker = {w1, w2}
    NoApp = NoApp
    Policy <- Caps
    Facts <- GoodPostings
    PostingOf <- TwoPostings
    CompanyOf <- OneCompany
    SimilarTo <- TwoSimilar
    PortalOf <- OnePortal
    HourLength = 1
    DayLength = 2
    WeekLength = 3
    Old = 4
    HistoryLimit = 25
    OwnerStatus <- NoEdits
    MaxCommands = 0
    ApprovedBefore <- FirstTwo
INVARIANTS
    CapsWithinWorkers
PROPERTY
    HoldsClear
CHECK_DEADLOCK FALSE
