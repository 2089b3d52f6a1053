SPECIFICATION ServicesSafety
CONSTANTS
    Component = {"connect", "confirm", "window", "sessions", "assistant", "inbox", "skills",
                 "purge", "discovery", "groups", "notices", "keyring", "versions", "library",
                 "score", "pdf", "pacing"}
    Portal = {q1}
    Host = {h1, h2}
    WebTab = {t1, t2}
    MaxClicks = 2
    Owner = {u1, u2}
    Listing = {1, 2, 3}
    Alike <- ThirdLikeBoth
    Listable = {1, 2}
    MaxDeletes = 0
    NoPortal = NoPortal
    LoginTimeout = 1
    StaleAfter = 1
    b1 = b1
    u1 = u1
    u2 = u2
    a1 = a1
    a2 = a2
    a3 = a3
    w1 = w1
    w2 = w2
    NoApp = NoApp
    JobTimeout = 2
    AskTimeout = 3
    AnswerLife = 2
    MaxRuns = 2
    PromptTab = {v1, v2}
    DayLength = 6
    MaxDelay = 3
    MaxRun = 2
    Windows <- SomeWindows
    Tab = {s1, s2}
    Browser = {b1}
    HomeOf <- OneBrowser
    LossyNetwork = TRUE
    MaxTokens = 3
    MaxLinks = 1
    Instance = {i1, i2}
    Proposal = {p1}
    ConfirmCall = {cc1, cc2, cc3}
    TokenLife = 1
    PruneAbove = 0
    MaxConfirms = 2
    Mailbox = {u1, u2}
    Mail <- TwoMails
    MailTo <- ToOneBox
    SaysOf <- InviteThenRejection
    MaxCorrections = 1
    Review = {r1, r2, r3}
    Guidance = {"guidance"}
    RetireAfter = 2
    Retries = 2
    MaxVersions = 3
    Job = {j1}
    GraceDays = 1
    MaxFiles = 1
    ListLimit = 1
    ForeignKeys = TRUE
    Searcher = {d1, d2}
    Advert <- SomeAdverts
    MaxBoard = 4
    Fact = {"interview", "rejection"}
    Caller = {c1, c2}
    DigestRun = {g1}
    MaxLosses = 1
    Keys <- TwoKeys
    Call = {k1, k2}
    LongPark = 3
    ShortPark = 1
    MaxChanges = 2
    Branch = {br}
    Analysis = {an}
    Editor = {ed1, ed2}
    MaxResumes = 4
    CvRequest = {cr1, cr2}
    Application = {a1}
    MaxCvs = 2
    MaxFaults = 2
    BaseCv = {1}
    CvLine = {l1, l2, l3}
    MaxRounds = 3
    AtsTarget = 3
    MaxScore = 3
    ScoreAsk = {sq}
    MaxTailored = 1
CHECK_DEADLOCK FALSE
INVARIANTS
    ServicesTypeOK
    OneWindowPerRequest
    OneClickPerApproval
    HoldNamesOpening
    HoldNamesFirstOpening
    OneSuccessor
    EndedStaysEnded
    DeletedFallsSilent
    ConfirmedOnce
    MovedOnce
    RetiredWithCause
    LeftoversAreLate
    VacancyIsListed
    GroupsAreComponents
    
    SpentKeyRests
    OnlyTailoringForks
    FilesMatchRows
    ScoreOfAttached
    ShippedAsReported
    PostingWithinWorkers
PROPERTIES
    UsableSessionStays
    NeverBackwards
    
