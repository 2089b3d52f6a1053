SPECIFICATION LibrarySpec
CONSTANTS
    CvRequest = {e1}
    Application = {a1}
    MaxCvs = 2
    MaxFaults = 1
CHECK_DEADLOCK FALSE
PROPERTY SubmittedIsArchived
