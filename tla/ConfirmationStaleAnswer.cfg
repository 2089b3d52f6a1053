SPECIFICATION ConfirmSpec
CONSTANTS
    PromptTab = {v1, v2}
    JobTimeout = 2
    AskTimeout = 3
    AnswerLife = 2
    MaxRuns = 2
INVARIANT ClickAnswersOwnQuestion
CHECK_DEADLOCK FALSE
