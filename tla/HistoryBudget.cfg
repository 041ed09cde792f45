\* The budget has no room for the largest results of two calls.
SPECIFICATION Spec
CONSTANTS
    MaxMessages = 6
    MaxTokens = 4
    KeepLast = 3
    MaxToolRetries = 2
    MaxBatch = 2
    MaxAnswers = 2
    MaxPrompts = 1
    MaxFaults = 0
    MaxKills = 0
INVARIANT AnswerIsActedOn
CHECK_DEADLOCK FALSE
