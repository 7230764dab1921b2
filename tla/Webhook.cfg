SPECIFICATION FairSpec
CONSTANTS
    digest = digest
    summary = summary
    watch = watch
    Callers = {digest,summary}
    NumWebhooks = 2
    MaxAttempts = 2
    BackoffCap = 30
    Waits = {1,2}
    MaxLost = 1
INVARIANTS
    TypeOK
    AnswerIsTrue
PROPERTIES
    WaitsHonoured
    NoPostAfterFinalAnswer
    SendsAnswered
