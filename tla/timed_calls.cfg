SPECIFICATION Spec
CONSTANTS
    Keys <- AllKeys
    Window = 10
    PostLimit = 1
    NavigationLimit = 6
    OperationLimit = 1
    GotoLimit = 1
    SettleLimit = 1
    FormLimit = 5
    FinishLimit = 2
    LoginLimit = 4
    ReopenLimit = 1
    PollPause = 3
    MaxCrashes = 3
    RequestLimit = 6
    Buffer = 1
    CloseLimit = 3
    BackoffLimit = 1
    MaxRetries = 3
    ChatLimit = 8
    ProcessLimit = 10
INVARIANTS
    SilenceIsExplained
    LoginFailureIsEarned
    AnswerSurvivesHangs
CHECK_DEADLOCK FALSE
