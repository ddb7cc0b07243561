\* Requests and answers, in whatever frames it comes, with one resend.
CONSTANTS
    Answers <- MCAnswers
    Requests <- MCRequests
    Strings <- MCStrings
    MaxSends = 2
SPECIFICATION Spec
INVARIANTS
    TypeOK
    
    HistoryKeepsCalls
    FramesDoNotMatter
    AnswerIsWhole
    TidyBlocksStayHidden
    LifeCycleInOrder
    StreamGivesTheObject
CHECK_DEADLOCK FALSE
