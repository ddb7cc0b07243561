\* A call whose arguments contain three backquotes.
CONSTANTS
    Answers <- QuotingAnswers
    Requests <- QuotingRequests
    Strings <- MCStrings
    MaxSends = 1
SPECIFICATION Spec
INVARIANTS
    CallsStayHidden
CHECK_DEADLOCK FALSE
