SPECIFICATION Spec
CONSTANTS
    NumCalls = 4
    Endpoint <- MCEndpoint
    Category <- MCCategory
    Letter <- MCLetter
    Answers <- MCAnswers
INVARIANTS
    HeadersMatchRows
CHECK_DEADLOCK FALSE
