SPECIFICATION FairSpec
CONSTANTS
    NumCalls = 4
    Endpoint <- MCEndpoint
    Category <- MCCategory
    Letter <- MCLetter
    Answers <- MCAnswers
INVARIANTS
    TypeOK
    EveryAnswerShownOnce
    IngredientsParsed
PROPERTIES
    FeedEventuallyShown
    ImplementsFanIn
CHECK_DEADLOCK FALSE
