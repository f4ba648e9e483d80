SPECIFICATION FairSpec
CONSTANTS
    r1 = r1
    r2 = r2
    a1 = a1
    a2 = a2
    t1 = t1
    t2 = t2
    None = None
    Recipes <- OneRecipe
    Accounts <- OneAccount
    Tasks <- TwoTasks
    MaxCopies = 1
PROPERTIES
    AddedStays
