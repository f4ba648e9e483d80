SPECIFICATION FairSpec
CONSTANTS
    a = a
    b = b
    apple = apple
    zebra = zebra
    Recipe = {a, b}
    Text = {apple, zebra}
    NoText = NoText
    Match <- Titles
    MaxBacklog = 1
INVARIANTS
    StaleCountIsReloaded
    ShowsTheSearch
PROPERTIES
    ImplementsListView
