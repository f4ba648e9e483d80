SPECIFICATION FairSpec
CONSTANTS
    a = a
    b = b
    Recipe = {a, b}
    MaxBacklog = 1
INVARIANTS
    ShowsFavorites
    LabelAndCountRenewed
PROPERTIES
    ImplementsListView
    OnlyTheSyncMixes
