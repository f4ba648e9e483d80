SPECIFICATION ProfileSpec
CONSTANTS
    c1 = c1
    c2 = c2
    Calls <- TwoCalls
    NoCheck = NoCheck
    MaxForms = 2
    MaxSessions = 2
    MaxBacklog = 1
SYMMETRY Alike
INVARIANTS
    ProfileTypeOK
    PairOrder
    DroppedByItsOwnCheck
    StrandedOnlyByProfile
    ShowsTheStoredAccount
PROPERTIES
    ImplementsRoots
