SPECIFICATION ProfileFairSpec
CONSTANTS
    c1 = c1
    c2 = c2
    Calls <- TwoCalls
    NoCheck = NoCheck
    MaxForms = 1
    MaxSessions = 1
    MaxBacklog = 1
PROPERTIES
    OnlyRefusalsGoOn
    RefusedShowsLogin
    ProfileSettles
