SPECIFICATION FairSpec
CONSTANTS
    MaxForms = 2
    MaxChecks = 1
    MaxBacklog = 1
INVARIANTS
    TypeOK
    FormsAreFreed
    OverlayCovers
    NoStrayRequest
    TabsKeepTheirCoordinators
PROPERTIES
    OverlayLifts
