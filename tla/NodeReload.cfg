SPECIFICATION FairSpec
CONSTANTS
    n1 = n1
    n2 = n2
    Nodes <- MixedRows
    NoPlugin <- Skipped
    UnknownNode = unknown
    MaxVersion = 2
    MaxQueue = 1
INVARIANTS
    AckedIsApplied
    SettingIsAccepted
    MatterStopsFirst
PROPERTIES
    ImplementsDelivery
    PushIsAnswered
    LoadingEnds
