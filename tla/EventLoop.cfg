SPECIFICATION FairSpec
CONSTANTS
    b1 = b1
    t1 = t1
    io1 = io1
    Block <- OneBlock
    NoBlock <- OneNoBlock
    Ios <- OneIo
    Nothing = nothing
INVARIANTS
    RegisteredIsLive
    FreeWaitsForCallback
    AtMostOneLateCallback
    BlockTimerPauses
PROPERTIES
    TimerFires
    OwnerReturns
CHECK_DEADLOCK FALSE
