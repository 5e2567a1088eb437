SPECIFICATION Spec
CONSTANTS
    b1 = b1
    t1 = t1
    io1 = io1
    Block <- OneBlock
    NoBlock <- OneNoBlock
    Ios <- OneIo
    Nothing = nothing
INVARIANT
    RemovedTimerIsUnused
CHECK_DEADLOCK FALSE
