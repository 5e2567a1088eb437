SPECIFICATION FairSpec
CONSTANTS
    s1 = s1
    d1 = d1
    d2 = d2
    dx = dx
    a1 = a1
    a2 = a2
    Broker = broker
    Rows <- SixRows
    Drivers <- TwoDrivers
    Apps <- TwoApps
    NoPlugin <- Missing
    MaxSent = 2
INVARIANTS
    HeardOnce
PROPERTY
    RowsAreReached
CHECK_DEADLOCK FALSE
