CONSTANTS
    t1 = t1
    t2 = t2
    bad = bad
    r1 = r1
    r2 = r2
    r3 = r3
    Tags <- MCTags
    Invalid <- MCInvalid
    Lists <- MCLists
    Reqs <- MCReqs
    Single <- MCSingle
    Wants <- MCWants
    None = None
    Changes = 4
SPECIFICATION Spec
INVARIANTS
    ServedInOrder
    AnsweredOnce
    CountsAgree
PROPERTIES
    QueuedIsWritten
\* The driver may be uninitialised, or the process die.
CHECK_DEADLOCK FALSE
