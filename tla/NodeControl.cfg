SPECIFICATION Spec
CONSTANTS
    Requests = {r1, r2, r3}
    Names = {"a", "monitor"}
    Plugins = {"p", "single"}
    Loaded = {"p", "single"}
    Single = {"single"}
    Refused = {"bad"}
    Settings = {"good", "bad"}
    None = None
\* Every request is asked once, and an aborted process does nothing.
CHECK_DEADLOCK FALSE
INVARIANTS
    LifecycleAgrees
    AddedOnce
    AnsweredOnce
    OnlyRequestsAbort
PROPERTIES
    EveryoneIsAnswered
