SPECIFICATION Spec
CONSTANTS
    Bodies <- MCBodies
    Strays <- MCStrays
    Passed <- MCPassed
    PluginCode = "plugin"
    None = None
    Undefined = Undefined
\* One request is asked.
CHECK_DEADLOCK FALSE
INVARIANTS
    RoundTrip
    AnsweredOnce
    
    OnlyPluginCodesAbort
PROPERTIES
    EveryoneIsAnswered
