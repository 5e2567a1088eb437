SPECIFICATION Spec
CONSTANTS
    Configurations <- MCConfigurations
    Documents <- MCDocuments
    KindOf <- MCKindOf
    Unloaded <- MCUnloaded
    Elsewhere <- MCElsewhere
    MaxElsewhere = 1
    None = None
    Undefined = Undefined
\* One request is asked.
CHECK_DEADLOCK FALSE
INVARIANTS
    ExportIsWhole
    ImportIsApplied
    UndefinedWhen
PROPERTIES
    EveryoneIsAnswered
