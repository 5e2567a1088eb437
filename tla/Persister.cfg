SPECIFICATION Spec
CONSTANTS
    Files <- MCFiles
    Version <- MCVersion
    Statements <- MCStatements
    Releases <- MCReleases
    ValueFile = "tag_value"
    Nodes = {"d", "m"}
    Monitor = {"m"}
    Tags = {"x", "bad"}
    Rejected = {"bad"}
    TagLists <- MCTagLists
    Settings = {"s"}
    Lists = {"l"}
    Calls = 3
    Crashes = 2
    None = None
\* A process that is killed often enough, and a database whose head is dirty,
\* stay as they are.
CHECK_DEADLOCK FALSE
INVARIANTS
    SchemaIsWhole
    StoredIsKept
    CountsAgree
    PluginsAreWhole
