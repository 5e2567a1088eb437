SPECIFICATION Spec
CONSTANTS
    a = a
    g1 = g1
    g2 = g2
    v1 = v1
    v2 = v2
    Error = error
    None = none
    Tags <- OneTag
    Names <- TwoNames
    Values <- TwoValues
    Attrs <- MCAttrs
    Near <- NoPairs
    Bytes <- NoTags_
    Float <- NoTags_
    Rounded <- NoTags_
SYMMETRY Alike
INVARIANTS
    ChangeIsTaken
    GroupIsCached
    EntriesAreOwned
    UnmarkedIsHeard
