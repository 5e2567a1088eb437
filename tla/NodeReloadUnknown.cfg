SPECIFICATION Spec
CONSTANTS
    n1 = n1
    n2 = n2
    Nodes <- OneRow
    NoPlugin <- NoneSkipped
    UnknownNode = unknown
    MaxVersion = 1
    MaxQueue = 1
PROPERTY UnknownNodeIsAnswered
