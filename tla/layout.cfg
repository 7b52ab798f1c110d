SPECIFICATION Spec

CONSTANTS
    Unit = 4
    MaxWidth = 18
    MaxOpen = 3

INVARIANTS
    TypeOK
    DepthIsWidth
    Balanced

PROPERTIES
    BlocksBetweenLines
