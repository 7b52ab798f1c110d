SPECIFICATION Spec

CONSTANTS
    Maps = {m1, m2}
    Keys = {a, b, c}
    Values = {x, y}
    Absent = absent

INVARIANTS
    TypeOK
    IndexPoints

PROPERTIES
    Ordered
