CONSTANTS
    BITS = 3
    BASE = 8
    RADIX = 2
    CHUNK = 4
    Operands <- BorderOperands
    Exponents <- SomeExponents
    MaxAbs = 530
SPECIFICATION Spec
INVARIANTS
    TypeOK
    OneRepresentation
    OrderedAsNumbers
    ReadsBack
    Exact
PROPERTIES
    ComputesNumbers
CHECK_DEADLOCK FALSE
