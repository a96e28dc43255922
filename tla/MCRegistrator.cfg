SPECIFICATION Spec
CONSTANTS
    Objects = {a, b, c}
    None = None
    Priorities = {0, 1, 3}
    Capture = 3
    MaxEntries = 5
SYMMETRY Symmetry
INVARIANTS
    TypeOK
    OutOfOrderIsMarked
PROPERTIES
    ImplementsSpec
