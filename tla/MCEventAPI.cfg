SPECIFICATION Spec
CONSTANTS
    Names = {m, n}
    Receivers = {r, s}
    MaxDeferred = 3
    MaxNested = 2
SYMMETRY Symmetry
INVARIANTS
    TypeOK
    RefExact
PROPERTIES
    ImplementsSpec
