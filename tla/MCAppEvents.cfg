SPECIFICATION Spec
CONSTANTS
    MaxDeferred = 6
    Requests <- Paired
    Failures = {"level", "server", "connect", "map"}
    Width = 8
\* the program ends
CHECK_DEADLOCK FALSE
INVARIANTS
    TypeOK
    StartsOnNoLevel
    NoFault
    LoadScreen
    LevelOrMenu
