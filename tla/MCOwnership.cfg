SPECIFICATION Spec
CONSTANTS
    actor = actor
    stalker = stalker
    medkit = medkit
    gun = gun
    NULL = NULL
    Actors = {actor}
    Stalkers = {stalker}
    Items = {gun, medkit}
    Refuses <- MCRefuses
    BlockCount = 2
    tBlockSize = 3
    MaxPending = 2
INVARIANTS TypeOK ServerTree Reachable OfflineIsGone OnlyCrossedFault
PROPERTIES ImplementsMirror
\* the model stops at a fault
CHECK_DEADLOCK FALSE
