CONSTANTS
    actor = actor
    car = car
    zone = zone
    NULL = NULL
    Objects = {actor, car, zone}
    Owners = {}
    Items = {}
    Shells = {car}
    Drivers = {actor}
    Cars = {car}
    Zones = {zone}
    Modes = {"crows", "active", "none"}
    mtPhysics = TRUE
    MaxActive = 255
    MaxCounter = 2
SPECIFICATION Spec
INVARIANTS ListsMatchCounters
\* the model stops at a fault
CHECK_DEADLOCK FALSE
