CONSTANTS
    actor = actor
    car = car
    box = box
    NULL = NULL
    Objects = {actor, car, box}
    Owners = {}
    Items = {}
    Shells = {car, box}
    Drivers = {actor}
    Cars = {car}
    Zones = {}
    Modes = {"crows"}
    mtPhysics = FALSE
    MaxActive = 255
    MaxCounter = 2
SPECIFICATION Spec
INVARIANTS Told
CHECK_DEADLOCK FALSE
