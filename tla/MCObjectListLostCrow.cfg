CONSTANTS
    corpse = corpse
    box = box
    NULL = NULL
    Objects = {corpse, box}
    Owners = {}
    Items = {}
    Shells = {corpse, box}
    Drivers = {}
    Cars = {}
    Zones = {}
    Modes = {"crows"}
    mtPhysics = TRUE
    MaxActive = 255
    MaxCounter = 2
SPECIFICATION FairSpec
PROPERTIES UpdatedAgain
