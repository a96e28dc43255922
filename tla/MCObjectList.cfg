CONSTANTS
    corpse = corpse
    artefact = artefact
    NULL = NULL
    Objects = {corpse, artefact}
    Owners = {corpse}
    Items = {artefact}
    Shells = {artefact, corpse}
    Drivers = {}
    Cars = {}
    Zones = {}
    Modes = {"crows", "active", "none"}
    mtPhysics = FALSE
    MaxActive = 255
    MaxCounter = 3
SPECIFICATION FairSpec
INVARIANTS TypeOK NoDangling Told ParentsLive CrowListed
PROPERTIES UpdatedAgain
