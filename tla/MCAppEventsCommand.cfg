SPECIFICATION Spec
CONSTANTS
    MaxDeferred = 1
    Requests = {"start", "command"}
    Failures = {}
    Width = 8
CHECK_DEADLOCK FALSE
INVARIANTS
    StartsOnNoLevel
