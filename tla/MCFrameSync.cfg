SPECIFICATION LiveSpec
CONSTANTS
    Jobs = {a, b}
    MaxJobs = 3
\* the program ends
CHECK_DEADLOCK FALSE
INVARIANTS
    TypeOK
    DeviceOutlivesThread
PROPERTIES
    ImplementsSpec
    WaitsEnd
