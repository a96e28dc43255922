SPECIFICATION FairSpec
CONSTANTS
    Objects = {o1, o2}
    None = None
    Intervals <- MCIntervals
    Deltas <- MCDeltas
    Longest <- MCLongest
    CheckPeriod = 1
    MaxQueue = 2
    MaxItems = 2
    MaxAge = 2
INVARIANTS TypeOK AtMostOneEntry ElapsedTold
PROPERTIES ImplementsSpec
    NoStarvation
