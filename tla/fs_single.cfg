SPECIFICATION Spec
CONSTANTS
    a = a
    b = b
    i1 = i1
    i2 = i2
    p1 = p1
    p2 = p2
    p3 = p3
    s1 = s1
    s2 = s2
    none = none
    NoRecord = NoRecord
    Free = Free
    Clients = {a}
    Instances = {i1}
    InstanceOf <- Alone
    Sessions = {s1, s2, none}
    Plans = {p1, p2, p3}
    RedPlans = {p3}
    QueryOf <- OwnIDs
    EmptyID = none
    Size <- Lengths
    MaxToken = 4
    Ops <- Everything
    MaxCalls = 5
    MaxSave = 2
    MaxFaults = 0
    MaxCrashes = 0
INVARIANTS
    LiveKept
    GoneStaysGone
    RedNeverStored
PROPERTIES
    ImplementsPlanLog
    SaveReplaces
CHECK_DEADLOCK FALSE
