SPECIFICATION Spec
CONSTANTS
    a = a
    b = b
    i1 = i1
    i2 = i2
    p1 = p1
    p2 = p2
    p3 = p3
    s1 = s1
    s2 = s2
    none = none
    NoRecord = NoRecord
    Free = Free
    Clients = {a, b}
    Instances = {i1, i2}
    InstanceOf <- OneEach
    Sessions = {s1, s2}
    Plans = {p1, p2, p3}
    RedPlans = {}
    QueryOf <- OwnIDs
    EmptyID = none
    Size <- Lengths
    MaxToken = 4
    Ops <- Appenders
    MaxCalls = 4
    MaxSave = 0
    MaxFaults = 0
    MaxCrashes = 0
INVARIANTS
    TypeOK
PROPERTIES
    LoadFinds
    ImplementsPlanLog
CHECK_DEADLOCK FALSE
