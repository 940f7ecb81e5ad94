CONSTANTS
    Clients = {c1, c2}
    c1 = c1
    c2 = c2
    Keys = {k1, k2}
    Values = {v0, v1, v2}
    v0 = v0
    v1 = v1
    v2 = v2
    Absent = Absent
    Hole = Hole
    TheKey = k1
    ValueOf <- MCValueOf
    MaxCalls = 3
    Owners = {"first", "second"}
    Items = {i1}
    LabelKeys = {"app", "team"}
    LabelValues = {"a", "b", "app"}
    Setups <- MCSetups
    Tenants = {"first", "second"}
    Stacks <- MCStacks
    Names <- MCNames
    MaxEntries = 2
SPECIFICATION MCSpec
INVARIANTS NothingMixedUp
PROPERTIES ImplementsKeyValue CreateKeeps ReadsSound
CHECK_DEADLOCK FALSE
