CONSTANTS
    Clients = {c1, c2}
    c1 = c1
    c2 = c2
    Hosts = {h1, h2}
    h1 = h1
    h2 = h2
    HostOf <- MCHostOf
    Keys = {k1}
    k1 = k1
    Values = {v, misnamed, invalid}
    v = v
    misnamed = misnamed
    invalid = invalid
    Absent = Absent
    NameOf <- MCNameOf
    Invalid = {invalid}
    UseLabels = TRUE
    Attempts = 2
    Trip = 2
    MaxFaults = 2
    MaxCalls = 2
    Inputs <- MCInputs
SPECIFICATION Spec
INVARIANTS AnswerHonest PanicsOnlyUnsent
CHECK_DEADLOCK FALSE
