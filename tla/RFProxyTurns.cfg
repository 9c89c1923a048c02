\* The table's operations one at a time.
SPECIFICATION TurnsSpec
CONSTANTS
    d1 = d1
    d2 = d2
    d3 = d3
    x1 = x1
    x2 = x2
    VmPort = {v1}
    DpPort = {d1, d2, d3}
    Dp = {x1, x2}
    VsPort = {s1, s2}
    NULL = NULL
    DpOf <- TwoSwitches
    MaxQueue = 1
INVARIANTS
    ProxyTypeOK
    RoundTrip
    StaysForgotten
PROPERTY
    DeletedVsPortUnused
SYMMETRY VsPorts
