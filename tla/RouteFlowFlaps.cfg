\* Every machine registers, then a datapath comes, goes and comes back, and a mapped machine too.
SPECIFICATION SystemSpec
CONSTANTS
    v1 = v1
    v2 = v2
    d1 = d1
    d2 = d2
    sw = sw
    r1 = r1
    r2 = r2
    r3 = r3
    VmPort = {v1, v2}
    DpPort = {d1, d2}
    Dp = {sw}
    VsPort = {s1, s2, s3}
    Doc = {r1, r2, r3}
    NULL = NULL
    DpOf <- OneSwitch
    Config <- TwoPairs
    MaxQueue = 8
    MaxVmStops = 1
    MaxDpDowns = 1
    SwitchesLast = TRUE
    OneAtATime = FALSE
    StopsMapped = TRUE
INVARIANTS
    RightPorts
    Agreement
PROPERTY
    MappedUnlessDuplicated
ACTION_CONSTRAINT InOrder
CHECK_DEADLOCK FALSE
