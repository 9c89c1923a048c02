\* A machine stops while its port is being mapped, and is started again.
SPECIFICATION SystemSpec
CONSTANTS
    v1 = v1
    v2 = v2
    d1 = d1
    d2 = d2
    sw = sw
    r1 = r1
    r2 = r2
    r3 = r3
    VmPort = {v1, v2}
    DpPort = {d1, d2}
    Dp = {sw}
    VsPort = {s1, s2}
    Doc = {r1, r2}
    NULL = NULL
    DpOf <- OneSwitch
    Config <- TwoPairs
    MaxQueue = 8
    MaxVmStops = 1
    MaxDpDowns = 0
    SwitchesLast = TRUE
    OneAtATime = FALSE
    StopsMapped = FALSE
INVARIANT
    RightPorts
CHECK_DEADLOCK FALSE
