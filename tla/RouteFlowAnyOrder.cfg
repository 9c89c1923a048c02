\* Machines and datapaths come in any order; rfserver handles one message at a time.
SPECIFICATION SystemSpec
CONSTANTS
    v1 = v1
    v2 = v2
    d1 = d1
    d2 = d2
    sw = sw
    r1 = r1
    r2 = r2
    r3 = r3
    VmPort = {v1, v2}
    DpPort = {d1, d2}
    Dp = {sw}
    VsPort = {s1, s2}
    Doc = {r1, r2, r3, r4}
    NULL = NULL
    DpOf <- OneSwitch
    Config <- TwoPairs
    MaxQueue = 8
    MaxVmStops = 0
    MaxDpDowns = 1
    SwitchesLast = FALSE
    OneAtATime = TRUE
    StopsMapped = FALSE
INVARIANTS
    RightPorts
    Agreement
    OneDocumentEach
PROPERTY
    EventuallyMapped
CHECK_DEADLOCK FALSE
