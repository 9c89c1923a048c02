\* A route within another.
SPECIFICATION FlowSpec
CONSTANTS
    v1 = v1
    v2 = v2
    v3 = v3
    d1 = d1
    d2 = d2
    d3 = d3
    s1 = s1
    s2 = s2
    s3 = s3
    net = net
    host = host
    other = other
    dp0 = dp0
    VmPort = {v1, v2}
    DpPort = {d1, d2}
    Dp = {dp0}
    VsPort = {s1, s2}
    Doc = {r1, r2}
    NULL = NULL
    DpOf <- TwoPorts
    Config <- TwoPairs
    AttachedAt <- TwoAttached
    IP = IP
    DefaultPriority = DefaultPriority
    Permanent = Permanent
    Route <- WithinNet
    Covers <- Nested
    Protocols <- Rip
    ProtocolMatch <- Matches
    MaxQueue = 3
    MaxLeaves = 0
    OneAtATime = TRUE
    RoutesLast = TRUE
INVARIANT
    RoutesInstalled
