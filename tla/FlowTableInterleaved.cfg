\* The two threads of rfserver interleave; rfproxy may die of a message it cannot convert.
SPECIFICATION FlowSpec
CONSTANTS
    v1 = v1
    v2 = v2
    v3 = v3
    d1 = d1
    d2 = d2
    d3 = d3
    s1 = s1
    s2 = s2
    s3 = s3
    net = net
    host = host
    other = other
    dp0 = dp0
    VmPort = {v1, v2}
    DpPort = {d1, d2}
    Dp = {dp0}
    VsPort = {s1, s2}
    Doc = {r1, r2}
    NULL = NULL
    DpOf <- TwoPorts
    Config <- TwoPairs
    AttachedAt <- TwoAttached
    IP = IP
    DefaultPriority = DefaultPriority
    Permanent = Permanent
    Route <- Kinds
    Covers <- Nested
    Protocols <- Rip
    ProtocolMatch <- Matches
    MaxQueue = 2
    MaxLeaves = 1
    OneAtATime = FALSE
    RoutesLast = FALSE
INVARIANTS
    FlowsFollowConfig
    DefaultsInstalled
CHECK_DEADLOCK FALSE
