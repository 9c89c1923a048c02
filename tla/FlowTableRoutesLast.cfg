\* Routes announced once all ports are mapped; prefixes are disjoint.
SPECIFICATION FlowSpec
CONSTANTS
    v1 = v1
    v2 = v2
    v3 = v3
    d1 = d1
    d2 = d2
    d3 = d3
    s1 = s1
    s2 = s2
    s3 = s3
    net = net
    host = host
    other = other
    dp0 = dp0
    VmPort = {v1, v2, v3}
    DpPort = {d1, d2, d3}
    Dp = {dp0}
    VsPort = {s1, s2, s3}
    Doc = {r1, r2, r3}
    NULL = NULL
    DpOf <- ThreePorts
    Config <- ThreePairs
    AttachedAt <- ThreeAttached
    IP = IP
    DefaultPriority = DefaultPriority
    Permanent = Permanent
    Route <- Disjoint
    Covers <- Nested
    Protocols <- Rip
    ProtocolMatch <- Matches
    MaxQueue = 3
    MaxLeaves = 1
    OneAtATime = FALSE
    RoutesLast = TRUE
INVARIANTS
    RoutesInstalled
    NoWithdrawnFlows
PROPERTY
    EventuallyInstalled
