\* Three switches in a row join and leave in any order; rfserver dies once;
\* a RouteMod is handled at any time.
SPECIFICATION RoutesSpec
CONSTANTS
    a = a
    b = b
    b2 = b2
    c = c
    pa = pa
    pb = pb
    pc = pc
    A = A
    B = B
    C = C
    xa = xa
    xb = xb
    xc = xc
    End = {a, b, b2, c}
    DpPort = {pa, pb, pc}
    Dp = {A, B, C}
    Doc = {r1, r2, r3, r4, r5, r6, r7, r8, r9, r10, r11, r12, r13, r14, r15, r16, r17, r18, r19, r20, r21, r22}
    NULL = NULL
    PortOf <- ChainPorts
    DpOf <- ChainDps
    IslConfig <- Chain
    MaxJoins = 4
    MaxCrashes = 1
    External <- ChainExternal
    Output = {xb}
    FirstJoins = 3
    MaxRoutes = 1
INVARIANTS
    IslFollowsConfig
    ActiveIsUp
    LinkedBothWays
    OneEntryEach
    CrossesConfiguredLinks
    HalvesMeet
CHECK_DEADLOCK FALSE
