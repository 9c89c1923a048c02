\* The handlers never overlap: what each of them promises on its own.
SPECIFICATION SerialSpec
CONSTANTS
    v1 = v1
    v2 = v2
    d1 = d1
    d2 = d2
    sw = sw
    VmPort = {v1, v2}
    DpPort = {d1, d2}
    Dp = {sw}
    VsPort = {s1, s2}
    Doc = {r1, r2, r3, r4}
    NULL = NULL
    DpOf <- OneSwitch
    Config <- TwoPairs
INVARIANTS
    NoMissedAssociation
    AskedAgrees
    TwoPortsConfigured
PROPERTIES
    StrictLifecycle
    RegisteredVmKept
    ImplementsPortAssociation
SYMMETRY Documents
