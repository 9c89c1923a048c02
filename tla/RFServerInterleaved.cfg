\* The two threads interleave freely and the process may restart.
SPECIFICATION Spec
CONSTANTS
    v1 = v1
    v2 = v2
    d1 = d1
    d2 = d2
    sw = sw
    VmPort = {v1, v2}
    DpPort = {d1, d2}
    Dp = {sw}
    VsPort = {s1}
    Doc = {r1, r2, r3}
    NULL = NULL
    DpOf <- OneSwitch
    Config <- TwoPairs
INVARIANTS
    TypeOK
    AssociationsFollowConfig
PROPERTIES
    Lifecycle
SYMMETRY Documents
