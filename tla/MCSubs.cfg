SPECIFICATION SubsSpec
CONSTANTS
    u = u
    v = v
    s = s
    bad = bad
    Urls = {u, v, s, bad}
    Static = {s}
    Broken = {bad}
    DesiredSets <- MCDesired
    Reconcilers = {r1, r2}
    MaxEvents = 2
CHECK_DEADLOCK FALSE
INVARIANTS
    SubsTypeOK
    NeverListedStays
PROPERTIES
    StoreStaysOnDisk
    ReconcileConverges
    AppliedConverges
