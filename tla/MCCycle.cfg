SPECIFICATION CycleSpec
CONSTANTS
    a = a
    b = b
    bad = bad
    Proxies = {a, b, bad}
    Unbuildable = {bad}
    Sets <- MCSets
    Checkers = {c1, c2}
    Reloaders = {r1, r2}
    Faults = {"fetch", "partial", "ip", "file", "stop", "start"}
    MaxStarts = 1
INVARIANTS
    CycleTypeOK
    NoStaleResults
    OneConfiguration
    CacheIsCurrent
PROPERTIES
    NoFalseDowns
    ReloadConverges
