SPECIFICATION CycleSpec
CONSTANTS
    a = a
    b = b
    bad = bad
    Proxies = {a, b, bad}
    Unbuildable = {}
    Sets <- MCSets
    Checkers = {c1}
    Reloaders = {r1}
    Faults = {"start"}
    MaxStarts = 0
PROPERTY
    XrayComesBack
