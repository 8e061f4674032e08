SPECIFICATION SubsSpec
CONSTANTS
    u = u
    v = v
    s = s
    bad = bad
    Urls = {u, v, s, bad}
    Static = {s}
    Broken = {bad}
    DesiredSets <- MCDesired
    Reconcilers = {r1}
    MaxEvents = 2
CHECK_DEADLOCK FALSE
INVARIANT
    StartsAgain
