SPECIFICATION RegSpec
CONSTANTS
    a = a
    s = s
    t1 = t1
    t2 = t2
    Names = {a, s}
    Tokens = {t1, t2}
    StaticCfg <- MCStatic
    Handlers = {h1}
    Snaps = {snap}
    NoSnap = NoSnap
    Intervals = {0, 1}
    DefaultInterval = 3
    StaleCap = 1
    StaleGrace = 1
    MaxSilence = 4
    FailingOps = {}
INVARIANT
    LockNeverLost
