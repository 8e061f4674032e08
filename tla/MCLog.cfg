SPECIFICATION LogSpec
CONSTANTS
    Proxies = {p}
    Nodes = {n}
    MaxClock = 2
    MaxStarts = 1
    MaxFails = 1
    MaxPerProxy = 2
    MaxGlobal = 3
INVARIANTS
    LogTypeOK
    CurrentOutageIsLogged
    DowntimeFitsTheClock
PROPERTIES
    HistoryIsOwn
