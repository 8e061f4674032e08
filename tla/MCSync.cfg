SPECIFICATION SyncSpec
CONSTANTS
    Slots = {g1, g2}
    Checks = {"ip", "status"}
    Intervals = {5, 30}
    Urls = {"u1", "u2"}
    Ids = {p}
    Subs = {s1}
    Results = {r1, r2}
    NodeEnv <- MCNodeEnv
    CliEnv <- MCCliEnv
    BotTargets <- MCBotTargets
    MaxEvents = 2
    Attempts = 2
INVARIANTS
    SyncTypeOK
PROPERTIES
    SettingsConverge
    ManagedConverges
    MasterConverges
