SPECIFICATION ReportsSpec
CONSTANTS
    Callbacks = {c1}
    Hosts = {h}
    Local = {h}
    Chats = {t}
    Mids = {1, 2, 3, 4, 5}
    MaxEvents = 3
INVARIANTS
    ReportsTypeOK
    TrackedStands
PROPERTIES
    HealthConverges
    BlockAnnounced
    BlockCleared
