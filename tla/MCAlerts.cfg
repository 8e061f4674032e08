SPECIFICATION PipeSpec
CONSTANTS
    Ids = {p}
    NodeIds = {p}
    Targets = {t1, t2}
    Emitters = {e1}
    Mids = {1, 2, 3}
    Events = {"quiet", "flap"}
INVARIANTS
    AlertsPointHome
    NoOutageMessageForOnline
    NoOrphanMessage
PROPERTIES
    RecoveredIsCleaned
    BoardRefinement
