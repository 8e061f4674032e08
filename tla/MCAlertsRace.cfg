SPECIFICATION PipeSpec
CONSTANTS
    Ids = {p}
    NodeIds = {p}
    Targets = {t1}
    Emitters = {e1, e2}
    Mids = {1, 2, 3}
    Events = {"crash", "api", "save", "remove", "mute"}
INVARIANTS
    PipeTypeOK
    OneOwner
PROPERTY
    ViewConverges
