SPECIFICATION PipeSpec
CONSTANTS
    Ids = {p}
    NodeIds = {}
    Targets = {t1}
    Emitters = {e1}
    Mids = {1, 2}
    Events = {"crash"}
INVARIANT
    NoTrackedAlertForOnline
