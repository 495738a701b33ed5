SPECIFICATION Spec
CONSTANTS
    api = api  events = events  a1 = a1  e1 = e1  live = live
    Plan = {api, events}
    Before <- MCBefore
    Requests = api
    Archive <- MCArchive
    Live = live
    PurgeDays = 1
    MaxIds = 3
    MaxDay = 1
    MaxCrashes = 1
    MaxErrors = 1
    MaxJumps = 1
INVARIANTS AutoRowsTracked PurgedLeavesNoImport StaleTotalsAreRetried
PROPERTY PurgeSparesOthers
CHECK_DEADLOCK FALSE
