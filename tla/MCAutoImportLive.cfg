SPECIFICATION Spec
CONSTANTS
    api = api  events = events  a1 = a1  e1 = e1  live = live
    Plan = {api, events}
    Before <- MCBefore
    Requests = api
    Archive <- MCArchive
    Live = live
    PurgeDays = 1
    MaxIds = 2
    MaxDay = 1
    MaxCrashes = 0
    MaxErrors = 1
    MaxJumps = 0
PROPERTY NoLiveRowPurged
CHECK_DEADLOCK FALSE
