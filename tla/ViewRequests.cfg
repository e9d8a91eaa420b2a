CONSTANTS
    Tasks = {t1, t2, t3}
    MaxRequests = 3
    MaxOpens = 2
SPECIFICATION FairViewSpec
INVARIANTS
    ViewTypeOK
    RequestHasTask
PROPERTIES
    QueuesKeepLatest
    LatestChannelShown
CHECK_DEADLOCK FALSE
