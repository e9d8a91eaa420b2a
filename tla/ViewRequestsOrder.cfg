CONSTANTS
    Tasks = {t1, t2}
    MaxRequests = 2
    MaxOpens = 1
SPECIFICATION ViewSpec
PROPERTY ChannelsInOrder
CHECK_DEADLOCK FALSE
