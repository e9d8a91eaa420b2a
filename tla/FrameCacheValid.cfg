\* One task that changes the channel, one that makes contours.
CONSTANTS
    Channels = {c0, c1}
    FirstChannel = c0
    NoData = NoData
    Setters = {s1}
    Workers = {w1}
    Loaders = {"plain"}
SPECIFICATION Spec
INVARIANT ValidCacheIsCurrent
