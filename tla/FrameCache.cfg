\* The channel task and the animation, a task that prepares data, and every
\* kind of loader.  Two channels suffice for a channel that is left and
\* returned to.
CONSTANTS
    Channels = {c0, c1}
    FirstChannel = c0
    NoData = NoData
    Setters = {s1, s2}
    Workers = {w1}
    Loaders = {"plain", "chunked", "mipmapped"}
SYMMETRY SetterSymmetry
SPECIFICATION Spec
INVARIANTS
    CacheCurrentUnlessLate
    ImageAvailable
    DataOfTheirChannel
PROPERTIES
    StatsOfTheirChannel
