\* One worker and one task are enough for an exit that never ends.
CONSTANTS
    Workers = {w1}
    Tasks = {t1}
    NoTask = none
SPECIFICATION FairSpec
PROPERTY ExitCompletes
CHECK_DEADLOCK FALSE
