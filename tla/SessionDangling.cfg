\* One session and one task are enough to use a Session after its deletion.
CONSTANTS
    Sessions = {s1}
    Tasks = {t1}
    NoSession = none
    Main = main
    MaxMessages = 1
SPECIFICATION Spec
INVARIANT NoDanglingSession
CHECK_DEADLOCK FALSE
