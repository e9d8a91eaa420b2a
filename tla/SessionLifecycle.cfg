\* Two sessions and two tasks: the last task of one session meets the
\* deletion and the traffic of the other.
CONSTANTS
    Sessions = {s1, s2}
    Tasks = {t1, t2}
    NoSession = none
    Main = main
    MaxMessages = 1
SPECIFICATION FairSpec
INVARIANTS
    RefCountExact
    SessionOutlivesTasks
    OpenSessionConnected
    ClosedSessionSilent
PROPERTIES
    DisconnectedSessionFreed
    MessageSent
\* All sessions may be gone.
CHECK_DEADLOCK FALSE
