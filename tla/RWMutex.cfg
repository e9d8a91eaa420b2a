\* Four threads, of which one nests its reads: a late reader
\* needs a writer to wait for and a second writer to meet.
CONSTANTS
    Threads = {t1, t2, t3, t4}
    Nesters = {t1}
SPECIFICATION FairMutexSpec
INVARIANTS
    ExclusionUnlessLate
    WritersInOrder
    NoLostWakeup
PROPERTIES
    WriterEnters
\* A reader may block itself and everybody else.
CHECK_DEADLOCK FALSE
