\* Three workers and three tasks: one worker each may be busy, asleep and on its
\* way to the queue, and a task may be queued by another one.
CONSTANTS
    Workers = {w1, w2, w3}
    Tasks = {t1, t2, t3}
    NoTask = none
SPECIFICATION FairSpec
INVARIANTS
    WorkConserving
PROPERTIES
    ImplementsTaskService
    QueuedTaskRuns
    QuietExitCompletes
\* The process ends.
CHECK_DEADLOCK FALSE
