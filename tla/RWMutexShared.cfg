\* A writer, a reader that waits for it and a second writer.
CONSTANTS
    Threads = {t1, t2, t3}
    Nesters = {}
SPECIFICATION MutexSpec
INVARIANT Exclusion
