\* Three threads of at most five rounds, two submitters, four tasks.
SPECIFICATION Spec
CONSTANTS
    w1 = w1
    w2 = w2
    w3 = w3
    s1 = s1
    s2 = s2
    t1 = t1
    t2 = t2
    t3 = t3
    t4 = t4
    NoTask = NoTask
    Worker = {w1, w2, w3}
    Submitter = {s1, s2}
    Task = {t1, t2, t3, t4}
    initThreadsCnt = 3
    maxThreadsCnt = 5
INVARIANTS
    PoolFull
    WakeupsSuffice
PROPERTIES
    ImplementsTaskPool
\* all tasks are done and every thread waits
CHECK_DEADLOCK FALSE
