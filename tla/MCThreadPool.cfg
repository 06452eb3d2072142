\* Three pool threads, two submitting threads, three submissions of which two
\* copy their argument.  Every creation may fail, so the system may stop.
CONSTANTS
    w1 = w1
    w2 = w2
    w3 = w3
    s1 = s1
    s2 = s2
    t1 = t1
    t2 = t2
    t3 = t3
    Worker = {w1, w2, w3}
    Submitter = {s1, s2}
    Task = {t1, t2, t3}
    CopiedArg = {t1, t2}
    NoTask = NoTask
    NoOne = NoOne
    Creator = Creator
SPECIFICATION FairSpec
INVARIANTS
    TaskCountExact
    NoLostWakeup
    ArgMemoryExact
PROPERTIES
    ImplementsTaskPool
    TasksServed
CHECK_DEADLOCK FALSE
