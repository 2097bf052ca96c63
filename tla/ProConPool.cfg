SPECIFICATION FairSpec
CONSTANTS
    Threads = {t1, t2, t3}
    Values = {a, b}
    MaxBatch = 2
    MaxItems = 2
    None = None
CHECK_DEADLOCK FALSE
INVARIANTS TypeOK TokenOK NoEmptyRemove
PROPERTIES FifoSpec WaitersServed
