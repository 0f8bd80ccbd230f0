SPECIFICATION FairSpec
CONSTANTS
    Threads = {t1, t2, t3}
    Mutexes = {m1}
    Blocks = {b1, b2, b3}
    NULL = NULL
    Nobody = Nobody
    Caller = Caller
INVARIANTS
    TypeOK
    BlocksAccounted
    
PROPERTIES
    ThreadsReturn
CHECK_DEADLOCK FALSE
