SPECIFICATION FairSpec
CONSTANTS
    MaxAccepts = 2
    MaxFds = 2
    MaxParts = 1
    Expiries = {x1}
    Tids = {t1, t2}
    Signals = {SIGINT, SIGTERM}
    Nobody = Nobody
INVARIANTS
    TypeOK
    PacketsContiguous
    ReplyEndsWithOwnLine
    WorkersGoneBeforeCleanup
    MutexHolderInside
    OnlyResetsLeaveDescriptors
PROPERTIES
    ServesAtomically
    RunsAsInstance
    ReleaseCompletes
    InterruptedAcceptEnds
    FailedAcceptRecovers
    SignalEndsSpinning
CHECK_DEADLOCK FALSE
