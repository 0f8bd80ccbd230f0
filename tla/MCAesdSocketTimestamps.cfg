SPECIFICATION FairSpec
CONSTANTS
    MaxAccepts = 1
    MaxFds = 2
    MaxParts = 1
    Expiries = {x1}
    Tids = {t1}
    Signals = {SIGINT, SIGTERM}
    Nobody = Nobody
PROPERTIES
    TimestampsWritten
CHECK_DEADLOCK FALSE
