SPECIFICATION FairSpec
CONSTANTS
    MaxAccepts = 0
    MaxFds = 2
    MaxParts = 0
    Expiries = {x1}
    Tids = {t1}
    Signals = {SIGINT, SIGTERM}
    Nobody = Nobody
PROPERTIES
    GracefulExit
CHECK_DEADLOCK FALSE
