SPECIFICATION Spec
CONSTANTS
    Instances = {i1, i2, i3}
    Nobody = Nobody
    NSEC_PER_SEC = 2
    Seconds = {0}
    Numbers = {1}
    EaiErrors <- Eai
SYMMETRY Symmetry
INVARIANTS
    TypeOK
    OneServer
    TimerTenSecondsLater
    LoneServerKeepsFile
PROPERTIES
    ForegroundSuccessServed
CHECK_DEADLOCK FALSE
