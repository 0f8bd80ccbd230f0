SPECIFICATION FairSpec
CONSTANTS
    Callers = {c1, c2}
    Files = {f1}
    Terminal = Terminal
    NoFile = NoFile
    ExitCodes = {0, 127}
    Signals = {9}
    Pids = {1, 2}
    NoChild = NoChild
    MaxFds = 2
INVARIANTS
    TypeOK
    ChildrenAccounted
PROPERTIES
    LoneCallsAreExact
    CallsReturn
