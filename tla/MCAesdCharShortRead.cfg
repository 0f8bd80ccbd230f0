SPECIFICATION Spec
CONSTANTS
    ENTRY_SIZE = 2
    Procs = {p1}
    NoProc = NoProc
    Counts = {1, 2}
    MaxAllocs = 2
INVARIANTS
    ReadStartsAtFpos
