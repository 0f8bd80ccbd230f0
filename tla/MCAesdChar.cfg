SPECIFICATION FairSpec
CONSTANTS
    ENTRY_SIZE = 2
    Procs = {p1, p2}
    NoProc = NoProc
    Counts = {1}
    MaxAllocs = 4
INVARIANTS
    TypeOK
    OwnedBlocksLive
PROPERTIES
    DroppedOnlyUnderContention
    ScanSeesStableEntries
    CallsReturn
