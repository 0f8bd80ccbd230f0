SPECIFICATION Spec
CONSTANTS
    ENTRY_SIZE = 3
    Sizes = {0, 1, 2}
    Positions = {0, 1, 2, 3, 4, 5, 6}
    MaxAdds = 7
INVARIANTS
    TypeOK
    IndicesConsistent
    ReturnedIsGone
    FindMatchesConcatenation
PROPERTIES
    RefinesRecentEntries
