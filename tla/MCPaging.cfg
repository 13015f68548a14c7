SPECIFICATION Spec
CONSTANTS
    PAGE_ENTRY_COUNT = 4
    Memory = 5
    Kernel = 2
INVARIANTS
    TypeOK
    CodeStays
    UserApart
    NothingStale
