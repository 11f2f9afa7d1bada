SPECIFICATION PageSpec
CONSTANTS
    FREQS = {0, 5}
    PAIRS = 4
    CHUNK = 2
    MAX_SAMPLES = 9
INVARIANTS
    SidesKept
    SlotKept
    BothComplete
PROPERTIES
    AsAsked
    PageEnds
