SPECIFICATION BenchSpec
CONSTANTS
    LAST = 7
    MAX_TASKS = 2
    SIZE = 3
    MEMORY = 4
    FRAMES = 3
    TOP = 24
    BOTTOM = 310
    WINDOW = 3
    BUF_LEN = 7
    SAMPLES = {0, 1, 3}
    YIN_ACC = 32
    CHARS <- MCChars
    MAX_STR = 3
    MAX_NUM = 10
INVARIANTS
    EachOnce
    OneFrame
    Disarmed
    FrameKept
    SumsKept
    DecodesBack
PROPERTIES
    BootloaderAsked
    BootloaderRuns
    SnapshotSent
