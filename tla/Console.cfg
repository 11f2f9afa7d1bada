SPECIFICATION Spec
CONSTANTS
    IOSTD = 0
    PORTS = {1, 2}
    PREEMPTS = {1}
    CLI_BUF_LEN = 3
    MAX_BURST = 2
INVARIANTS
    CallbacksHeld
    LineAsTyped
    PipeCarries
    StarsEnd
PROPERTIES
    LineAnswered
