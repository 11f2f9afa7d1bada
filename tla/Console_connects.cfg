SPECIFICATION Spec
CONSTANTS
    IOSTD = 0
    PORTS = {1}
    PREEMPTS = {1}
    CLI_BUF_LEN = 2
    MAX_BURST = 2
INVARIANTS
    Connects
