SPECIFICATION ClientSpec
CONSTANTS
    REQ_BUF_MAX = 3
    TX_MAX = 4
    ERROR_PAGE = 1
    BOUNDARY <- MCBoundary
    ALPHABET <- NoTokens
    RESPONSES <- OnePage
    MESSAGES <- GoodBodies
INVARIANTS
    ServedAsSent
PROPERTIES
    Consumed
