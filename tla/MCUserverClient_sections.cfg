SPECIFICATION ClientSpec
CONSTANTS
    REQ_BUF_MAX = 6
    TX_MAX = 4
    ERROR_PAGE = 1
    BOUNDARY <- MCBoundary
    ALPHABET <- NoTokens
    RESPONSES <- OnePage
    MESSAGES <- GoodSections
INVARIANTS
    ServedAsSent
    NeverAhead
