SPECIFICATION ClientSpec
CONSTANTS
    REQ_BUF_MAX = 8
    TX_MAX = 4
    ERROR_PAGE = 1
    BOUNDARY <- MCBoundary
    ALPHABET <- NoTokens
    RESPONSES <- OnePage
    MESSAGES <- DashedSections
INVARIANTS
    TransferSupported
