SPECIFICATION Spec
CONSTANTS
    REQ_BUF_MAX = 2
    TX_MAX = 4
    ERROR_PAGE = 1
    BOUNDARY <- MCBoundary
    ALPHABET <- BodyAlphabet
    RESPONSES <- BodyResponses
INVARIANTS
    LengthIsOwnPage
