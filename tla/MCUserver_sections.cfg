SPECIFICATION Spec
CONSTANTS
    REQ_BUF_MAX = 3
    TX_MAX = 4
    ERROR_PAGE = 1
    BOUNDARY <- MCBoundary
    ALPHABET <- SectionAlphabet
    RESPONSES <- OnePage
INVARIANTS
    BufferTerminated
    SectionConserved
    DelimiterFound
PROPERTIES
    SectionEndsAtDelimiter
