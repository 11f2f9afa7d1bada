SPECIFICATION Spec
CONSTANTS
    PIXELS = 3
    MOVES <- MCMoves
    MAX_MOVES = 2
INVARIANTS
    FlagHeld
    MotionAdded
    PictureWhole
PROPERTIES
    Attended
