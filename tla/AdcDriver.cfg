SPECIFICATION AdcSpec
CONSTANTS
    CHANNELS = {1, 2}
    FREQS = {5}
INVARIANTS
    SetAsLabelled
    TrueLabels
    AnsweredOnce
PROPERTIES
    IdleAgain
    ImplementsService
