SPECIFICATION DFairSpec
CONSTANT
    Bodies <- MCBodies
INVARIANTS
    DTypeOK
    AnsweredOnce
    TimeoutOrError
    LengthIsWhole
    LateTrafficOnlyFromResolve
    NothingLostOrDoubled
    CleanIsInFile
    EndOfChunks
    OneLateCall
PROPERTIES
    AnswerComes
