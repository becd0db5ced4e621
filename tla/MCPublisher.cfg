CONSTANTS
    a1 = a1
    v1 = v1
    AudioPubs <- OneAudio
    VideoPubs <- OneVideo
    MaxQueue = 3
SPECIFICATION FairSpec
INVARIANTS
    TypeOK
    IInv
    ObserversAreTracked
    ForgottenHasEnded
    EndIsHeard
    CountsRemovals
    TasksNeedInfo
    TickerIsAlive
PROPERTIES
    TracksAndReleases
    TestEnds
