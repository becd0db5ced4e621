CONSTANTS
    m1 = m1
    f1 = f1
    f2 = f2
    mix = mix
    cam = cam
    mic = mic
    MixedSubs <- OneMixed
    ForwardSubs <- OneForward
    Streams <- MixAndCamera
    Kind <- MCKind
    MaxQueue = 2
SPECIFICATION Spec
INVARIANTS
    ObserversAreTracked
    EndIsHeard
    OnlyErrorsAbandon
    HandlerToldOnce
    CountsRemovals
    SubInv
PROPERTIES
    TracksAndReleases
