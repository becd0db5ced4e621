CONSTANTS
    m1 = m1
    f1 = f1
    f2 = f2
    mix = mix
    cam = cam
    mic = mic
    MixedSubs <- NoMixed
    ForwardSubs <- OneForward
    Streams <- MixAndMic
    Kind <- MicKind
    MaxQueue = 2
SPECIFICATION Spec
INVARIANTS
    SearchEnds
