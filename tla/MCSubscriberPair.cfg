CONSTANTS
    m1 = m1
    f1 = f1
    f2 = f2
    mix = mix
    cam = cam
    mic = mic
    MixedSubs <- NoMixed
    ForwardSubs <- TwoForward
    Streams <- MixAndCamera
    Kind <- MCKind
    MaxQueue = 2
SPECIFICATION Spec
SYMMETRY Symmetry
INVARIANTS
    RenderersAreOwned
