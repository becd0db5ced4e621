CONSTANTS
    a1 = a1
    v1 = v1
    AudioPubs <- OneAudio
    VideoPubs <- OneVideo
    MaxQueue = 2
SPECIFICATION Spec
PROPERTIES
    EndsInOrder
