SPECIFICATION Spec
CONSTANTS
    FrameSize = 3
    MaxLength = 14
    HeaderSize = 2
    Recordings <- MCRecordings
PROPERTIES
    AudioIsContinuous
