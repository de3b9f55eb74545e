SPECIFICATION Spec
CONSTANTS
    Frames <- MCFrames
    Noise <- MCNoise
    RxSize = 5
    MaxSend = 2
    MaxNoise = 2
INVARIANTS
    RxBounded
    CleanFramesArrive
CHECK_DEADLOCK FALSE
