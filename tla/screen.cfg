SPECIFICATION MCSpec
CONSTANTS
    width = 110
    height = 105
    Word = 65536
    Margin = 3
    Size = 6
    MaxLines = 4
    MaxSlot = 1
    Xs = {0, 1}
    Ys = {0, 1}
    QueueMax = 10
    MaxFrames = 2
    QueueMax1 = 5
    MaxFrames1 = 4
INVARIANTS DrawingIsCut StarIsWhole ImagesShown ExactNames TouchesAreTrue
