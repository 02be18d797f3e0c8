\* Images, the bytes a decoder is fed, and the planes it hands over.
CONSTANTS
    ImageFiles <- MCImageFiles
    Jumps = {0, 1, 3}
    MaxNow = 12
    Clear = Clear
    Nothing = Nothing
    Nals <- MCNals
    ParameterSets <- MCParameterSets
    SampleNals = 3
    Unparsed = Unparsed
    NoBytes = NoBytes
    MaxSide = 5
    ParallelFrom = 9
    MaxThreads = 3
    Paddings = {0, 1}
    NoFrame = NoFrame
SPECIFICATION Spec
INVARIANTS
    PictureRight
    NalsKept
    ReadsInside
CHECK_DEADLOCK FALSE
