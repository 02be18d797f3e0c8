SPECIFICATION LiveSpec

CONSTANTS
    Frames = 3
    Step = 2
    DropLate = 1
    IdleAfter = 3
    DecodeTime = 1
    MaxSlack = 4
    MaxLag = 5

PROPERTIES
    ErrorShown
