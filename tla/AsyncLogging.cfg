SPECIFICATION MCSpec
CONSTANTS
    Lens = {1, 2}
    BufferSize = 4
    FileMaximum = 5
    NamedFile = FALSE
    MaxLines = 7
    NoBuffer = NoBuffer
    Size = 16
    NumericSize = 5
    HeadLen = 3
    TailLen = 2
    Texts = {1, 3, 20}
    Ints <- MCInts
CHECK_DEADLOCK FALSE
INVARIANTS
    TypeOK
    LinesInOrder
    BuffersReady
    FileBounded
    LineIsSound
PROPERTY BackEndServes
