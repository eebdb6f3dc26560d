\* An element with a content is closed.
\* Two sub processes and six or eight free descriptors; heaps of six blocks; three
\* groups, two callouts; texts of up to 50 characters; up to two arguments.
CONSTANTS
    Proc = {1, 2}
    Free = Free
    DescriptorLimits = {10, 12}
    PipeSize = 1
    MaxBytes <- OneByteEach
    Block = {1, 2, 3, 4, 5, 6}
    Val_unit = Val_unit
    BITS_OF_CHAR = 2
    SizeofInt = 2
    COLORS_INIT_COUNT = 2
    BITS_FOR_COUNT = 1
    BITS_FOR_ORDER = 2
    NULL = NULL
    MaxCaptures = 2
    SubjectLen = 3
    MaxCallouts = 2
    NUL = NUL
    FirstPiece = 2
    Byte <- CommandChars
    NoArgs = NoArgs
    Lines <- CommandLines
\* A call that has returned is not made again, and a program may wait for ever.
CHECK_DEADLOCK FALSE
SPECIFICATION CallsSpec
INVARIANT DoneCloses
