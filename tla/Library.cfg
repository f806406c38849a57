CONSTANTS
    Bytes = {0, 1}
    Sizes = {1, 2, 3}
    MaxLen = 3
    Word = 8
    EncBytes = {0, 1, 127, 128, 255}
    EncChars = {0, 17, 63, 64, 65, 66, 67}
    UtfBytes = {0, 127, 128, 143, 144, 159, 160, 191, 193, 194, 224, 237, 239, 240, 244, 245, 255}
    EncBound <- Lengths
    PrepBuffer = 4
    Block = 2
    MaxKey = 4
    MaxIter = 4
    RandomLens = {0, 1, 3, 7, 8, 9, 15, 16, 17}
    IntWord = 16
SPECIFICATION LibrarySpec
CHECK_DEADLOCK FALSE
INVARIANT RingPositions
INVARIANT Base64Right
INVARIANT Utf8IsUnicode
INVARIANT PrepWhole
INVARIANT ScramRight
INVARIANT RandomFilled
PROPERTY RingIsQueue
