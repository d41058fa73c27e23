SPECIFICATION Spec
CONSTANTS
    BytesPerLine = 2
    FileLens <- MCOneFile
    Heights = {5}
    SmallLoad = 2
    PropertyRows = 5
    MaxEdits = 0
    Beyond = 0
INVARIANT OnePieceOfFile
