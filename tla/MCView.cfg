SPECIFICATION Spec
CONSTANTS
    BytesPerLine = 2
    FileLens <- MCFileLens
    Heights = {2, 3, 4}
    SmallLoad = 4
    PropertyRows = 3
    MaxEdits = 1
    Beyond = 1
VIEW StateView
INVARIANTS
    AlignedToLines
    CursorOnScreen
    LoadedIsPrefix
    LoadsWithinFile
    DrawPanicCauses
    StopCauses
