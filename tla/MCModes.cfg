SPECIFICATION Spec
CONSTANTS
    Width = 8
    HexBase = 2
    Printable = {2, 3}
    Char <- MCChar
    Continuation = {9}
    Space = 3
    Quitting <- MCQuitting
    CommandLabel = 4
    SearchLabel = 1
    Columns = {6, 7}
    MaxLine = 4
    SplitWidths = {1, 2, 4}
    MaxOffset = 3
INVARIANTS
    CountIsTyped
    PromptTypeOK
    HalfUnderCursor
    DrawnUpToCursor
    
PROPERTY
    EditsLikeText
