SPECIFICATION Spec
CONSTANTS
    BytesPerLine = 2
    HexBase = 2
    Texts <- MCTexts
    Chars <- MCChars
    Counts = {2}
    MaxText = 7
    MaxKeys = 4
INVARIANTS
    EditingTypeOK
    SessionFoldsToOneAction
    HalfUnderCarets
    DigitsMakeByte
    PasteUndoesDelete
    EditsFitSelection
    OverwritePanics
