CONSTANTS
    B = 4
    L = 2
    H = 2
    Typed = {"a", " "}
    Names <- MCNames
    NBytes = {2, 4}
    LineLimit = 3
    HistInit <- MCHistInit
SPECIFICATION Spec
INVARIANTS
    TypeOK
    EditorConsistent
    ParseMatchesReference
PROPERTY
    ReadReturnsNewLine
