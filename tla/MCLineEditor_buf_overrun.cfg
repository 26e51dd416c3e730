CONSTANTS
    B = 3
    L = 2
    H = 2
    Typed = {"a", " "}
    Names <- MCNames
    NBytes = {2, 4}
    LineLimit = 4
    HistInit <- MCHistInit
SPECIFICATION Spec
INVARIANT
    BufIdxWithinBuffer
