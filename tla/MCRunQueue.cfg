CONSTANTS
    Pids <- MCPids
    MaxSize = 3
    Null = Null
SPECIFICATION Spec
INVARIANT TypeOK
INVARIANT ListWellFormed
PROPERTY AbsRefinement
