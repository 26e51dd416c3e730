CONSTANTS
    Pids <- MCPids
    Terms <- MCTerms
    Null = Null
    Kernel = Kernel
    FgOnlyLaunch = TRUE
    NameMax = 2
    Dentries <- MCDentries
    Programs <- MCPrograms
    Commands <- MCCommands
SPECIFICATION Spec
INVARIANT ReadOwnLine
