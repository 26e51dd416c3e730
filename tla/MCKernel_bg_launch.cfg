CONSTANTS
    Pids <- MCPids
    Terms <- MCTerms
    Null = Null
    Kernel = Kernel
    FgOnlyLaunch = FALSE
    NameMax = 2
    Dentries <- MCDentries
    Programs <- MCPrograms
    Commands <- MCCommands
SPECIFICATION Spec
INVARIANT CpuConsistent
