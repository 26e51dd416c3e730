CONSTANTS
    Pids <- MCPidsLive
    Terms <- MCTerms
    Null = Null
    Kernel = Kernel
    FgOnlyLaunch = TRUE
    NameMax = 2
    Dentries <- MCDentries
    Programs <- MCPrograms
    Commands <- MCCommands
SPECIFICATION FairSpec
PROPERTY ScheduledOnceSettled
