CONSTANTS
    Procs <- MCProcs
    FdMax = 4
    FileLen <- MCFileLen
    BlockSize = 4
    NumDentries = 3
    NBytes <- MCNBytes
    GarbageInode <- MCGarbageInode
    GarbagePos <- MCGarbagePos
    FgOnlyRead = FALSE
    WriteFreqs <- MCWriteFreqs
    ReadLens <- MCReadLens
SPECIFICATION Spec
INVARIANT PositionWithinFile
