CONSTANTS
    Procs <- MCProcs
    FdMax = 4
    FileLen <- MCFileLen
    BlockSize = 4
    NumDentries = 2
    NBytes <- MCNBytes
    GarbageInode <- MCGarbageInode
    GarbagePos <- MCGarbagePos
    FgOnlyRead = TRUE
    WriteFreqs <- MCWriteFreqs
    ReadLens <- MCReadLens
SPECIFICATION Spec
INVARIANT TypeOK
INVARIANT FdTableConsistent
INVARIANT PositionWithinFile
INVARIANT RtcFrequencyIsRequested
INVARIANT ReadReturnsFileBytes
