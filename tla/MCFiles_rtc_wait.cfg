CONSTANTS
    Procs <- MCProcs
    FdMax = 3
    FileLen <- MCFileLenSmall
    BlockSize = 4
    NumDentries = 3
    NBytes <- MCNBytes
    GarbageInode <- MCGarbageInode
    GarbagePos <- MCGarbagePos
    FgOnlyRead = TRUE
    WriteFreqs <- MCWriteFreqs
    ReadLens <- MCReadLens
SPECIFICATION FairSpec
PROPERTY RtcReaderReturns
