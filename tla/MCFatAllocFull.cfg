SPECIFICATION Spec
CONSTANTS
    f1 = f1
    f2 = f2
    Files <- MCFiles
    FatSectors <- MCFatSectors
    UD_CLUSTER_COUNT = 4
    EOC = 9
    UF_DBD = TRUE
    MaxRequest = 3
    MaxFileSize = 4
    MaxAborts = 1
VIEW MCView
SYMMETRY Symmetry
INVARIANT DiskFullMeansFull
