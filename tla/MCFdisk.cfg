SPECIFICATION Spec
CONSTANTS
    Devices <- MCDevices
    EnteredSizes <- MCEnteredSizes
    Dos1 = FALSE
    MAX_PARTITIONS_TO_HANDLE = 3
    MaxErrors = 1
    MaxCommits = 2
INVARIANT
    WrittenRecognized
