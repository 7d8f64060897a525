\* One program at a time; MCProgramCases has what they are given.
SPECIFICATION AllSpec
CONSTANTS
    Devices <- MCDevices
    EnteredSizes <- MCEnteredSizes
    Dos1 = FALSE
    MAX_PARTITIONS_TO_HANDLE = 3
    MaxErrors = 1
    MaxCommits = 2
    FsSystems <- MCFsSystems
    XcCases <- MCXcCases
    DcCases <- MCDcCases
    DcDrives <- MCDcDrives
    EmCommands <- MCEmCommands
    EmDirectory <- MCEmDirectory
    EmDrives <- MCEmDrives
    BsStorages <- MCBsStorages
    BsRequests <- MCBsRequests
    BsDataFiles <- MCBsDataFiles
    BsInside <- MCBsInside
    MkBases <- MCMkBases
    MkDrivers <- MCMkDrivers
    MkMappers <- MCMkMappers
    MkExtras <- MCMkExtras
    MkAddresses <- MCMkAddresses
    MkBootKeys <- MCMkBootKeys
    DrSegments <- MCDrSegments
    DrHomePage1 <- MCDrHomePage1
    DrRequests <- MCDrRequests
    DrFiles <- MCDrFiles
    DrLetters <- MCDrLetters
    EpDisks <- MCEpDisks
    EpTargets <- MCEpTargets
    VsVolumes <- MCVsVolumes
    VsSmallLimit <- MCVsSmallLimit
    FsNumbers = {0, 1, 2, 3, 4, 5}
    DEFAULT_MAX_DEVICE_NUMBER = 3
    MAX_MANAGED_DRIVERS = 4
    MAX_DEVICES_PER_DRIVER = 3
    DEVICES_PER_PAGE = 2
    XcMaxHandles = 4
    DcNumSects = 5
    DcNumBuffers = 2
    DcMaxErrors = 1
    EmSector = 2
    MaxFilesToProcess = 3
    BsMaxRequests = 3
    PSD_MAX_SIZE = 32
    DrPrimary = 3
    DrMaxRequests = 4
    MAX_FILE_SIZE = 10
    MAX_INIT_DATA = 4
    EpMaxErrors = 2
    VsMaxFat12Clusters = 5
    VsMax12BitClusters = 7
    VsMaxFat16Clusters = 8
INVARIANTS
    ProgramsTypeOK
    SpaceAccounted
    WrittenAsListed
    PartitionsApart
    FormattedAsListed
    ShownTruthful
    CleanExit
    CopiesKept
    CopyComplete
    NoRunaway
    CopyExact
    SystemRestored
    TableExact
    SettingsKept
    RomComplete
    SegmentsOwned
    RepairsExact
