----------------------------- MODULE MCPrograms -----------------------------
(***************************************************************************)
(* The programs of module Programs, one at a time, with what               *)
(* MCProgramCases gives them.  TLC evaluates a definition once but what    *)
(* replaces a constant each time it is used: hence a name for each.        *)
(***************************************************************************)
EXTENDS Programs

LOCAL T == INSTANCE MCProgramCases

MCDevices == T!FdDevices
MCEnteredSizes == T!FdEnteredSizes
MCFsSystems == T!GivenFsSystems
MCXcCases == T!GivenXcCases
MCDcCases == T!GivenDcCases
MCDcDrives == T!GivenDcDrives
MCEmCommands == T!GivenEmCommands
MCEmDirectory == T!GivenEmDirectory
MCEmDrives == T!GivenEmDrives
MCBsStorages == T!GivenBsStorages
MCBsRequests == T!GivenBsRequests
MCBsDataFiles == T!GivenBsDataFiles
MCBsInside == T!GivenBsInside
MCMkBases == T!GivenMkBases
MCMkDrivers == T!GivenMkDrivers
MCMkMappers == T!GivenMkMappers
MCMkExtras == T!GivenMkExtras
MCMkAddresses == T!GivenMkAddresses
MCMkBootKeys == T!GivenMkBootKeys
MCDrSegments == T!GivenDrSegments
MCDrHomePage1 == T!GivenDrHomePage1
MCDrRequests == T!GivenDrRequests
MCDrFiles == T!GivenDrFiles
MCDrLetters == T!GivenDrLetters
MCEpDisks == T!GivenEpDisks
MCEpTargets == T!GivenEpTargets
MCVsVolumes == T!GivenVsVolumes
MCVsSmallLimit == T!GivenVsSmallLimit
=============================================================================
