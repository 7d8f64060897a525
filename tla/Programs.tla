------------------------------ MODULE Programs ------------------------------
(***************************************************************************)
(* The programs around the kernel, FDISK and the tools, side by side: one  *)
(* of them is started and runs to its end, the others wait in a state of   *)
(* their own.  FDISK is extended, the tools are instances with variables   *)
(* and constants of their own, whose names begin with two letters for the  *)
(* tool.  What the constants are is said in the modules of the tools.      *)
(***************************************************************************)
EXTENDS Fdisk

CONSTANTS FsSystems, FsNumbers, DEFAULT_MAX_DEVICE_NUMBER, MAX_MANAGED_DRIVERS,
          MAX_DEVICES_PER_DRIVER, DEVICES_PER_PAGE,
          XcCases, XcMaxHandles,
          DcCases, DcDrives, DcNumSects, DcNumBuffers, DcMaxErrors,
          EmCommands, EmDirectory, EmDrives, EmSector, MaxFilesToProcess,
          BsStorages, BsRequests, BsDataFiles, BsInside, BsMaxRequests, PSD_MAX_SIZE,
          MkBases, MkDrivers, MkMappers, MkExtras, MkAddresses, MkBootKeys,
          DrSegments, DrPrimary, DrHomePage1, DrRequests, DrFiles, DrLetters, DrMaxRequests,
          MAX_FILE_SIZE, MAX_INIT_DATA,
          EpDisks, EpTargets, EpMaxErrors,
          VsVolumes, VsMaxFat12Clusters, VsMax12BitClusters, VsMaxFat16Clusters, VsSmallLimit

VARIABLES running, \* the program that was started
          fs_system, fs_drivers, fs_selectedDriver, fs_devices, fs_availableDevicesCount,
          fs_deviceNumber, fs_currentDevicesPage, fs_selectedDevice, fs_screen, fs_wrapped,
          xc_case, xc_tree, xc_verify, xc_verify_flag, xc_opened, xc_file_not_ensured,
          xc_stack, xc_job, xc_dup_mode, xc_pc, xc_joined, xc_copied,
          dc_request, dc_sectors, dc_inserted, dc_boot_sector, dc_batch, dc_sect,
          dc_dskchk, dc_o_chk, dc_error_routine, dc_e_count, dc_at, dc_obeyed, dc_copied,
          em_argv, em_options, em_outputFileName, em_names, em_matched,
          em_fileContents, em_from, em_file, em_at,
          bs_storage, bs_request, bs_fileFlags, bs_psBuffer, bs_ram, bs_at, bs_count,
          bs_initial, bs_stored,
          mk_request, mk_newFile, mk_First8KMappingAddress, mk_mapperCode, mk_at,
          dr_free, dr_drivers, dr_content, dr_drives, dr_page1, dr_request, dr_alloc,
          dr_savedP1Segment, dr_loaded, dr_foundDevice, dr_at, dr_count, dr_lost,
          ep_disk, ep_target, ep_op, ep_mbrBuffer, ep_extendedPartition,
          ep_chsPartitionsCount, ep_lbaPartitionsCount, ep_at, ep_original, ep_errors,
          ep_blind,
          vs_volume, vs_isNextor, vs_doFix, vs_totalSectors, vs_totalClusters,
          vs_isFat16, vs_sectorsToDecreaseForFix, vs_Buffer, vs_at, vs_before

F == INSTANCE FdiskDevices WITH
        Systems <- FsSystems, Numbers <- FsNumbers,
        system <- fs_system, drivers <- fs_drivers, selectedDriver <- fs_selectedDriver,
        devices <- fs_devices, availableDevicesCount <- fs_availableDevicesCount,
        deviceNumber <- fs_deviceNumber, currentDevicesPage <- fs_currentDevicesPage,
        selectedDevice <- fs_selectedDevice, screen <- fs_screen, wrapped <- fs_wrapped

X == INSTANCE Xcopy WITH
        Cases <- XcCases, MaxHandles <- XcMaxHandles,
        case <- xc_case, tree <- xc_tree, verify <- xc_verify,
        verify_flag <- xc_verify_flag, opened <- xc_opened,
        file_not_ensured <- xc_file_not_ensured, stack <- xc_stack, job <- xc_job,
        dup_mode <- xc_dup_mode, pc <- xc_pc, joined <- xc_joined, copied <- xc_copied

D == INSTANCE Diskcopy WITH
        Cases <- DcCases, DriveInfo <- DcDrives, NumSects <- DcNumSects,
        NumBuffers <- DcNumBuffers, MaxErrors <- DcMaxErrors,
        request <- dc_request, sectors <- dc_sectors, inserted <- dc_inserted,
        boot_sector <- dc_boot_sector, batch <- dc_batch, sect <- dc_sect,
        dskchk <- dc_dskchk, o_chk <- dc_o_chk, error_routine <- dc_error_routine,
        e_count <- dc_e_count, at <- dc_at, obeyed <- dc_obeyed, copied <- dc_copied

E == INSTANCE Emufile WITH
        Commands <- EmCommands, Directory <- EmDirectory, Drives <- EmDrives,
        Sector <- EmSector,
        argv <- em_argv, options <- em_options, outputFileName <- em_outputFileName,
        names <- em_names, matched <- em_matched, fileContents <- em_fileContents,
        from <- em_from, file <- em_file, at <- em_at

B == INSTANCE BootSettings WITH
        Storages <- BsStorages, Requests <- BsRequests, DataFiles <- BsDataFiles,
        Inside <- BsInside, MaxRequests <- BsMaxRequests,
        storage <- bs_storage, request <- bs_request, fileFlags <- bs_fileFlags,
        psBuffer <- bs_psBuffer, ram <- bs_ram, at <- bs_at, count <- bs_count,
        initial <- bs_initial, stored <- bs_stored

M == INSTANCE Mknexrom WITH
        Bases <- MkBases, Drivers <- MkDrivers, Mappers <- MkMappers, Extras <- MkExtras,
        Addresses <- MkAddresses, BootKeys <- MkBootKeys,
        request <- mk_request, newFile <- mk_newFile,
        First8KMappingAddress <- mk_First8KMappingAddress, mapperCode <- mk_mapperCode,
        at <- mk_at

R == INSTANCE Drvrop WITH
        Segments <- DrSegments, Primary <- DrPrimary, HomePage1 <- DrHomePage1,
        Requests <- DrRequests, Files <- DrFiles, Letters <- DrLetters,
        MaxRequests <- DrMaxRequests,
        free <- dr_free, drivers <- dr_drivers, content <- dr_content,
        drives <- dr_drives, page1 <- dr_page1, request <- dr_request,
        alloc <- dr_alloc, savedP1Segment <- dr_savedP1Segment, loaded <- dr_loaded,
        foundDevice <- dr_foundDevice, at <- dr_at, count <- dr_count, lost <- dr_lost

C == INSTANCE Eptcft WITH
        Disks <- EpDisks, Targets <- EpTargets, MaxErrors <- EpMaxErrors,
        disk <- ep_disk, target <- ep_target, op <- ep_op, mbrBuffer <- ep_mbrBuffer,
        extendedPartition <- ep_extendedPartition,
        chsPartitionsCount <- ep_chsPartitionsCount,
        lbaPartitionsCount <- ep_lbaPartitionsCount, at <- ep_at,
        original <- ep_original, errors <- ep_errors, blind <- ep_blind

V == INSTANCE Vsft WITH
        Volumes <- VsVolumes, MAX_FAT12_CLUSTER_COUNT <- VsMaxFat12Clusters,
        MAX_12BIT_CLUSTER_COUNT <- VsMax12BitClusters,
        MAX_FAT16_CLUSTER_COUNT <- VsMaxFat16Clusters, SmallLimit <- VsSmallLimit,
        volume <- vs_volume, isNextor <- vs_isNextor, doFix <- vs_doFix,
        totalSectors <- vs_totalSectors, totalClusters <- vs_totalClusters,
        isFat16 <- vs_isFat16, sectorsToDecreaseForFix <- vs_sectorsToDecreaseForFix,
        Buffer <- vs_Buffer, at <- vs_at, before <- vs_before

----------------------------------------------------------------------------
(* What the programs may be given, for the theorems about them.             *)

\* Command lines, files and segments as DRVROP finds them: the program's own segment in
\* page 1 is one of the primary mapper and none of those that may be allocated.
ASSUME DrvropAssumption ==
    /\ MAX_FILE_SIZE \in Nat \ {0} /\ MAX_INIT_DATA \in Nat /\ DrMaxRequests \in Nat
    /\ DrHomePage1 = <<DrPrimary, DrHomePage1[2]>> /\ DrHomePage1 \notin DrSegments
    /\ DrSegments \subseteq Nat \X Nat
    /\ \A r \in DrRequests : r.op = "i" => r.data \in Seq(Int) /\ r.file \in DOMAIN DrFiles
    /\ \A f \in DOMAIN DrFiles :
         DrFiles[f].bytes \in Nat /\ DOMAIN DrFiles[f].devices \subseteq Nat

\* The disks of DISKCOPY have sectors, a buffer takes some of them, and the flag is a byte.
ASSUME DiskcopyAssumption ==
    /\ DcNumSects \in Nat \ {0} /\ DcNumBuffers \in Nat \ {0} /\ DcMaxErrors \in Nat
    /\ \A c \in DcCases : c.dskchk \in 0..255

\* A boot sector has a size, sectors before its data, and clusters of some sectors.
ASSUME VsftAssumption ==
    /\ VsVolumes \subseteq [small : Nat, big : Nat, data : Nat \ {0}, spc : Nat \ {0},
                            fat16 : BOOLEAN]
    /\ {VsMaxFat12Clusters, VsMax12BitClusters, VsMaxFat16Clusters, VsSmallLimit} \subseteq Nat

\* What a table of a disk of EPTCFT has beside its type code, and the tables.
EpRests == {"memory"} \cup UNION {{chain[i].rest : i \in DOMAIN chain} : chain \in EpDisks}
EpTable == [type : 0..255, rest : EpRests]

\* A disk is a sequence of tables.
ASSUME EptcftAssumption == EpMaxErrors \in Nat /\ EpDisks \subseteq Seq(EpTable)

\* What the drivers answer to FDISK, and the limits of its lists.
ASSUME FdevAssumption == F!DevicesAssumption

\* The names, files and drives of EMUFILE.
ASSUME EmAssumption == E!EmufileAssumption

\* The files that MKNEXROM makes a ROM file of.
ASSUME MkAssumption == M!MknexromAssumption

\* What XCOPY may be started with.
ASSUME XcAssumption == X!XcopyAssumption

----------------------------------------------------------------------------
fs_vars ==
    <<fs_system, fs_drivers, fs_selectedDriver, fs_devices, fs_availableDevicesCount,
      fs_deviceNumber, fs_currentDevicesPage, fs_selectedDevice, fs_screen, fs_wrapped>>
xc_vars ==
    <<xc_case, xc_tree, xc_verify, xc_verify_flag, xc_opened, xc_file_not_ensured,
      xc_stack, xc_job, xc_dup_mode, xc_pc, xc_joined, xc_copied>>
dc_vars ==
    <<dc_request, dc_sectors, dc_inserted, dc_boot_sector, dc_batch, dc_sect,
      dc_dskchk, dc_o_chk, dc_error_routine, dc_e_count, dc_at, dc_obeyed, dc_copied>>
em_vars ==
    <<em_argv, em_options, em_outputFileName, em_names, em_matched, em_fileContents,
      em_from, em_file, em_at>>
bs_vars ==
    <<bs_storage, bs_request, bs_fileFlags, bs_psBuffer, bs_ram, bs_at, bs_count,
      bs_initial, bs_stored>>
mk_vars ==
    <<mk_request, mk_newFile, mk_First8KMappingAddress, mk_mapperCode, mk_at>>
dr_vars ==
    <<dr_free, dr_drivers, dr_content, dr_drives, dr_page1, dr_request, dr_alloc,
      dr_savedP1Segment, dr_loaded, dr_foundDevice, dr_at, dr_count, dr_lost>>
ep_vars ==
    <<ep_disk, ep_target, ep_op, ep_mbrBuffer, ep_extendedPartition,
      ep_chsPartitionsCount, ep_lbaPartitionsCount, ep_at, ep_original, ep_errors,
      ep_blind>>
vs_vars ==
    <<vs_volume, vs_isNextor, vs_doFix, vs_totalSectors, vs_totalClusters, vs_isFat16,
      vs_sectorsToDecreaseForFix, vs_Buffer, vs_at, vs_before>>
allVars == <<running, vars, fs_vars, xc_vars, dc_vars, em_vars, bs_vars, mk_vars, dr_vars, ep_vars,
             vs_vars>>

Others(own) ==
    /\ UNCHANGED running
    /\ own # "fdisk" => UNCHANGED vars
    /\ own # "devices" => UNCHANGED fs_vars
    /\ own # "xcopy" => UNCHANGED xc_vars
    /\ own # "diskcopy" => UNCHANGED dc_vars
    /\ own # "emufile" => UNCHANGED em_vars
    /\ own # "settings" => UNCHANGED bs_vars
    /\ own # "mknexrom" => UNCHANGED mk_vars
    /\ own # "drvrop" => UNCHANGED dr_vars
    /\ own # "eptcft" => UNCHANGED ep_vars
    /\ own # "vsft" => UNCHANGED vs_vars

\* What a program that is not started would have been given.
AnyOf(S) == CHOOSE x \in S : TRUE

AllInit ==
    /\ running \in {"devices", "fdisk", "xcopy", "diskcopy", "emufile", "settings", "mknexrom",
                    "drvrop", "eptcft", "vsft"}
    /\ running # "fdisk" => device = AnyOf(Devices)
    /\ running # "devices" => fs_system = <<>>
    /\ running # "xcopy" => xc_case = AnyOf(XcCases)
    /\ running # "diskcopy" => dc_request = AnyOf(DcCases)
    /\ running # "emufile" => em_argv = AnyOf(EmCommands)
    /\ running # "settings" => bs_storage = AnyOf(BsStorages)
    /\ running # "mknexrom" =>
           mk_request = [base |-> AnyOf(MkBases), driver |-> AnyOf(MkDrivers),
                         mapper |-> AnyOf(MkMappers), extra |-> AnyOf(MkExtras),
                         address |-> AnyOf(MkAddresses), keys |-> AnyOf(MkBootKeys),
                         modify |-> FALSE]
    /\ running # "eptcft" =>
           /\ ep_disk = AnyOf(EpDisks) /\ ep_target = AnyOf(EpTargets) /\ ep_op = "scan"
           /\ ep_mbrBuffer = [type |-> 0, rest |-> "memory"]
    /\ running # "vsft" => vs_volume = AnyOf(VsVolumes) /\ vs_isNextor = TRUE
    /\ Init /\ F!Init /\ X!Init /\ D!Init /\ E!Init /\ B!Init /\ M!Init /\ R!Init /\ C!Init /\ V!Init
    /\ running # "devices" => ~fs_devices[0].isValid

AllNext ==
    \/ running = "fdisk" /\ Next /\ Others("fdisk")
    \/ running = "devices" /\ F!Next /\ Others("devices")
    \/ running = "xcopy" /\ X!Next /\ Others("xcopy")
    \/ running = "diskcopy" /\ D!Next /\ Others("diskcopy")
    \/ running = "emufile" /\ E!Next /\ Others("emufile")
    \/ running = "settings" /\ B!Next /\ Others("settings")
    \/ running = "mknexrom" /\ M!Next /\ Others("mknexrom")
    \/ running = "drvrop" /\ R!Next /\ Others("drvrop")
    \/ running = "eptcft" /\ C!Next /\ Others("eptcft")
    \/ running = "vsft" /\ V!Next /\ Others("vsft")

AllSpec == AllInit /\ [][AllNext]_allVars

----------------------------------------------------------------------------
(* The properties of the tools, under names of this module; their texts are *)
(* beside them in the modules of the tools.                                  *)

\* The variables of all the programs have their types.
ProgramsTypeOK ==
    /\ TypeOK /\ F!TypeOK /\ X!TypeOK /\ D!TypeOK /\ E!TypeOK /\ B!TypeOK /\ M!TypeOK /\ R!TypeOK
    /\ C!TypeOK /\ V!TypeOK

\* What FDISK shows is true: the devices of a driver and which may be partitioned, and
\* the list of partitions that it says is on the device.
ShownTruthful == F!DevicesTruthful /\ ListTruthful

\* However XCOPY ends, no partial file is left and the verify flag is as it was; when it
\* ends by itself no handle is open.
CleanExit == X!CleanExit

\* XCOPY never overwrites a file that it has just made as a copy of another one.
CopiesKept == X!CopiesKept

\* When XCOPY with /S /H, between trees apart, ends by itself, each file that it chose has
\* its copy, and no new directory is empty but with /E.
CopyComplete == X!CopyComplete

\* XCOPY does not copy what it has copied, whichever tree is in which.
NoRunaway == X!NoRunaway

\* A finished DISKCOPY has copied each sector, with the boot sector as asked for.
CopyExact == D!CopyExact

\* DISKCOPY leaves disk checking and the error routine as it found them.
SystemRestored == D!SystemRestored

\* The table of EMUFILE's data file has each image of each file, where it is.
TableExact == E!TableExact

\* NEXBOOT and EMUFILE change their own settings in the persistent storage only.
SettingsKept == B!SettingsKept

\* A ROM file that MKNEXROM has finished is complete and consistent.
RomComplete == M!RomComplete

\* Every mapper segment is free, has one driver in it, or the program at work on it.
SegmentsOwned == R!SegmentsOwned

\* EPTCFT changes nothing but type codes of extended partitions, VSFT nothing but the
\* size of a volume, to exactly the clusters its FAT type may have.
RepairsExact == C!OnlyTypesFixed /\ V!SizeFixed
=============================================================================
