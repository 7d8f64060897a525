---------------------------------- MODULE Vsft ----------------------------------
(***************************************************************************)
(* VSFT (tools/C/vsft.c): a volume with more clusters than its FAT type    *)
(* may have is made smaller in its boot sector.  What the system reports   *)
(* of the volume comes from that sector: the number of sectors, in one of  *)
(* two fields, and the clusters in what is behind the tables.              *)
(***************************************************************************)
EXTENDS Integers

CONSTANTS Volumes,  \* [small, big, data, spc, fat16]: data is the first data sector,
                    \* and the clusters behind it are at most FFFFh
          MAX_FAT12_CLUSTER_COUNT, MAX_12BIT_CLUSTER_COUNT, MAX_FAT16_CLUSTER_COUNT,
          SmallLimit \* FFFFh

VARIABLES volume,   \* the boot sector on the disk
          isNextor, doFix,
          totalSectors, totalClusters, isFat16, \* what the system reports
          sectorsToDecreaseForFix,
          Buffer,   \* the boot sector in memory
          at,
          before    \* history: the boot sector at first

vars == <<volume, isNextor, doFix, totalSectors, totalClusters, isFat16,
          sectorsToDecreaseForFix, Buffer, at, before>>
reported == <<totalSectors, totalClusters, isFat16>>
command == <<isNextor, doFix, before>>

\* The sectors of a boot sector: the small field counts unless it is 0.
Sectors(boot) == IF boot.small = 0 THEN boot.big ELSE boot.small
Clusters(boot) == (Sectors(boot) - boot.data) \div boot.spc

\* MSX-DOS 2 knows the small field only.
GetDriveInfo ==
    /\ at = "info"
    /\ totalSectors' = IF isNextor THEN Sectors(volume) ELSE volume.small
    /\ isFat16' = (isNextor /\ volume.fat16)
    /\ IF totalSectors' = 0 THEN at' = "end" /\ UNCHANGED totalClusters
       ELSE /\ totalClusters' = Clusters(volume)
            /\ at' = IF ~isNextor /\ totalClusters' > MAX_12BIT_CLUSTER_COUNT THEN "end" ELSE "calculate"
    /\ UNCHANGED <<volume, command, sectorsToDecreaseForFix, Buffer>>

MaxClusters == IF isFat16 THEN MAX_FAT16_CLUSTER_COUNT ELSE MAX_FAT12_CLUSTER_COUNT

\* Mutant: the clusters are not turned into sectors.
CalculateSectors_AsClusters ==
    /\ at = "calculate"
    /\ sectorsToDecreaseForFix' =
         IF totalClusters > MaxClusters THEN totalClusters - MaxClusters ELSE 0
    /\ at' = IF sectorsToDecreaseForFix' # 0 /\ doFix THEN "read" ELSE "end"
    /\ UNCHANGED <<volume, command, reported, Buffer>>

CalculateSectorsToDecreaseForFix ==
    /\ at = "calculate"
    /\ sectorsToDecreaseForFix' =
         IF totalClusters > MaxClusters THEN (totalClusters - MaxClusters) * volume.spc ELSE 0
    /\ at' = IF sectorsToDecreaseForFix' # 0 /\ doFix THEN "read" ELSE "end"
    /\ UNCHANGED <<volume, command, reported, Buffer>>

ReadBootSector ==
    /\ at = "read"
    /\ \/ Buffer' = volume /\ at' = "fix"
       \/ at' = "end" /\ UNCHANGED Buffer
    /\ UNCHANGED <<volume, command, reported, sectorsToDecreaseForFix>>

\* A size that fits in the small field goes there; the other field is left.
FixVolumeSize ==
    /\ at = "fix" /\ at' = "write"
    /\ LET fixed == Sectors(Buffer) - sectorsToDecreaseForFix
       IN Buffer' = IF fixed <= SmallLimit THEN [Buffer EXCEPT !.small = fixed]
                    ELSE [Buffer EXCEPT !.small = 0, !.big = fixed]
    /\ UNCHANGED <<volume, command, reported, sectorsToDecreaseForFix>>

WritebootSector ==
    /\ at = "write" /\ at' = "end"
    /\ volume' \in {volume, Buffer}
    /\ UNCHANGED <<command, reported, sectorsToDecreaseForFix, Buffer>>

\* The tool is run again with "fix" on what it left.
Again ==
    /\ at = "end" /\ ~doFix
    /\ doFix' = TRUE /\ at' = "info"
    /\ UNCHANGED <<volume, isNextor, before, reported, sectorsToDecreaseForFix, Buffer>>

Ended == at = "end" /\ doFix /\ UNCHANGED vars

Init ==
    /\ volume \in Volumes /\ before = volume /\ Buffer = volume
    /\ isNextor \in BOOLEAN /\ doFix = FALSE
    /\ totalSectors = 0 /\ totalClusters = 0 /\ isFat16 = FALSE
    /\ sectorsToDecreaseForFix = 0 /\ at = "info"

Next ==
    \/ GetDriveInfo \/ CalculateSectorsToDecreaseForFix
    \/ ReadBootSector \/ FixVolumeSize \/ WritebootSector
    \/ Again
    \/ Ended

Spec == Init /\ [][Next]_vars

---------------------------------------------------------------------------
(* Properties. *)

TypeOK ==
    /\ totalSectors \in 0..Sectors(before) /\ sectorsToDecreaseForFix \in 0..Sectors(before)
    /\ {isNextor, doFix, isFat16} \subseteq BOOLEAN

\* A boot sector that is written leaves a volume of exactly the clusters its FAT type
\* may have, whichever of the two fields the size was in and is in now, and no
\* sector less than that takes, with nothing else changed; a volume within the limit,
\* or one that was only looked at, is not touched (vsft.c 227-402).  A FAT16 volume
\* under MSX-DOS 2, which takes it for a FAT12 one, is what the usage text warns of
\* (vsft.c 89-90).
SizeFixed ==
    LET limit == IF before.fat16 THEN MAX_FAT16_CLUSTER_COUNT ELSE MAX_FAT12_CLUSTER_COUNT
    IN volume # before /\ (isNextor \/ ~before.fat16) =>
         /\ doFix /\ Clusters(before) > limit /\ Clusters(volume) = limit
         /\ volume = [before EXCEPT !.small = volume.small, !.big = volume.big]
         /\ (Sectors(volume) - volume.data) % volume.spc = (Sectors(before) - before.data) % before.spc

=============================================================================
