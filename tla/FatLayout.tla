------------------------------ MODULE FatLayout ------------------------------
(***************************************************************************)
(* The file system that FDISK creates in a partition: how many sectors     *)
(* each part of it gets, and the type of FAT that is recognized in it      *)
(* (kernel/bank5/fdisk.c, with the constants of partit.h).                 *)
(*                                                                         *)
(* uint is 16 bits wide and ulong 32: U16 stands where the code computes   *)
(* in a uint or stores in one.  No ulong of this file can wrap for sizes   *)
(* up to MAX_FAT16_PARTITION_SIZE_IN_K, the largest FDISK offers.          *)
(***************************************************************************)
EXTENDS Integers

MIN_DEVICE_SIZE_IN_K == 10
MIN_PARTITION_SIZE_IN_K == 100
MAX_FAT12_PARTITION_SIZE_IN_K == 32768
MAX_FAT16_PARTITION_SIZE_IN_K == 4194304
MAX_FAT12_CLUSTER_COUNT == 4084
MAX_FAT16_CLUSTER_COUNT == 65524
FAT_COPIES == 2
FAT12_ROOT_SECTORS == 7   \* FAT12_ROOT_DIR_ENTRIES / DIR_ENTRIES_PER_SECTOR
FAT16_ROOT_SECTORS == 32

Sizes == {k \in Nat : k >= MIN_PARTITION_SIZE_IN_K /\ k <= MAX_FAT16_PARTITION_SIZE_IN_K}

U16(n) == n % 65536
DivUp(n, d) == (n + d - 1) \div d

RootSectors(isFat16) == IF isFat16 THEN FAT16_ROOT_SECTORS ELSE FAT12_ROOT_SECTORS

\* dosFilesystemParameters.
Parameters(dataSectors, clusterCount, sectorsPerFat, sectorsPerCluster, isFat16) ==
    [totalSectors |-> dataSectors + 1 + sectorsPerFat * FAT_COPIES + RootSectors(isFat16),
     dataSectors |-> dataSectors,
     clusterCount |-> clusterCount,
     sectorsPerFat |-> sectorsPerFat,
     sectorsPerCluster |-> sectorsPerCluster,
     sectorsPerRootDirectory |-> RootSectors(isFat16),
     isFat16 |-> isFat16]

SectorsPerCluster12(sizeK) ==
    IF sizeK <= 2048 THEN 4
    ELSE IF sizeK <= 4096 THEN 8
    ELSE IF sizeK <= 8192 \/ sizeK > 16384 THEN 16
    ELSE 32

\* Up to 16M a FAT has three sectors at most, so that MSX-DOS 1 can boot.
MaxClusters12(sizeK) == IF sizeK <= 16384 THEN 1021 ELSE MAX_FAT12_CLUSTER_COUNT
MaxSectorsPerFat12(sizeK) == IF sizeK <= 16384 THEN 3 ELSE 12

\* Sectors for the FATs and the data, as many of them for a FAT as all the rest as
\* data would need, and the clusters then left.
Available12(sizeK) == sizeK * 2 - FAT12_ROOT_SECTORS - 1
SectorsPerFat12(sizeK) ==
    DivUp(U16((U16(Available12(sizeK) \div SectorsPerCluster12(sizeK)) + 2) * 3), 1024)
Clusters12(sizeK) ==
    U16((Available12(sizeK) - FAT_COPIES * SectorsPerFat12(sizeK))
            \div SectorsPerCluster12(sizeK))

CalculateFatFileSystemParametersFat12(sizeK) ==
    LET spc == SectorsPerCluster12(sizeK)
        data == U16(Clusters12(sizeK) * spc)
        difference == Clusters12(sizeK) - MaxClusters12(sizeK)
    IN IF difference > 0
       THEN Parameters(data - U16(difference * spc), MaxClusters12(sizeK),
                       MaxSectorsPerFat12(sizeK), spc, FALSE)
       ELSE Parameters(data, Clusters12(sizeK), SectorsPerFat12(sizeK), spc, FALSE)

SectorsPerCluster16(sizeK) ==
    LET sizeM == sizeK \div 1024
    IN IF sizeM <= 128 THEN 4
       ELSE IF sizeM <= 256 THEN 8
       ELSE IF sizeM <= 512 THEN 16
       ELSE IF sizeM <= 1024 THEN 32
       ELSE IF sizeM <= 2048 THEN 64
       ELSE 128

CalculateFatFileSystemParametersFat16(sizeK) ==
    LET spc == SectorsPerCluster16(sizeK)
        available == sizeK * 2 - FAT16_ROOT_SECTORS - 1
        spf == DivUp(available \div spc + 2, 256)
        clusters == (available - FAT_COPIES * spf) \div spc
    IN IF clusters > MAX_FAT16_CLUSTER_COUNT
       THEN Parameters(clusters * spc - (clusters - MAX_FAT16_CLUSTER_COUNT) * spc,
                       MAX_FAT16_CLUSTER_COUNT, 256, spc, TRUE)
       ELSE Parameters(clusters * spc, clusters, spf, spc, TRUE)

CalculateFatFileSystemParameters(sizeK) ==
    IF sizeK > MAX_FAT12_PARTITION_SIZE_IN_K
    THEN CalculateFatFileSystemParametersFat16(sizeK)
    ELSE CalculateFatFileSystemParametersFat12(sizeK)

\* The clusters that are found in a boot sector, in 24 and 16 bits.
FirstDataSector(p) == 1 + FAT_COPIES * p.sectorsPerFat + p.sectorsPerRootDirectory
ClustersFound(p) ==
    U16(((p.totalSectors % 16777216) - FirstDataSector(p)) \div p.sectorsPerCluster)

\* FDISK and the kernel go by the number of clusters, then by the type string.
GetBootSectorFatType(p) ==
    IF ClustersFound(p) <= MAX_FAT12_CLUSTER_COUNT THEN 12
    ELSE IF ClustersFound(p) > 4095 \/ p.isFat16 THEN 16 ELSE 12

\* The bytes of a FAT hold an entry for every cluster and the two reserved ones.
EntriesHeld(p) == IF p.isFat16 THEN p.sectorsPerFat * 256 ELSE (p.sectorsPerFat * 1024) \div 3

\* CHECK_FAT_BOOT of the kernel, and the same test in GetBootSectorFatType: a
\* boot sector with other values is not one of a FAT file system.
Recognized(p) == p.sectorsPerFat \in 1..256

\* A file system created in a partition of any size FDISK offers lies inside
\* the partition, is not empty, and every cluster of it has its entry in the FAT
\* and its place in the data area (fdisk.c 1890-2030).
FitsPartition(sizeK) ==
    LET p == CalculateFatFileSystemParameters(sizeK)
    IN /\ p.totalSectors <= sizeK * 2
       /\ p.clusterCount > 0
       /\ p.dataSectors = p.clusterCount * p.sectorsPerCluster
       /\ p.clusterCount + 2 <= EntriesHeld(p)

\* What the file system is created as, what the partition table says (a type of
\* FAT16 above 32 MB) and what the kernel will find in the boot sector agree:
\* a disagreement would read 12-bit entries as 16-bit ones (fdisk.c 930-971,
\* 1310, 1892).
TypeAgreed(sizeK) ==
    GetBootSectorFatType(CalculateFatFileSystemParameters(sizeK)) =
        (IF sizeK > MAX_FAT12_PARTITION_SIZE_IN_K THEN 16 ELSE 12)

=============================================================================
