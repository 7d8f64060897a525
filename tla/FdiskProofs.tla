------------------------------ MODULE FdiskProofs ------------------------------
(* FDISK on every device, of any size and whatever it holds, after any order  *)
(* of commands and errors.  SafeInv is invariant: what is in memory has its   *)
(* type, the sectors given away and those left are the device, what is        *)
(* offered next fits what is left, and the partition that is being written    *)
(* is where the list says it is, so that no write leaves its partition.  With *)
(* it ContentsOK is invariant: while a list is written everything before the  *)
(* current partition is already whole on the device.  When it is finished,    *)
(* reading the chain of tables gives the list back.                           *)
(* Sums and chains are recursive functions: the proofs compare any two        *)
(* functions that satisfy the recursion at the least argument where they      *)
(* differ.                                                                    *)
EXTENDS Fdisk, ProofLemmas

-----------------------------------------------------------------------------
(* The file systems of FatLayout for every partition size FDISK offers.    *)
(* The proofs go through the sizes of a cluster: with that fixed, what the *)
(* code computes by shifting is linear arithmetic.                         *)

USE DEF Sizes, MIN_PARTITION_SIZE_IN_K, MAX_FAT12_PARTITION_SIZE_IN_K,
        MAX_FAT16_PARTITION_SIZE_IN_K, MAX_FAT12_CLUSTER_COUNT, MAX_FAT16_CLUSTER_COUNT,
        FAT_COPIES, FAT12_ROOT_SECTORS, FAT16_ROOT_SECTORS, RootSectors

\* What a file system takes before its data: a boot sector, two FATs and the root
\* directory.
PartsInside(p) ==
  /\ p.sectorsPerFat \in Nat /\ p.sectorsPerRootDirectory \in Nat \ {0} /\ p.totalSectors \in Nat
  /\ 1 + 2 * p.sectorsPerFat + p.sectorsPerRootDirectory <= p.totalSectors
RoomForFats(k) ==
  LET p == CalculateFatFileSystemParameters(k)
  IN /\ PartsInside(p) /\ p.totalSectors <= k * 2
     /\ p.isFat16 <=> k > MAX_FAT12_PARTITION_SIZE_IN_K

\* The sizes of what may be formatted: a partition, or a whole device.
FormatSizes == {k \in Nat : k >= MIN_DEVICE_SIZE_IN_K /\ k <= MAX_FAT16_PARTITION_SIZE_IN_K}

\* The cluster of a FAT16 file system doubles with the size.
LEMMA Clusters16 ==
  ASSUME NEW k \in Sizes, k > MAX_FAT12_PARTITION_SIZE_IN_K
  PROVE  LET spc == SectorsPerCluster16(k)
         IN \/ spc = 4 /\ k < 132096
            \/ spc = 8 /\ k >= 132096 /\ k < 263168
            \/ spc = 16 /\ k >= 263168 /\ k < 525312
            \/ spc = 32 /\ k >= 525312 /\ k < 1049600
            \/ spc = 64 /\ k >= 1049600 /\ k < 2098176
            \/ spc = 128 /\ k >= 2098176
  BY SMTT(30) DEF SectorsPerCluster16

\* Every FAT16 file system lies inside its partition with all its clusters, and
\* has too many clusters to be taken for FAT12.
LEMMA Layout16 ==
  ASSUME NEW k \in Sizes, k > MAX_FAT12_PARTITION_SIZE_IN_K
  PROVE  FitsPartition(k) /\ TypeAgreed(k) /\ RoomForFats(k)
<1> DEFINE spc == SectorsPerCluster16(k)
<1> USE DEF CalculateFatFileSystemParameters, CalculateFatFileSystemParametersFat16,
       Parameters, DivUp
<1>1. CASE spc = 4 /\ k < 132096
  <2>1. FitsPartition(k)
    BY <1>1, SMT DEF FitsPartition, EntriesHeld
  <2>2. TypeAgreed(k)
    BY <1>1, SMT DEF TypeAgreed, GetBootSectorFatType, ClustersFound, FirstDataSector, U16
  <2>3. RoomForFats(k)
    BY <1>1, SMT DEF RoomForFats, PartsInside
  <2> QED
    BY <2>1, <2>2, <2>3
<1>2. CASE spc = 8 /\ k >= 132096 /\ k < 263168
  <2>1. FitsPartition(k)
    BY <1>2, SMT DEF FitsPartition, EntriesHeld
  <2>2. TypeAgreed(k)
    BY <1>2, SMT DEF TypeAgreed, GetBootSectorFatType, ClustersFound, FirstDataSector, U16
  <2>3. RoomForFats(k)
    BY <1>2, SMT DEF RoomForFats, PartsInside
  <2> QED
    BY <2>1, <2>2, <2>3
<1>3. CASE spc = 16 /\ k >= 263168 /\ k < 525312
  <2>1. FitsPartition(k)
    BY <1>3, SMT DEF FitsPartition, EntriesHeld
  <2>2. TypeAgreed(k)
    BY <1>3, SMT DEF TypeAgreed, GetBootSectorFatType, ClustersFound, FirstDataSector, U16
  <2>3. RoomForFats(k)
    BY <1>3, SMT DEF RoomForFats, PartsInside
  <2> QED
    BY <2>1, <2>2, <2>3
<1>4. CASE spc = 32 /\ k >= 525312 /\ k < 1049600
  <2>1. FitsPartition(k)
    BY <1>4, SMT DEF FitsPartition, EntriesHeld
  <2>2. TypeAgreed(k)
    BY <1>4, SMT DEF TypeAgreed, GetBootSectorFatType, ClustersFound, FirstDataSector, U16
  <2>3. RoomForFats(k)
    BY <1>4, SMT DEF RoomForFats, PartsInside
  <2> QED
    BY <2>1, <2>2, <2>3
<1>5. CASE spc = 64 /\ k >= 1049600 /\ k < 2098176
  <2>1. FitsPartition(k)
    BY <1>5, SMT DEF FitsPartition, EntriesHeld
  <2>2. TypeAgreed(k)
    BY <1>5, SMT DEF TypeAgreed, GetBootSectorFatType, ClustersFound, FirstDataSector, U16
  <2>3. RoomForFats(k)
    BY <1>5, SMT DEF RoomForFats, PartsInside
  <2> QED
    BY <2>1, <2>2, <2>3
<1>6. CASE spc = 128 /\ k >= 2098176
  <2>1. FitsPartition(k)
    BY <1>6, SMT DEF FitsPartition, EntriesHeld
  <2>2. TypeAgreed(k)
    BY <1>6, SMT DEF TypeAgreed, GetBootSectorFatType, ClustersFound, FirstDataSector, U16
  <2>3. RoomForFats(k)
    BY <1>6, SMT DEF RoomForFats, PartsInside
  <2> QED
    BY <2>1, <2>2, <2>3
<1> HIDE DEF spc
<1> QED
  <2>1. \/ spc = 4 /\ k < 132096
        \/ spc = 8 /\ k >= 132096 /\ k < 263168
        \/ spc = 16 /\ k >= 263168 /\ k < 525312
        \/ spc = 32 /\ k >= 525312 /\ k < 1049600
        \/ spc = 64 /\ k >= 1049600 /\ k < 2098176
        \/ spc = 128 /\ k >= 2098176
    BY Clusters16 DEF spc
  <2> QED
    BY <1>1, <1>2, <1>3, <1>4, <1>5, <1>6, <2>1

\* The size of a cluster of a FAT12 file system.
LEMMA Clusters12Size ==
  ASSUME NEW k \in Nat, 100 <= k, k <= 32768
  PROVE  LET spc == SectorsPerCluster12(k)
         IN \/ spc = 4 /\ k <= 2048
            \/ spc = 8 /\ k > 2048 /\ k <= 4096
            \/ spc = 16 /\ k > 4096 /\ k <= 8192
            \/ spc = 32 /\ k > 8192 /\ k <= 16384
            \/ spc = 16 /\ k > 16384
  BY SMTT(30) DEF SectorsPerCluster12

\* An interval by its inequalities.
Within(n, high) == n \in Nat /\ 1 <= n /\ n <= high
USE DEF Within

\* A FAT12 file system before its limits are applied: nothing exceeds 16 bits, it
\* fits the partition, and the FATs have room for the clusters.
Unlimited12(k, spc) ==
  /\ Within(SectorsPerFat12(k), 13)
  /\ Within(Clusters12(k), 4999)
  /\ (Clusters12(k) + 2) * 3 <= SectorsPerFat12(k) * 1024
  /\ Clusters12(k) * spc + 2 * SectorsPerFat12(k) + 8 <= 2 * k
  /\ Clusters12(k) * spc < 65536

\* A FAT as long as w clusters need has room for them, and is at most 13 sectors.
LEMMA Fat12 ==
  ASSUME NEW w \in Nat, w <= 4095
  PROVE  LET f == DivUp(U16((U16(w) + 2) * 3), 1024)
         IN Within(f, 13) /\ (w + 2) * 3 <= f * 1024
<1>1. U16((U16(w) + 2) * 3) = (w + 2) * 3
  BY SMT DEF U16
<1> QED
  BY <1>1, SMT DEF DivUp

\* The bounds hold for the clusters of every size: with the size of a cluster
\* fixed, what is computed by shifting is linear.
LEMMA Bounds12 ==
  ASSUME NEW k \in Nat, 100 <= k, k <= 32768
  PROVE  Unlimited12(k, SectorsPerCluster12(k))
<1> DEFINE spc == SectorsPerCluster12(k)
           f == SectorsPerFat12(k)
           n == Clusters12(k)
<1>1. CASE spc = 4 /\ k <= 2048
  <2> DEFINE w == (k * 2 - 7 - 1) \div 4
  <2>1. f = DivUp(U16((U16(w) + 2) * 3), 1024)
    BY <1>1 DEF SectorsPerFat12, Available12
  <2>2. w \in Nat /\ w <= 4095
    BY <1>1, SMT
  <2>3. Within(f, 13) /\ (w + 2) * 3 <= f * 1024
    BY <2>1, <2>2, Fat12
  <2>4. n = U16((k * 2 - 7 - 1 - 2 * f) \div 4)
    BY <1>1 DEF Clusters12, Available12
  <2> HIDE DEF f, n
  <2>5. n = (k * 2 - 7 - 1 - 2 * f) \div 4 /\ Within(n, 4999)
    BY <1>1, <2>3, <2>4, SMT DEF U16
  <2>6. n * 4 + 2 * f + 8 <= 2 * k /\ n * 4 < 65536 /\ (n + 2) * 3 <= f * 1024
    BY <1>1, <2>3, <2>5, SMT
  <2>7. Unlimited12(k, 4)
    BY <2>3, <2>5, <2>6 DEF Unlimited12, f, n
  <2> QED
    BY <1>1, <2>7
<1>2. CASE spc = 8 /\ k > 2048 /\ k <= 4096
  <2> DEFINE w == (k * 2 - 7 - 1) \div 8
  <2>1. f = DivUp(U16((U16(w) + 2) * 3), 1024)
    BY <1>2 DEF SectorsPerFat12, Available12
  <2>2. w \in Nat /\ w <= 4095
    BY <1>2, SMT
  <2>3. Within(f, 13) /\ (w + 2) * 3 <= f * 1024
    BY <2>1, <2>2, Fat12
  <2>4. n = U16((k * 2 - 7 - 1 - 2 * f) \div 8)
    BY <1>2 DEF Clusters12, Available12
  <2> HIDE DEF f, n
  <2>5. n = (k * 2 - 7 - 1 - 2 * f) \div 8 /\ Within(n, 4999)
    BY <1>2, <2>3, <2>4, SMT DEF U16
  <2>6. n * 8 + 2 * f + 8 <= 2 * k /\ n * 8 < 65536 /\ (n + 2) * 3 <= f * 1024
    BY <1>2, <2>3, <2>5, SMT
  <2>7. Unlimited12(k, 8)
    BY <2>3, <2>5, <2>6 DEF Unlimited12, f, n
  <2> QED
    BY <1>2, <2>7
<1>3. CASE spc = 16 /\ k > 4096 /\ k <= 8192
  <2> DEFINE w == (k * 2 - 7 - 1) \div 16
  <2>1. f = DivUp(U16((U16(w) + 2) * 3), 1024)
    BY <1>3 DEF SectorsPerFat12, Available12
  <2>2. w \in Nat /\ w <= 4095
    BY <1>3, SMT
  <2>3. Within(f, 13) /\ (w + 2) * 3 <= f * 1024
    BY <2>1, <2>2, Fat12
  <2>4. n = U16((k * 2 - 7 - 1 - 2 * f) \div 16)
    BY <1>3 DEF Clusters12, Available12
  <2> HIDE DEF f, n
  <2>5. n = (k * 2 - 7 - 1 - 2 * f) \div 16 /\ Within(n, 4999)
    BY <1>3, <2>3, <2>4, SMT DEF U16
  <2>6. n * 16 + 2 * f + 8 <= 2 * k /\ n * 16 < 65536 /\ (n + 2) * 3 <= f * 1024
    BY <1>3, <2>3, <2>5, SMT
  <2>7. Unlimited12(k, 16)
    BY <2>3, <2>5, <2>6 DEF Unlimited12, f, n
  <2> QED
    BY <1>3, <2>7
<1>4. CASE spc = 32 /\ k > 8192 /\ k <= 16384
  <2> DEFINE w == (k * 2 - 7 - 1) \div 32
  <2>1. f = DivUp(U16((U16(w) + 2) * 3), 1024)
    BY <1>4 DEF SectorsPerFat12, Available12
  <2>2. w \in Nat /\ w <= 4095
    BY <1>4, SMT
  <2>3. Within(f, 13) /\ (w + 2) * 3 <= f * 1024
    BY <2>1, <2>2, Fat12
  <2>4. n = U16((k * 2 - 7 - 1 - 2 * f) \div 32)
    BY <1>4 DEF Clusters12, Available12
  <2> HIDE DEF f, n
  <2>5. n = (k * 2 - 7 - 1 - 2 * f) \div 32 /\ Within(n, 4999)
    BY <1>4, <2>3, <2>4, SMT DEF U16
  <2>6. n * 32 + 2 * f + 8 <= 2 * k /\ n * 32 < 65536 /\ (n + 2) * 3 <= f * 1024
    BY <1>4, <2>3, <2>5, SMT
  <2>7. Unlimited12(k, 32)
    BY <2>3, <2>5, <2>6 DEF Unlimited12, f, n
  <2> QED
    BY <1>4, <2>7
<1>5. CASE spc = 16 /\ k > 16384
  <2> DEFINE w == (k * 2 - 7 - 1) \div 16
  <2>1. f = DivUp(U16((U16(w) + 2) * 3), 1024)
    BY <1>5 DEF SectorsPerFat12, Available12
  <2>2. w \in Nat /\ w <= 4095
    BY <1>5, SMT
  <2>3. Within(f, 13) /\ (w + 2) * 3 <= f * 1024
    BY <2>1, <2>2, Fat12
  <2>4. n = U16((k * 2 - 7 - 1 - 2 * f) \div 16)
    BY <1>5 DEF Clusters12, Available12
  <2> HIDE DEF f, n
  <2>5. n = (k * 2 - 7 - 1 - 2 * f) \div 16 /\ Within(n, 4999)
    BY <1>5, <2>3, <2>4, SMT DEF U16
  <2>6. n * 16 + 2 * f + 8 <= 2 * k /\ n * 16 < 65536 /\ (n + 2) * 3 <= f * 1024
    BY <1>5, <2>3, <2>5, SMT
  <2>7. Unlimited12(k, 16)
    BY <2>3, <2>5, <2>6 DEF Unlimited12, f, n
  <2> QED
    BY <1>5, <2>7
<1> HIDE DEF spc
<1> QED
  <2>1. \/ spc = 4 /\ k <= 2048
        \/ spc = 8 /\ k > 2048 /\ k <= 4096
        \/ spc = 16 /\ k > 4096 /\ k <= 8192
        \/ spc = 32 /\ k > 8192 /\ k <= 16384
        \/ spc = 16 /\ k > 16384
    BY Clusters12Size, SMT DEF spc
  <2> QED
    BY <1>1, <1>2, <1>3, <1>4, <1>5, <2>1 DEF spc

\* A FAT12 file system of n clusters of spc sectors and FATs of f sectors is found
\* as such and fits.
Sound12(k, p) ==
  /\ p.totalSectors <= k * 2 /\ p.clusterCount > 0
  /\ p.dataSectors = p.clusterCount * p.sectorsPerCluster
  /\ p.clusterCount + 2 <= EntriesHeld(p)
  /\ GetBootSectorFatType(p) = 12 /\ Recognized(p)
  /\ PartsInside(p) /\ ~p.isFat16
Made12(n, f, spc) == Parameters(n * spc, n, f, spc, FALSE)

Fits12(k, n, f, spc) ==
  /\ k \in Nat /\ spc \in {4, 8, 16, 32} /\ Within(n, 4084) /\ Within(f, 13)
  /\ (n + 2) * 3 <= f * 1024 /\ n * spc + 2 * f + 8 <= 2 * k

\* The count of clusters read back from a FAT12 boot sector is the one it was made with.
LEMMA Found12 ==
  ASSUME NEW k, NEW n, NEW f, NEW spc, Fits12(k, n, f, spc)
  PROVE  Sound12(k, Made12(n, f, spc))
<1>0. k \in Nat /\ Within(n, 4084) /\ Within(f, 13) /\ (n + 2) * 3 <= f * 1024
  BY DEF Fits12
<1>s. spc \in {4, 8, 16, 32} /\ n * spc + 2 * f + 8 <= 2 * k
  BY DEF Fits12
<1> USE <1>0 DEF Sound12, Made12, Parameters, EntriesHeld, U16, GetBootSectorFatType,
       ClustersFound, FirstDataSector, Recognized, PartsInside
<1>1. ASSUME n * 4 + 2 * f + 8 <= 2 * k PROVE Sound12(k, Made12(n, f, 4))
  BY <1>1, SMTT(60)
<1>2. ASSUME n * 8 + 2 * f + 8 <= 2 * k PROVE Sound12(k, Made12(n, f, 8))
  BY <1>2, SMTT(60)
<1>3. ASSUME n * 16 + 2 * f + 8 <= 2 * k PROVE Sound12(k, Made12(n, f, 16))
  BY <1>3, SMTT(60)
<1>4. ASSUME n * 32 + 2 * f + 8 <= 2 * k PROVE Sound12(k, Made12(n, f, 32))
  BY <1>4, SMTT(60)
<1> HIDE DEF Sound12, Made12
<1> QED
  BY <1>s, <1>1, <1>2, <1>3, <1>4, SMT

\* What the code computes, without the names it gives it.
LEMMA Shape12 ==
  ASSUME NEW k
  PROVE  CalculateFatFileSystemParametersFat12(k) =
           IF Clusters12(k) - MaxClusters12(k) > 0
           THEN Parameters(U16(Clusters12(k) * SectorsPerCluster12(k))
                             - U16((Clusters12(k) - MaxClusters12(k)) * SectorsPerCluster12(k)),
                           MaxClusters12(k), MaxSectorsPerFat12(k), SectorsPerCluster12(k), FALSE)
           ELSE Parameters(U16(Clusters12(k) * SectorsPerCluster12(k)), Clusters12(k),
                           SectorsPerFat12(k), SectorsPerCluster12(k), FALSE)
  BY Zenon DEF CalculateFatFileSystemParametersFat12

HIDE DEF Sizes, MIN_PARTITION_SIZE_IN_K, MAX_FAT12_PARTITION_SIZE_IN_K,
         MAX_FAT16_PARTITION_SIZE_IN_K, MAX_FAT12_CLUSTER_COUNT, MAX_FAT16_CLUSTER_COUNT,
         FAT_COPIES, FAT12_ROOT_SECTORS, FAT16_ROOT_SECTORS, RootSectors

\* The areas of a FAT12 file system one after the other, inside its partition.
LEMMA Layout12 ==
  ASSUME NEW k \in Sizes, k <= MAX_FAT12_PARTITION_SIZE_IN_K
  PROVE  /\ FitsPartition(k) /\ TypeAgreed(k) /\ RoomForFats(k)
         /\ Recognized(CalculateFatFileSystemParameters(k))
<1> DEFINE spc == SectorsPerCluster12(k)
           n == Clusters12(k)
           f == SectorsPerFat12(k)
           max == MaxClusters12(k)
           fs == MaxSectorsPerFat12(k)
           p == CalculateFatFileSystemParameters(k)
<1>0. k \in Nat /\ 100 <= k /\ k <= 32768
  BY SMT DEF Sizes, MIN_PARTITION_SIZE_IN_K, MAX_FAT12_PARTITION_SIZE_IN_K
<1>1. k \in Nat /\ ~(k > MAX_FAT12_PARTITION_SIZE_IN_K) /\ spc \in {4, 8, 16, 32}
  <2>1. k \in Nat /\ ~(k > MAX_FAT12_PARTITION_SIZE_IN_K)
    BY <1>0, SMT DEF MAX_FAT12_PARTITION_SIZE_IN_K
  <2>2. spc \in {4, 8, 16, 32}
    BY <1>0, Clusters12Size
  <2> QED
    BY <2>1, <2>2
<1>2. /\ Within(f, 13) /\ Within(n, 4999) /\ (n + 2) * 3 <= f * 1024
  BY <1>0, Bounds12 DEF Unlimited12
<1>3. n * spc + 2 * f + 8 <= 2 * k /\ n * spc < 65536
  BY <1>0, Bounds12 DEF Unlimited12
<1>4. \/ max = 1021 /\ fs = 3
      \/ max = 4084 /\ fs = 12
  BY SMT DEF MaxClusters12, MaxSectorsPerFat12, MAX_FAT12_CLUSTER_COUNT
<1>5. p = CalculateFatFileSystemParametersFat12(k)
  BY <1>1 DEF CalculateFatFileSystemParameters
<1>6. /\ n - max > 0 =>
           p = Parameters(U16(n * spc) - U16((n - max) * spc), max, fs, spc, FALSE)
      /\ ~(n - max > 0) => p = Parameters(U16(n * spc), n, f, spc, FALSE)
  BY <1>5, Shape12
<1> HIDE DEF spc, n, f, max, fs, p
<1>7. \A m \in Nat : m < 65536 => U16(m) = m
  BY SMT DEF U16
<1>8. Sound12(k, p)
  <2>1. U16(n * spc) = n * spc
    BY <1>1, <1>2, <1>3, <1>7, SMT
  <2>2. CASE n - max > 0
    <3>1. (max + 2) * 3 <= fs * 1024 /\ Within(max, 4084) /\ Within(fs, 13) /\ fs <= f
      BY <1>2, <1>4, <2>2, SMT
    <3>2. U16((n - max) * spc) = (n - max) * spc
      BY <1>1, <1>2, <1>3, <1>7, <2>2, <3>1, SMT
    <3>3. n * spc - (n - max) * spc = max * spc /\ max * spc + 2 * fs + 8 <= 2 * k
      BY <1>1, <1>2, <1>3, <2>2, <3>1, SMT
    <3>4. p = Made12(max, fs, spc)
      <4>1. U16(n * spc) - U16((n - max) * spc) = max * spc
        BY <2>1, <3>2, <3>3
      <4> QED
        BY <1>6, <2>2, <4>1 DEF Made12
    <3>5. Fits12(k, max, fs, spc)
      BY <1>1, <3>1, <3>3 DEF Fits12
    <3> QED
      BY <3>4, <3>5, Found12
  <2>3. CASE ~(n - max > 0)
    <3>1. Within(n, 4084)
      BY <1>2, <1>4, <2>3, SMT
    <3>2. p = Made12(n, f, spc)
      BY <1>6, <2>1, <2>3 DEF Made12
    <3>3. Fits12(k, n, f, spc)
      BY <1>1, <1>2, <1>3, <3>1 DEF Fits12
    <3> QED
      BY <3>2, <3>3, Found12
  <2> QED
    BY <2>2, <2>3
<1> QED
  <2>1. RoomForFats(k)
    BY <1>1, <1>8 DEF p, Sound12, RoomForFats
  <2> QED
    BY <1>1, <1>8, <2>1 DEF p, Sound12, FitsPartition, TypeAgreed

\* They include the sizes of partitions.
LEMMA PartitionsToo == Sizes \subseteq FormatSizes
  BY DEF Sizes, FormatSizes, MIN_PARTITION_SIZE_IN_K, MIN_DEVICE_SIZE_IN_K

\* A device smaller than a partition can be has one sector per FAT.
LEMMA LayoutSmall ==
  ASSUME NEW k \in FormatSizes, k < MIN_PARTITION_SIZE_IN_K
  PROVE  RoomForFats(k)
<1> DEFINE c == (2 * k - 10) \div 4
<1>1. k \in Nat /\ k >= 10 /\ k < 100
  BY DEF FormatSizes, MIN_DEVICE_SIZE_IN_K, MIN_PARTITION_SIZE_IN_K
<1>2. SectorsPerCluster12(k) = 4 /\ Available12(k) = 2 * k - 8 /\ MaxClusters12(k) = 1021
  BY <1>1 DEF SectorsPerCluster12, Available12, MaxClusters12, FAT12_ROOT_SECTORS
<1>3. SectorsPerFat12(k) = 1
  <2> DEFINE m == (2 * k - 8) \div 4
  <2>1. m \in Nat /\ m <= 47
    BY <1>1
  <2>2. SectorsPerFat12(k) = DivUp(U16((U16(m) + 2) * 3), 1024)
    BY <1>2 DEF SectorsPerFat12
  <2> HIDE DEF m
  <2>3. U16(m) = m /\ U16((m + 2) * 3) = (m + 2) * 3
    BY <2>1 DEF U16
  <2> QED
    BY <2>1, <2>2, <2>3 DEF DivUp
<1>4. c \in Nat /\ c * 4 + 10 <= k * 2 /\ c <= 47
  BY <1>1
<1>5. Clusters12(k) = U16(c)
  <2>1. Available12(k) - FAT_COPIES * SectorsPerFat12(k) = 2 * k - 10
    BY <1>1, <1>2, <1>3 DEF FAT_COPIES
  <2> QED
    BY <1>2, <2>1 DEF Clusters12
<1> HIDE DEF c
<1>6. U16(c) = c /\ U16(c * 4) = c * 4
  BY <1>4 DEF U16
<1>7. CalculateFatFileSystemParameters(k) = Parameters(c * 4, c, 1, 4, FALSE)
  <2>1. ~(k > MAX_FAT12_PARTITION_SIZE_IN_K)
    BY <1>1 DEF MAX_FAT12_PARTITION_SIZE_IN_K
  <2>2. ~(c - 1021 > 0)
    BY <1>4
  <2> QED
    BY <1>2, <1>3, <1>5, <1>6, <2>1, <2>2, Shape12 DEF CalculateFatFileSystemParameters
<1> QED
  BY <1>1, <1>4, <1>7 DEF RoomForFats, PartsInside, Parameters, RootSectors, FAT12_ROOT_SECTORS,
     FAT_COPIES, MAX_FAT12_PARTITION_SIZE_IN_K

\* The parts of every file system lie inside what is formatted.
LEMMA RoomForAll == ASSUME NEW k \in FormatSizes PROVE RoomForFats(k)
<1>1. k < MIN_PARTITION_SIZE_IN_K \/ k \in Sizes
  BY DEF FormatSizes, Sizes, MIN_PARTITION_SIZE_IN_K
<1> QED
  BY <1>1, LayoutSmall, Layout12, Layout16 DEF Sizes, MAX_FAT12_PARTITION_SIZE_IN_K

\* A file system that FDISK creates fits its partition, whatever the size, and
\* its FATs have an entry for each cluster.
THEOREM FileSystemsFit == \A k \in Sizes : FitsPartition(k)
  BY Layout12, Layout16, SMT DEF Sizes, MAX_FAT12_PARTITION_SIZE_IN_K

\* No file system that FDISK creates is read with the wrong kind of FAT.
THEOREM FatTypesAgree == \A k \in Sizes : TypeAgreed(k)
  BY Layout12, Layout16, SMT DEF Sizes, MAX_FAT12_PARTITION_SIZE_IN_K

\* Of the sizes that are whole megabytes every file system is recognized: the
\* kernel refuses one only between whole megabytes, just above 128 MB and its
\* doubles.
THEOREM WholeMegabytesRecognized ==
  \A m \in Nat : m * 1024 \in Sizes =>
      Recognized(CalculateFatFileSystemParameters(m * 1024))
<1> SUFFICES ASSUME NEW m \in Nat, m * 1024 \in Sizes
             PROVE  Recognized(CalculateFatFileSystemParameters(m * 1024))
  OBVIOUS
<1> USE DEF Sizes, MIN_PARTITION_SIZE_IN_K, MAX_FAT12_PARTITION_SIZE_IN_K,
       MAX_FAT16_PARTITION_SIZE_IN_K, MAX_FAT16_CLUSTER_COUNT, FAT_COPIES,
       FAT16_ROOT_SECTORS, RootSectors
<1> DEFINE k == m * 1024
           spc == SectorsPerCluster16(k)
<1>1. CASE k <= MAX_FAT12_PARTITION_SIZE_IN_K
  BY <1>1, Layout12
<1>2. CASE k > MAX_FAT12_PARTITION_SIZE_IN_K
  <2> USE DEF Recognized, CalculateFatFileSystemParameters,
         CalculateFatFileSystemParametersFat16, Parameters, DivUp
  <2>1. CASE spc = 4 /\ m <= 128
    BY <1>2, <2>1, SMTT(60)
  <2>2. CASE spc = 8 /\ m > 128 /\ m <= 256
    BY <1>2, <2>2, SMTT(60)
  <2>3. CASE spc = 16 /\ m > 256 /\ m <= 512
    BY <1>2, <2>3, SMTT(60)
  <2>4. CASE spc = 32 /\ m > 512 /\ m <= 1024
    BY <1>2, <2>4, SMTT(60)
  <2>5. CASE spc = 64 /\ m > 1024 /\ m <= 2048
    BY <1>2, <2>5, SMTT(60)
  <2>6. CASE spc = 128 /\ m > 2048
    BY <1>2, <2>6, SMTT(60)
  <2> HIDE DEF Recognized, CalculateFatFileSystemParameters
  <2> QED
    BY <1>2, <2>1, <2>2, <2>3, <2>4, <2>5, <2>6, Clusters16, SMT
<1> QED
  BY <1>1, <1>2, SMT

HIDE DEF Within

-----------------------------------------------------------------------------
(* FDISK. *)

\* The constants that are numbers.
LEMMA Bounds ==
    /\ MAX_PARTITIONS_TO_HANDLE \in Nat /\ MaxErrors \in Nat /\ MaxCommits \in Nat
    /\ Dos1 \in BOOLEAN
  BY FdiskAssumption

-----------------------------------------------------------------------------
(* The sectors that a list of partitions takes. *)

\* The first n partitions have sizes.
Sized(ps, n) == \A i \in 1..n : ps[i].sizeInK \in Nat

\* v adds them up.
Adds(ps, n, v) == \A i \in 0..n : v[i] = IF i = 0 THEN 0
                                         ELSE v[i - 1] + ps[i].sizeInK * 2 + EXTRA_PARTITION_SECTORS

\* The first n partitions of two lists have the same sizes.
SameSizes(ps, qs, n) == \A i \in 1..n : ps[i].sizeInK = qs[i].sizeInK

\* The same sizes have the same sums.
LEMMA OneSum ==
    ASSUME NEW n \in Nat, NEW ps, NEW qs, SameSizes(ps, qs, n),
           NEW v, NEW w, Adds(ps, n, v), Adds(qs, n, w)
    PROVE  \A i \in 0..n : v[i] = w[i]
<1> DEFINE T == {i \in 0..n : v[i] # w[i]}
<1> SUFFICES ASSUME T # {} PROVE FALSE
  OBVIOUS
<1>1. PICK k \in T : \A i \in T : k <= i
  <2>1. T \in SUBSET Nat
    OBVIOUS
  <2> HIDE DEF T
  <2> QED
    BY <2>1, LeastNatural
<1>2. k # 0
  BY DEF Adds
<1>3. k \in 1..n /\ k - 1 \in 0..n /\ k - 1 \notin T
  BY <1>1, <1>2
<1>4. v[k - 1] = w[k - 1]
  BY <1>3
<1> QED
  BY <1>1, <1>2, <1>3, <1>4 DEF Adds, SameSizes

\* There are sums.
LEMMA SumsExist ==
    ASSUME NEW n \in Nat, NEW ps, Sized(ps, n)
    PROVE  \E v \in [0..n -> Nat] : Adds(ps, n, v)
<1> DEFINE T == {m \in 0..n : ~ \E v \in [0..m -> Nat] : Adds(ps, m, v)}
<1> SUFFICES ASSUME T # {} PROVE FALSE
  OBVIOUS
<1>1. PICK k \in T : \A i \in T : k <= i
  <2>1. T \in SUBSET Nat
    OBVIOUS
  <2> HIDE DEF T
  <2> QED
    BY <2>1, LeastNatural
<1>2. k # 0
  <2> SUFFICES ASSUME k = 0 PROVE FALSE
    OBVIOUS
  <2> DEFINE v == [i \in 0..0 |-> 0]
  <2>1. v \in [0..0 -> Nat] /\ Adds(ps, 0, v)
    BY DEF Adds
  <2> QED
    BY <1>1, <2>1
<1>3. k \in 1..n /\ k - 1 \in 0..n /\ k - 1 \notin T
  <2>1. T \subseteq 0..n
    OBVIOUS
  <2> HIDE DEF T
  <2> QED
    BY <1>1, <1>2, <2>1
<1>4. PICK w \in [0..k - 1 -> Nat] : Adds(ps, k - 1, w)
  BY <1>3
<1> DEFINE v == [i \in 0..k |-> IF i < k THEN w[i]
                               ELSE w[k - 1] + ps[k].sizeInK * 2 + EXTRA_PARTITION_SECTORS]
<1>5. v \in [0..k -> Nat]
  <2>1. PICK z \in Nat, u \in Nat : ps[k].sizeInK = z /\ w[k - 1] = u
    BY <1>3, <1>4 DEF Sized
  <2>2. u + z * 2 + EXTRA_PARTITION_SECTORS \in Nat
    BY DEF EXTRA_PARTITION_SECTORS
  <2>3. \A i \in 0..k : i < k => i \in 0..k - 1
    BY <1>3
  <2> QED
    BY <1>4, <2>1, <2>2, <2>3
<1>6. Adds(ps, k, v)
  BY <1>3, <1>4 DEF Adds
<1> QED
  BY <1>1, <1>5, <1>6

\* UsedByFirst is a sum.
LEMMA UsedIs ==
    ASSUME NEW n \in Nat, NEW ps, NEW v, Adds(ps, n, v)
    PROVE  UsedByFirst(ps, n) = v[n]
<1> DEFINE Is(u) == u = [i \in 0..n |-> IF i = 0 THEN 0
                             ELSE u[i - 1] + ps[i].sizeInK * 2 + EXTRA_PARTITION_SECTORS]
           g == CHOOSE u : Is(u)
           w == [i \in 0..n |-> v[i]]
<1>1. Is(w)
  BY DEF Adds
<1>2. Is(g)
  <2> HIDE DEF Is
  <2> QED
    BY <1>1
<1>3. Adds(ps, n, g)
  <2> HIDE DEF g
  <2> QED
    BY <1>2 DEF Adds
<1>4. UsedByFirst(ps, n) = g[n]
  BY Zenon DEF UsedByFirst
<1>5. g[n] = v[n]
  <2> HIDE DEF g
  <2>1. SameSizes(ps, ps, n)
    BY DEF SameSizes
  <2>2. \A i \in 0..n : g[i] = v[i]
    BY <1>3, <2>1, OneSum
  <2> QED
    BY <2>2
<1> QED
  BY <1>4, <1>5

\* No partitions take no sectors.
LEMMA UsedNone == ASSUME NEW ps PROVE UsedByFirst(ps, 0) = 0
<1> DEFINE v == [i \in 0..0 |-> 0]
<1>1. Adds(ps, 0, v)
  BY DEF Adds
<1> QED
  BY <1>1, UsedIs

\* Each takes twice its kilobytes and the sector of its table.
LEMMA UsedNext ==
    ASSUME NEW n \in Nat \ {0}, NEW ps, Sized(ps, n)
    PROVE  /\ UsedByFirst(ps, n) \in Nat /\ UsedByFirst(ps, n - 1) \in Nat
           /\ UsedByFirst(ps, n) = UsedByFirst(ps, n - 1) + ps[n].sizeInK * 2 + 1
<1>1. PICK v \in [0..n -> Nat] : Adds(ps, n, v)
  BY SumsExist
<1>2. Adds(ps, n - 1, v) /\ n - 1 \in Nat
  BY <1>1 DEF Adds
<1>3. UsedByFirst(ps, n) = v[n] /\ UsedByFirst(ps, n - 1) = v[n - 1]
  BY <1>1, <1>2, UsedIs
<1> QED
  BY <1>1, <1>2, <1>3 DEF Adds, EXTRA_PARTITION_SECTORS

\* Only the sizes matter.
LEMMA UsedSame ==
    ASSUME NEW n \in Nat, NEW ps, NEW qs, Sized(ps, n), SameSizes(ps, qs, n)
    PROVE  UsedByFirst(ps, n) = UsedByFirst(qs, n)
<1>1. PICK v \in [0..n -> Nat] : Adds(ps, n, v)
  BY SumsExist
<1>2. Adds(qs, n, v)
  <2> SUFFICES ASSUME NEW i \in 1..n PROVE v[i] = v[i - 1] + qs[i].sizeInK * 2 + EXTRA_PARTITION_SECTORS
    BY <1>1 DEF Adds
  <2>1. ps[i].sizeInK = qs[i].sizeInK
    BY DEF SameSizes
  <2>2. v[i] = v[i - 1] + ps[i].sizeInK * 2 + EXTRA_PARTITION_SECTORS
    BY <1>1 DEF Adds
  <2> QED
    BY <2>1, <2>2
<1> QED
  BY <1>1, <1>2, UsedIs

\* The partitions lie one after the other.
LEMMA UsedGrows ==
    ASSUME NEW n \in Nat, NEW ps, Sized(ps, n), NEW m \in 0..n
    PROVE  /\ UsedByFirst(ps, m) \in Nat
           /\ \A k \in 0..n : m <= k => UsedByFirst(ps, m) <= UsedByFirst(ps, k)
<1>1. PICK v \in [0..n -> Nat] : Adds(ps, n, v)
  BY SumsExist
<1>2. \A k \in 0..n : UsedByFirst(ps, k) = v[k]
  <2> TAKE k \in 0..n
  <2>1. k \in Nat /\ Adds(ps, k, v)
    BY <1>1 DEF Adds
  <2> QED
    BY <2>1, UsedIs
<1> DEFINE T == {k \in 0..n : m <= k /\ v[m] > v[k]}
<1>3. T = {}
  <2> SUFFICES ASSUME T # {} PROVE FALSE
    OBVIOUS
  <2>1. PICK k \in T : \A i \in T : k <= i
    <3>1. T \in SUBSET Nat
      OBVIOUS
    <3> HIDE DEF T
    <3> QED
      BY <3>1, LeastNatural
  <2>2. k # m
    BY <2>1
  <2>3. k \in 1..n /\ k - 1 \in 0..n /\ m <= k - 1 /\ k - 1 \notin T
    BY <2>1, <2>2
  <2>4. v[m] \in Nat /\ v[k] \in Nat /\ v[k - 1] \in Nat /\ v[m] <= v[k - 1]
    BY <1>1, <2>3
  <2>5. PICK z \in Nat : v[k] = v[k - 1] + z * 2 + 1
    <3>1. v[k] = v[k - 1] + ps[k].sizeInK * 2 + 1 /\ ps[k].sizeInK \in Nat
      BY <1>1, <2>3 DEF Adds, Sized, EXTRA_PARTITION_SECTORS
    <3> QED
      BY <3>1
  <2>6. v[m] > v[k]
    BY <2>1
  <2> QED
    BY <2>4, <2>5, <2>6
<1>4. \A k \in 0..n : m <= k => v[m] <= v[k]
  <2>1. \A k \in 0..n : v[m] \in Nat /\ v[k] \in Nat
    BY <1>1
  <2> QED
    BY <1>3, <2>1
<1>5. v[m] \in Nat
  BY <1>1
<1> HIDE DEF T
<1> QED
  BY <1>2, <1>4, <1>5

-----------------------------------------------------------------------------
(* What is found on a device, whatever it holds. *)

Tables == [1..4 -> TableEntry]

\* Every sector reads as a partition table.
LEMMA TableType == ASSUME NEW d, NEW n, Disk(d, n), NEW s PROVE Table(d, s) \in Tables
<1>1. NoEntry \in TableEntry
  BY DEF NoEntry, TableEntry, Byte
<1>2. EmptyTable \in Tables
  BY <1>1 DEF EmptyTable, Tables
<1> QED
  BY <1>2 DEF Table, Disk, Tables

\* F_GPART answers with what a table entry may hold.
LEMMA AnswerType ==
    ASSUME NEW d, NEW n, Disk(d, n), NEW p \in 1..4, NEW e
    PROVE  /\ F_GPART(d, p, e).type \in Byte /\ F_GPART(d, p, e).status \in Byte
           /\ F_GPART(d, p, e).size \in Nat
<1> DEFINE x == Table(d, 0)[p]
           s == ChainedSectors(d, x.first)[e]
           y == Table(d, s)[1]
<1>1. x \in TableEntry /\ y \in TableEntry
  BY TableType DEF Tables
<1> HIDE DEF s
<1>2. CASE e = 0
  BY <1>1, <1>2 DEF F_GPART, TableEntry
<1>3. CASE e # 0
  <2>1. F_GPART(d, p, e).type = y.type /\ F_GPART(d, p, e).status = y.status
        /\ F_GPART(d, p, e).size = y.size
    BY <1>3 DEF F_GPART, s
  <2> QED
    BY <1>1, <2>1 DEF TableEntry
<1> QED
  BY <1>2, <1>3

\* The entry of the list for a partition found.
LEMMA InfoType ==
    ASSUME NEW d, NEW n, Disk(d, n), NEW p \in 1..4, NEW e \in 0..MAX_PARTITIONS_TO_HANDLE
    PROVE  Info(d, p, e) \in Partition
<1> DEFINE f == F_GPART(d, p, e)
<1>1. f.type \in Byte /\ f.status \in Byte /\ f.size \in Nat
  BY AnswerType
<1> HIDE DEF f
<1>2. f.size \div 2 \in Nat
  BY <1>1
<1> QED
  BY <1>1, <1>2 DEF Info, Partition, f

\* What is found under an entry of the first table is a list of partitions.
LEMMA FoundUnderType ==
    ASSUME NEW d, NEW n, Disk(d, n), NEW p \in 1..4
    PROVE  FoundUnder(d, p) \in Seq(Partition)
<1> DEFINE E == {e \in 1..MAX_PARTITIONS_TO_HANDLE : F_GPART(d, p, e).sector # NoSector}
           k == Cardinality(E)
<1>1. k \in Nat /\ k <= MAX_PARTITIONS_TO_HANDLE
  <2>1. IsFiniteSet(1..MAX_PARTITIONS_TO_HANDLE)
        /\ Cardinality(1..MAX_PARTITIONS_TO_HANDLE) = MAX_PARTITIONS_TO_HANDLE
    BY FS_Interval, Bounds
  <2>2. E \subseteq 1..MAX_PARTITIONS_TO_HANDLE
    OBVIOUS
  <2> HIDE DEF E
  <2>3. IsFiniteSet(E) /\ Cardinality(E) <= MAX_PARTITIONS_TO_HANDLE
    BY <2>1, <2>2, FS_Subset
  <2> QED
    BY <2>3, FS_CardinalityType
<1> HIDE DEF k
<1>2. [e \in 1..k |-> Info(d, p, e)] \in Seq(Partition)
  <2>1. ASSUME NEW e \in 1..k PROVE Info(d, p, e) \in Partition
    <3>1. e \in 0..MAX_PARTITIONS_TO_HANDLE
      BY <1>1, Bounds
    <3> QED
      BY <3>1, InfoType
  <2>2. [e \in 1..k |-> Info(d, p, e)] \in [1..k -> Partition]
    BY <2>1
  <2> QED
    BY <1>1, <2>2
<1>3. <<Info(d, p, 0)>> \in Seq(Partition)
  <2>1. 0 \in 0..MAX_PARTITIONS_TO_HANDLE
    BY Bounds
  <2>2. Info(d, p, 0) \in Partition
    BY <2>1, InfoType
  <2> QED
    BY <2>2
<1>4. FoundUnder(d, p) \in {<<>>, <<Info(d, p, 0)>>, [e \in 1..k |-> Info(d, p, e)]}
  <2>1. CASE F_GPART(d, p, 0).sector = NoSector
    BY <2>1 DEF FoundUnder
  <2>2. CASE F_GPART(d, p, 0).sector # NoSector /\ ~IsExtended(F_GPART(d, p, 0).type)
    BY <2>2, Zenon DEF FoundUnder
  <2>3. CASE F_GPART(d, p, 0).sector # NoSector /\ IsExtended(F_GPART(d, p, 0).type)
    BY <2>3, Zenon DEF FoundUnder, k
  <2> QED
    BY <2>1, <2>2, <2>3
<1>5. <<>> \in Seq(Partition)
  OBVIOUS
<1> QED
  BY <1>2, <1>3, <1>4, <1>5, Zenon

\* The first k elements of a list.
LEMMA FirstFew ==
    ASSUME NEW S, NEW ps \in Seq(S), NEW k \in 0..Len(ps)
    PROVE  SubSeq(ps, 1, k) \in Seq(S) /\ Len(SubSeq(ps, 1, k)) = k
  OBVIOUS

\* What is found is a list of partitions, not longer than FDISK handles.
LEMMA FoundType ==
    ASSUME NEW d, NEW n, Disk(d, n)
    PROVE  Found(d) \in Seq(Partition) /\ Len(Found(d)) <= MAX_PARTITIONS_TO_HANDLE
<1> DEFINE all == FoundUnder(d, 1) \o FoundUnder(d, 2) \o FoundUnder(d, 3) \o FoundUnder(d, 4)
           k == IF Len(all) < MAX_PARTITIONS_TO_HANDLE THEN Len(all) ELSE MAX_PARTITIONS_TO_HANDLE
<1>1. /\ FoundUnder(d, 1) \in Seq(Partition) /\ FoundUnder(d, 2) \in Seq(Partition)
      /\ FoundUnder(d, 3) \in Seq(Partition) /\ FoundUnder(d, 4) \in Seq(Partition)
  <2>1. 1 \in 1..4 /\ 2 \in 1..4 /\ 3 \in 1..4 /\ 4 \in 1..4
    OBVIOUS
  <2> QED
    BY <2>1, FoundUnderType
<1>2. all \in Seq(Partition)
  BY <1>1
<1>3. Found(d) = SubSeq(all, 1, k)
  BY DEF Found
<1> HIDE DEF all
<1>4. k \in 0..Len(all) /\ k <= MAX_PARTITIONS_TO_HANDLE
  BY <1>2, Bounds
<1> HIDE DEF k
<1> QED
  BY <1>2, <1>3, <1>4, FirstFew

-----------------------------------------------------------------------------
(* Writing sectors of the device. *)

\* The other value of a status flag is a byte.
LEMMA FlippedType == ASSUME NEW m \in Byte PROVE Flipped(m) \in Byte
<1>1. m \in Nat
  BY DEF Byte
<1>2. Flipped(m) \in Nat /\ Flipped(m) < 256
  BY <1>1 DEF Flipped
<1>3. \A x \in Nat : x < 256 => x \in Byte
  BY DEF Byte
<1> QED
  BY <1>2, <1>3

\* The device has its size, and a disk.
DeviceType == /\ device = [sectors |-> device.sectors, disk |-> device.disk]
              /\ device.sectors \in Nat /\ device.sectors >= MIN_DEVICE_SIZE_IN_K * 2
              /\ Disk(disk, device.sectors)

\* What a sector may hold.
Content(c) == c.kind \in {"boot", "fat"} \/ (c.kind = "table" /\ c.entries \in Tables)

\* Device e differs from this one at most in the sectors of S.
Touches(e, S) == /\ e = [sectors |-> device.sectors, disk |-> e.disk]
                 /\ Disk(e.disk, device.sectors)
                 /\ \A t \in Nat \ S : /\ t \in DOMAIN e.disk <=> t \in DOMAIN disk
                                       /\ t \in DOMAIN disk => e.disk[t] = disk[t]

\* One sector is written.
LEMMA PutTouches ==
    ASSUME DeviceType, NEW s \in 0..device.sectors - 1, NEW c, Content(c)
    PROVE  Touches(Put(s, c), {s}) /\ s \in DOMAIN Put(s, c).disk /\ Put(s, c).disk[s] = c
<1> DEFINE d == [t \in DOMAIN disk \cup {s} |-> IF t = s THEN c ELSE disk[t]]
<1>1. /\ DOMAIN d = DOMAIN disk \cup {s} /\ d[s] = c
      /\ d = [t \in DOMAIN d |-> d[t]]
      /\ \A t \in DOMAIN disk \ {s} : d[t] = disk[t]
  OBVIOUS
<1> HIDE DEF d
<1>2. Put(s, c) = [sectors |-> device.sectors, disk |-> d]
  BY DEF Put, DeviceType, d
<1>3. Disk(d, device.sectors)
  BY <1>1 DEF Disk, DeviceType, Content, Tables
<1> QED
  BY <1>1, <1>2, <1>3 DEF Touches

\* A range of sectors is cleared.
LEMMA ClearedTouches ==
    ASSUME DeviceType, NEW from \in Nat, NEW to \in Nat
    PROVE  Touches(Cleared(from, to), from..to)
<1> DEFINE d == [s \in {x \in DOMAIN disk : x < from \/ x > to} |-> disk[s]]
<1>1. Cleared(from, to) = [sectors |-> device.sectors, disk |-> d]
  BY DEF Cleared, DeviceType
<1>2. DOMAIN disk \subseteq Nat
  BY DEF DeviceType, Disk
<1>3. Disk(d, device.sectors)
  BY DEF Disk, DeviceType
<1> QED
  BY <1>1, <1>2, <1>3 DEF Touches

-----------------------------------------------------------------------------
(* The list in memory and the sectors that are left. *)

ListType ==
    partitions \in Seq(Partition) /\ Len(partitions) <= MAX_PARTITIONS_TO_HANDLE

\* A size that is offered can be given to a partition.
Offer(free, auto) ==
    free >= MIN_REMAINING_SIZE_FOR_NEW_PARTITIONS_IN_K * 2 + EXTRA_PARTITION_SECTORS =>
        auto \in Sizes /\ auto * 2 + EXTRA_PARTITION_SECTORS <= free

SpaceOK ==
    /\ unpartitionnedSpaceInSectors \in 0..device.sectors
    /\ autoPartitionSizeInK \in Nat
    /\ screen # "out" => Offer(unpartitionnedSpaceInSectors, autoPartitionSizeInK)

\* A list that was made here: one primary partition, the others are in the
\* extended one, and the type goes by the size.
Made(ps) ==
    \A i \in 1..Len(ps) :
        /\ ps[i].primaryIndex = (IF i = 1 THEN 1 ELSE 2) /\ ps[i].extendedIndex = i - 1
        /\ ps[i].sizeInK \in Sizes
        /\ ps[i].partitionType = (IF ps[i].sizeInK > MAX_FAT12_PARTITION_SIZE_IN_K THEN 14 ELSE 1)

\* It fills the device, but for what is left.
Fills(ps, free, n, less) ==
    /\ Used(ps) + free <= n
    /\ less \/ Used(ps) + free = n

ListOK ==
    /\ ~partitionsExistInDisk =>
         /\ Made(partitions)
         /\ Fills(partitions, unpartitionnedSpaceInSectors, device.sectors, stale)
    /\ ~CanCreatePartitions => partitions = <<>>

\* Whatever was offered before, what is offered now is right.
LEMMA Offered ==
    ASSUME NEW auto \in Nat, NEW free \in Nat, NEW all \in BOOLEAN
    PROVE  /\ RecalculateAutoPartitionSize(auto, free, all) \in Nat
           /\ Offer(free, RecalculateAutoPartitionSize(auto, free, all))
<1> DEFINE max == MaxAbsolutePartitionSizeInK(free)
<1>1. max \in Nat /\ (free >= 201 => max >= 100 /\ max * 2 + 1 <= free)
  BY DEF MaxAbsolutePartitionSizeInK, EXTRA_PARTITION_SECTORS
<1> HIDE DEF max
<1>2. Dos1 \in BOOLEAN
  BY Bounds
<1> QED
  BY <1>1, <1>2 DEF RecalculateAutoPartitionSize, max, Offer, AtMost, Sizes,
     MIN_PARTITION_SIZE_IN_K, MAX_FAT16_PARTITION_SIZE_IN_K, EXTRA_PARTITION_SECTORS,
     MIN_REMAINING_SIZE_FOR_NEW_PARTITIONS_IN_K

\* The empty list is a list.
LEMMA NoneListed == <<>> \in Seq(Partition) /\ Len(<<>>) = 0 /\ Len(<<>>) <= MAX_PARTITIONS_TO_HANDLE
  BY Bounds

\* The empty list is made here and fills nothing.
LEMMA NoneMade ==
    ASSUME NEW n \in Nat, NEW less, NEW free \in 0..n, less \/ free = n
    PROVE  Made(<<>>) /\ Fills(<<>>, free, n, less)
<1>1. Used(<<>>) = 0
  BY UsedNone DEF Used
<1> QED
  BY <1>1 DEF Made, Fills

\* One partition more takes the sectors that are subtracted.
LEMMA OneMore ==
    ASSUME NEW ps \in Seq(Partition), NEW r \in Partition
    PROVE  Used(ps) \in Nat /\ Used(Append(ps, r)) = Used(ps) + r.sizeInK * 2 + 1
<1> DEFINE qs == Append(ps, r)
           n == Len(ps)
<1>1. n \in Nat /\ qs \in Seq(Partition) /\ Len(qs) = n + 1 /\ qs[n + 1] = r
      /\ \A i \in 1..n : qs[i] = ps[i]
  OBVIOUS
<1>2. Sized(qs, n + 1) /\ Sized(ps, n) /\ SameSizes(ps, qs, n)
  <2>1. (\A i \in 1..n + 1 : qs[i] \in Partition) /\ (\A i \in 1..n : ps[i] \in Partition)
    BY <1>1
  <2> HIDE DEF qs, n
  <2>2. Sized(qs, n + 1) /\ Sized(ps, n)
    BY <2>1 DEF Sized, Partition
  <2>3. SameSizes(ps, qs, n)
    BY <1>1 DEF SameSizes
  <2> QED
    BY <2>2, <2>3
<1> HIDE DEF qs, n
<1>3. UsedByFirst(qs, n + 1) = UsedByFirst(qs, n) + r.sizeInK * 2 + 1
      /\ UsedByFirst(qs, n) \in Nat
  <2>1. n + 1 \in Nat \ {0} /\ (n + 1) - 1 = n
    BY <1>1
  <2> QED
    BY <1>1, <1>2, <2>1, UsedNext
<1>4. UsedByFirst(ps, n) = UsedByFirst(qs, n)
  BY <1>1, <1>2, UsedSame
<1> QED
  BY <1>1, <1>3, <1>4 DEF Used, qs, n

\* One partition less gives them back.
LEMMA OneLess ==
    ASSUME NEW ps \in Seq(Partition), ps # <<>>
    PROVE  /\ Front(ps) \in Seq(Partition) /\ Len(Front(ps)) = Len(ps) - 1
           /\ Last(ps) \in Partition
           /\ \A i \in 1..Len(ps) - 1 : Front(ps)[i] = ps[i]
           /\ Used(ps) = Used(Front(ps)) + Last(ps).sizeInK * 2 + 1 /\ Used(Front(ps)) \in Nat
<1>1. /\ Front(ps) \in Seq(Partition) /\ Len(Front(ps)) = Len(ps) - 1
      /\ Last(ps) \in Partition
      /\ \A i \in 1..Len(ps) - 1 : Front(ps)[i] = ps[i]
  <2>1. Len(ps) \in Nat /\ Len(ps) >= 1 /\ Len(ps) - 1 \in 0..Len(ps)
    OBVIOUS
  <2>2. Front(ps) \in Seq(Partition) /\ Len(Front(ps)) = Len(ps) - 1
    BY <2>1, FirstFew DEF Front
  <2>3. Last(ps) \in Partition
    BY <2>1 DEF Last
  <2>4. ASSUME NEW i \in 1..Len(ps) - 1 PROVE Front(ps)[i] = ps[i]
    BY <2>1 DEF Front
  <2> QED
    BY <2>2, <2>3, <2>4
<1>2. Append(Front(ps), Last(ps)) = ps
  BY DEF Front, Last
<1> QED
  BY <1>1, <1>2, OneMore

\* Adding a partition that fits keeps the list and the space.
LEMMA AddedOK ==
    ASSUME ListType, SpaceOK, ListOK, CanAddPartitionsNow, device.sectors \in Nat,
           MAX_PARTITIONS_TO_HANDLE \in Nat,
           NEW size \in Sizes, size * 2 + 1 <= unpartitionnedSpaceInSectors
    PROVE  /\ Added(size) \in Seq(Partition) /\ Len(Added(size)) <= MAX_PARTITIONS_TO_HANDLE
           /\ FreeAfter(size) \in 0..device.sectors
           /\ Made(Added(size)) /\ Fills(Added(size), FreeAfter(size), device.sectors, stale)
<1> DEFINE n == Len(partitions)
           r == [primaryIndex |-> IF n = 0 THEN 1 ELSE 2, extendedIndex |-> n,
                 partitionType |-> IF size > MAX_FAT12_PARTITION_SIZE_IN_K THEN 14 ELSE 1,
                 status |-> IF n = 0 THEN 128 ELSE 0, sizeInK |-> size]
<1>1. n \in Nat /\ n < MAX_PARTITIONS_TO_HANDLE /\ partitions \in Seq(Partition)
      /\ ~partitionsExistInDisk /\ size \in Nat
  BY DEF ListType, CanAddPartitionsNow, Sizes
<1>2. Added(size) = Append(partitions, r)
  BY DEF Added
<1> HIDE DEF n
<1>3. r \in Partition
  BY <1>1 DEF Partition, Byte
<1>4. FreeAfter(size) = (unpartitionnedSpaceInSectors - size * 2) - 1
  BY DEF FreeAfter, EXTRA_PARTITION_SECTORS
<1>5. FreeAfter(size) \in 0..device.sectors
  BY <1>1, <1>4 DEF SpaceOK
<1>6. Made(Added(size))
  <2>1. Made(partitions)
    BY <1>1 DEF ListOK
  <2> HIDE DEF r
  <2>2. /\ Len(Append(partitions, r)) = n + 1 /\ Append(partitions, r)[n + 1] = r
        /\ \A i \in 1..n : Append(partitions, r)[i] = partitions[i]
    BY <1>1 DEF n
  <2>3. /\ r.primaryIndex = (IF n + 1 = 1 THEN 1 ELSE 2) /\ r.extendedIndex = (n + 1) - 1
        /\ r.sizeInK \in Sizes
        /\ r.partitionType = (IF r.sizeInK > MAX_FAT12_PARTITION_SIZE_IN_K THEN 14 ELSE 1)
    BY <1>1 DEF r
  <2>4. SUFFICES ASSUME NEW i \in 1..n + 1
                 PROVE LET q == Append(partitions, r)[i]
                       IN /\ q.primaryIndex = (IF i = 1 THEN 1 ELSE 2) /\ q.extendedIndex = i - 1
                          /\ q.sizeInK \in Sizes
                          /\ q.partitionType = (IF q.sizeInK > MAX_FAT12_PARTITION_SIZE_IN_K
                                                THEN 14 ELSE 1)
    BY <1>2, <2>2 DEF Made
  <2>5. CASE i = n + 1
    BY <2>2, <2>3, <2>5
  <2>6. CASE i \in 1..n
    BY <2>1, <2>2, <2>6 DEF Made, n
  <2>7. i = n + 1 \/ i \in 1..n
    BY <1>1, <2>4
  <2> QED
    BY <2>5, <2>6, <2>7, Zenon
<1>7. Fills(Added(size), FreeAfter(size), device.sectors, stale)
  <2>1. Used(Added(size)) = Used(partitions) + size * 2 + 1 /\ Used(partitions) \in Nat
    BY <1>1, <1>2, <1>3, OneMore
  <2>2. Fills(partitions, unpartitionnedSpaceInSectors, device.sectors, stale)
    BY <1>1 DEF ListOK
  <2> QED
    BY <1>1, <1>4, <2>1, <2>2 DEF Fills, SpaceOK
<1>8. Added(size) \in Seq(Partition) /\ Len(Added(size)) <= MAX_PARTITIONS_TO_HANDLE
  <2> HIDE DEF r
  <2> QED
    BY <1>1, <1>2, <1>3 DEF n
<1> QED
  BY <1>5, <1>6, <1>7, <1>8

\* What is offered or accepted can be given to a partition.
LEMMA OfferedFits ==
    ASSUME SpaceOK, screen = "menu", CanAddPartitionsNow
    PROVE  /\ autoPartitionSizeInK \in Sizes
           /\ autoPartitionSizeInK * 2 + 1 <= unpartitionnedSpaceInSectors
  BY DEF SpaceOK, Offer, CanAddPartitionsNow, EXTRA_PARTITION_SECTORS

\* A number of megabytes that is accepted is one to 4096.
LEMMA Megabytes == ASSUME NEW m \in Nat, NEW x \in 1..AtMost(m, 4096)
                   PROVE  x \in Nat /\ x >= 1 /\ x <= 4096
  BY DEF AtMost

\* A size that is entered, cut down to what is left, fits.
LEMMA EnteredFits ==
    ASSUME SpaceOK, CanAddPartitionsNow, device.sectors \in Nat,
           NEW entered \in [n : Nat, inK : BOOLEAN], Accepted(entered)
    PROVE  LET asked == IF entered.inK THEN entered.n ELSE entered.n * 1024
               size == AtMost(asked, MaxAbsolutePartitionSizeInK(unpartitionnedSpaceInSectors))
           IN /\ size \in Sizes /\ size * 2 + 1 <= unpartitionnedSpaceInSectors
              /\ AtMost(asked, MaxAbsolutePartitionSizeInK(FreeAfter(size))) \in Nat
<1> DEFINE free == unpartitionnedSpaceInSectors
           max == MaxAbsolutePartitionSizeInK(free)
           asked == IF entered.inK THEN entered.n ELSE entered.n * 1024
           size == AtMost(asked, max)
           rest == FreeAfter(size)
<1>1. free \in Nat /\ free >= 201
  BY DEF SpaceOK, CanAddPartitionsNow, MIN_REMAINING_SIZE_FOR_NEW_PARTITIONS_IN_K,
     EXTRA_PARTITION_SECTORS
<1>2. max \in Nat /\ max >= 100 /\ max * 2 + 1 <= free
  BY <1>1 DEF MaxAbsolutePartitionSizeInK, EXTRA_PARTITION_SECTORS
<1>3. asked \in Nat /\ asked >= 100 /\ asked <= 4194304
  <2>1. CASE entered.inK
    BY <1>2, <2>1 DEF Accepted, AtMost, MIN_PARTITION_SIZE_IN_K
  <2>2. CASE ~entered.inK
    <3> DEFINE m == U16((free \div 2) \div 1024)
    <3>1. entered.n \in 1..AtMost(m, 4096) /\ m \in Nat
      BY <1>1, <2>2 DEF Accepted, U16
    <3> HIDE DEF m
    <3>2. entered.n \in Nat /\ entered.n >= 1 /\ entered.n <= 4096
      BY <3>1, Megabytes
    <3> QED
      BY <2>2, <3>2
  <2> QED
    BY <2>1, <2>2
<1>4. rest = (free - size * 2) - 1
  BY DEF FreeAfter, EXTRA_PARTITION_SECTORS
<1> HIDE DEF free, max, asked, rest
<1>5. size \in Sizes /\ size * 2 + 1 <= free /\ size \in Nat
  BY <1>1, <1>2, <1>3 DEF AtMost, Sizes, MIN_PARTITION_SIZE_IN_K, MAX_FAT16_PARTITION_SIZE_IN_K
<1>6. MaxAbsolutePartitionSizeInK(rest) \in Nat
  <2>1. rest \in Nat
    BY <1>1, <1>4, <1>5
  <2> QED
    BY <2>1 DEF MaxAbsolutePartitionSizeInK, EXTRA_PARTITION_SECTORS
<1> QED
  BY <1>3, <1>5, <1>6 DEF AtMost, free, max, asked, rest

-----------------------------------------------------------------------------
(* The invariant of everything but the contents of the sectors. *)

\* The table of partition i; the partition lies behind it.
Begin(ps, i) == UsedByFirst(ps, i - 1)

Stages == {"boot", "zero", "fat1", "fat2"}

\* The table of a partition is about to be written, or a part of its file system.
WritingTable(ps, j) ==
    /\ j = [index |-> j.index, next |-> Begin(ps, j.index), extended |-> j.extended,
            format |-> [stage |-> "table"]]
    /\ j.index \in 1..Len(ps)
    /\ j.index > 1 => j.extended = Begin(ps, 2)
WritingFats(ps, j) ==
    /\ j = [index |-> j.index, next |-> Begin(ps, j.index + 1), extended |-> Begin(ps, 2),
            format |-> [stage |-> j.format.stage, first |-> Begin(ps, j.index) + 1,
                        sizeInK |-> ps[j.index].sizeInK]]
    /\ j.index \in 1..Len(ps)
    /\ j.format.stage \in Stages

\* The whole device is formatted.
FormattingAll(n, j) ==
    /\ j = [index |-> 0, format |-> [stage |-> j.format.stage, first |-> 0, sizeInK |-> n \div 2]]
    /\ j.format.stage \in Stages
    /\ n \div 2 \in FormatSizes

JobOK ==
    /\ screen \in {"out", "search", "menu", "done", "formatted"} => job = Idle
    /\ screen = "write" => WritingTable(partitions, job) \/ WritingFats(partitions, job)
    /\ screen \in {"write", "done"} => ~partitionsExistInDisk
    /\ screen = "format" => FormattingAll(device.sectors, job)

MiscType ==
    /\ rootFilesystemFatType \in {0, 12, 16}
    /\ screen \in {"out", "search", "menu", "write", "format", "done", "formatted"}
    /\ errors \in 0..MaxErrors /\ commits \in 0..MaxCommits

FlagsType ==
    /\ partitionsExistInDisk \in BOOLEAN /\ partitionsDeletedFromDisk \in BOOLEAN
    /\ doubtful \in BOOLEAN /\ stale \in BOOLEAN

SafeInv == DeviceType /\ ListType /\ SpaceOK /\ ListOK /\ JobOK /\ MiscType /\ FlagsType

\* It says what TypeOK says.
LEMMA SafeIsTyped == SafeInv => TypeOK
<1> SUFFICES ASSUME SafeInv PROVE TypeOK
  OBVIOUS
<1>1. job.index \in 0..Len(partitions)
  <2>1. Len(partitions) \in Nat
    BY DEF SafeInv, ListType
  <2>2. CASE job = Idle
    BY <2>1, <2>2 DEF Idle
  <2>3. CASE screen = "write"
    BY <2>1, <2>3 DEF SafeInv, JobOK, WritingTable, WritingFats
  <2>4. CASE screen = "format"
    <3>1. FormattingAll(device.sectors, job)
      BY <2>4 DEF SafeInv, JobOK
    <3> QED
      BY <2>1, <3>1 DEF FormattingAll
  <2> QED
    BY <2>2, <2>3, <2>4 DEF SafeInv, JobOK, MiscType
<1>2. \A i \in Parts : partitions[i] \in Partition
  BY DEF SafeInv, ListType, Parts
<1>3. {partitionsExistInDisk, partitionsDeletedFromDisk, doubtful, stale} \subseteq BOOLEAN
  BY DEF SafeInv, FlagsType
<1> QED
  BY <1>1, <1>2, <1>3 DEF SafeInv, TypeOK, DeviceType, ListType, SpaceOK, MiscType

\* SpaceAccounted is part of it.
LEMMA SafeIsAccounted == SafeInv => SpaceAccounted
<1> SUFFICES ASSUME SafeInv, ~partitionsExistInDisk
             PROVE  /\ Made(partitions)
                    /\ Fills(partitions, unpartitionnedSpaceInSectors, device.sectors, stale)
  BY DEF SpaceAccounted, Made, Fills, Parts
<1> QED
  BY DEF SafeInv, ListOK

\* SafeInv holds before a device is selected.
LEMMA SafeAtFirst == Init => SafeInv
<1> SUFFICES ASSUME Init PROVE SafeInv
  OBVIOUS
<1>1. device \in Devices
  BY DEF Init
<1>2. DeviceType
  BY <1>1, FdiskAssumption DEF DeviceType, disk
<1>3. ListType
  BY NoneListed, Zenon DEF Init, ListType
<1>4. SpaceOK
  BY <1>2 DEF Init, SpaceOK, DeviceType
<1>5. ListOK
  BY DEF Init, ListOK
<1>6. JobOK
  BY DEF Init, JobOK
<1>7. MiscType
  <2>1. rootFilesystemFatType = 0 /\ screen = "out" /\ errors = 0 /\ commits = 0
    BY DEF Init
  <2>2. 0 \in 0..MaxErrors /\ 0 \in 0..MaxCommits
    BY Bounds
  <2> QED
    BY <2>1, <2>2, Zenon DEF MiscType
<1>8. FlagsType
  BY Zenon DEF Init, FlagsType
<1> QED
  BY <1>2, <1>3, <1>4, <1>5, <1>6, <1>7, <1>8 DEF SafeInv

\* Selecting a device keeps it: all of the device is free.
LEMMA SafeInitialize == ASSUME SafeInv, InitializePartitioningVariables PROVE SafeInv'
<1>1. DeviceType'
  BY DEF SafeInv, InitializePartitioningVariables, DeviceType, disk, Disk
<1>2. ListType'
  BY NoneListed, Zenon DEF InitializePartitioningVariables, ListType
<1>3. SpaceOK'
  <2>1. autoPartitionSizeInK \in Nat /\ device.sectors \in Nat
    BY DEF SafeInv, SpaceOK, DeviceType
  <2>2. /\ autoPartitionSizeInK' =
             RecalculateAutoPartitionSize(autoPartitionSizeInK, device.sectors, TRUE)
        /\ device' = device /\ unpartitionnedSpaceInSectors' = device.sectors
    BY DEF InitializePartitioningVariables
  <2>3. autoPartitionSizeInK' \in Nat /\ Offer(device.sectors, autoPartitionSizeInK')
    BY <2>1, <2>2, Offered
  <2>4. device.sectors \in 0..device.sectors
    BY <2>1
  <2> QED
    BY <2>2, <2>3, <2>4, Zenon DEF SpaceOK
<1>4. ListOK'
  BY DEF InitializePartitioningVariables, ListOK
<1>5. JobOK'
  BY DEF SafeInv, InitializePartitioningVariables, JobOK
<1>6. MiscType'
  BY Zenon DEF SafeInv, InitializePartitioningVariables, MiscType, counts
<1>7. FlagsType'
  BY Zenon DEF InitializePartitioningVariables, FlagsType
<1> QED
  BY <1>1, <1>2, <1>3, <1>4, <1>5, <1>6, <1>7 DEF SafeInv

\* One error more, within the bound.
LEMMA Counted == ASSUME MiscType, Fails PROVE errors' \in 0..MaxErrors
  BY Bounds DEF MiscType, Fails

\* So does searching it, for whatever is found until an error.
LEMMA SafeSearch ==
    ASSUME SafeInv, NEW complete \in BOOLEAN, NEW readable \in BOOLEAN,
           GetDiskPartitionsInfo(complete, readable)
    PROVE  SafeInv'
<1>0. /\ device' = device /\ job' = job /\ space' = space /\ commits' = commits
      /\ screen = "search" /\ screen' = "menu"
      /\ stale' = (unpartitionnedSpaceInSectors # device.sectors)
  BY Zenon DEF GetDiskPartitionsInfo
<1>1. DeviceType'
  BY <1>0 DEF SafeInv, DeviceType, disk, Disk
<1>2. stale' \/ unpartitionnedSpaceInSectors = device.sectors
  BY <1>0, Zenon
<1>3. unpartitionnedSpaceInSectors \in 0..device.sectors /\ device.sectors \in Nat
  BY DEF SafeInv, SpaceOK, DeviceType
<1>4. Made(<<>>) /\ Fills(<<>>, unpartitionnedSpaceInSectors, device.sectors, stale')
  BY <1>2, <1>3, NoneMade
<1>5. partitions' = <<>> => Made(partitions')
          /\ Fills(partitions', unpartitionnedSpaceInSectors', device'.sectors, stale')
  BY <1>0, <1>4, Zenon DEF space
<1>6. ListType' /\ ListOK' /\ FlagsType'
  <2>1. CASE CanCreatePartitions
    <3>1. Found(disk) \in Seq(Partition) /\ Len(Found(disk)) <= MAX_PARTITIONS_TO_HANDLE
      BY FoundType DEF SafeInv, DeviceType
    <3>2. PICK n \in 0..Len(Found(disk)) :
             /\ partitions' = SubSeq(Found(disk), 1, n)
             /\ partitionsExistInDisk' = (n > 0)
             /\ partitionsDeletedFromDisk' = FALSE
      BY <2>1, Zenon DEF GetDiskPartitionsInfo
    <3>3. partitions' \in Seq(Partition) /\ Len(partitions') = n /\ n <= MAX_PARTITIONS_TO_HANDLE
      <4>1. SubSeq(Found(disk), 1, n) \in Seq(Partition) /\ Len(SubSeq(Found(disk), 1, n)) = n
        BY <3>1, FirstFew
      <4>2. n <= MAX_PARTITIONS_TO_HANDLE
        BY <3>1, Bounds
      <4> QED
        BY <3>2, <4>1, <4>2, Zenon
    <3>4. ListType'
      BY <3>3, Zenon DEF ListType
    <3>5. ~partitionsExistInDisk' => partitions' = <<>>
      <4> SUFFICES ASSUME ~partitionsExistInDisk' PROVE partitions' = <<>>
        OBVIOUS
      <4>1. ~(n > 0)
        BY <3>2, Zenon
      <4>2. n = 0
        BY <3>1, <4>1
      <4> QED
        BY <3>3, <4>2
    <3>6. CanCreatePartitions'
      BY <1>0, <2>1, Zenon DEF CanCreatePartitions
    <3>7. ListOK'
      BY <1>5, <3>5, <3>6, Zenon DEF ListOK
    <3>8. FlagsType'
      <4>1. doubtful' = ~complete /\ partitionsExistInDisk' = (n > 0)
        BY <3>2, Zenon DEF GetDiskPartitionsInfo
      <4>2. (n > 0) \in BOOLEAN /\ (~complete) \in BOOLEAN
            /\ (unpartitionnedSpaceInSectors # device.sectors) \in BOOLEAN
        OBVIOUS
      <4> QED
        BY <1>0, <3>2, <4>1, <4>2, Zenon DEF FlagsType
    <3> QED
      BY <3>4, <3>7, <3>8
  <2>2. CASE ~CanCreatePartitions
    <3>1. list' = list /\ partitions = <<>>
      BY <2>2, Zenon DEF SafeInv, ListOK, GetDiskPartitionsInfo
    <3>2. ListType'
      BY <3>1, Zenon DEF SafeInv, ListType, list
    <3>3. ListOK'
      BY <1>5, <3>1, Zenon DEF ListOK, list
    <3>4. FlagsType'
      BY <3>1, Zenon DEF SafeInv, FlagsType, GetDiskPartitionsInfo, list
    <3> QED
      BY <3>2, <3>3, <3>4
  <2> QED
    BY <2>1, <2>2
<1>7. SpaceOK'
  BY <1>0 DEF SafeInv, SpaceOK, space
<1>8. JobOK'
  BY <1>0 DEF SafeInv, JobOK
<1>9. MiscType'
  <2>1. errors' \in 0..MaxErrors
    BY Counted, Zenon DEF GetDiskPartitionsInfo, SafeInv, MiscType
  <2>2. BootSectorFatType \in {0, 12, 16}
    BY DEF BootSectorFatType, GetBootSectorFatType
  <2>3. rootFilesystemFatType' \in {0, 12, 16}
    BY <2>2, Zenon DEF GetDiskPartitionsInfo
  <2>4. commits \in 0..MaxCommits
    BY DEF SafeInv, MiscType
  <2> QED
    BY <1>0, <2>1, <2>3, <2>4, Zenon DEF MiscType
<1> QED
  BY <1>1, <1>6, <1>7, <1>8, <1>9 DEF SafeInv

\* Deleting the partitions gives back all their sectors.
LEMMA SafeDelete == ASSUME SafeInv, DeleteAllPartitions PROVE SafeInv'
<1>0. /\ device' = device /\ job' = job /\ screen = "menu" /\ screen' = "menu"
      /\ partitions' = <<>> /\ partitions # <<>>
      /\ unpartitionnedSpaceInSectors' = device.sectors
      /\ autoPartitionSizeInK' =
             RecalculateAutoPartitionSize(autoPartitionSizeInK, device.sectors, TRUE)
      /\ UNCHANGED <<rootFilesystemFatType, errors, commits>>
  BY Zenon DEF DeleteAllPartitions, counts
<1>1. DeviceType'
  BY <1>0 DEF SafeInv, DeviceType, disk, Disk
<1>2. ListType'
  BY <1>0, NoneListed, Zenon DEF ListType
<1>3. SpaceOK'
  <2>1. autoPartitionSizeInK \in Nat /\ device.sectors \in Nat
    BY DEF SafeInv, SpaceOK, DeviceType
  <2>2. autoPartitionSizeInK' \in Nat /\ Offer(device.sectors, autoPartitionSizeInK')
    BY <1>0, <2>1, Offered
  <2>3. device.sectors \in 0..device.sectors
    BY <2>1
  <2> QED
    BY <1>0, <2>2, <2>3, Zenon DEF SpaceOK
<1>4. ListOK'
  <2>1. device.sectors \in Nat /\ device.sectors \in 0..device.sectors
    BY DEF SafeInv, DeviceType
  <2>2. Made(<<>>) /\ Fills(<<>>, device.sectors, device.sectors, FALSE)
    BY <2>1, NoneMade
  <2>3. stale' = FALSE
    BY DEF DeleteAllPartitions
  <2> QED
    BY <1>0, <2>2, <2>3, Zenon DEF ListOK
<1>5. JobOK'
  BY <1>0 DEF SafeInv, JobOK
<1>6. MiscType'
  BY <1>0, Zenon DEF SafeInv, MiscType
<1>7. FlagsType'
  BY Zenon DEF SafeInv, FlagsType, DeleteAllPartitions
<1> QED
  BY <1>1, <1>2, <1>3, <1>4, <1>5, <1>6, <1>7 DEF SafeInv

\* One partition more: it has to fit.
LEMMA SafeAdd ==
    ASSUME SafeInv, NEW size \in Sizes, size * 2 + 1 <= unpartitionnedSpaceInSectors,
           NEW next \in Nat, Add(size, next)
    PROVE  SafeInv'
<1>0. /\ device' = device /\ job' = job /\ screen = "menu" /\ screen' = "menu"
      /\ CanAddPartitionsNow
      /\ partitions' = Added(size) /\ unpartitionnedSpaceInSectors' = FreeAfter(size)
      /\ autoPartitionSizeInK' = RecalculateAutoPartitionSize(next, FreeAfter(size), FALSE)
      /\ UNCHANGED <<rootFilesystemFatType, errors, commits, partitionsExistInDisk,
                     partitionsDeletedFromDisk, doubtful, stale>>
  BY Zenon DEF Add, counts, history
<1>1. DeviceType'
  BY <1>0 DEF SafeInv, DeviceType, disk, Disk
<1>2. /\ Added(size) \in Seq(Partition) /\ Len(Added(size)) <= MAX_PARTITIONS_TO_HANDLE
      /\ FreeAfter(size) \in 0..device.sectors
      /\ Made(Added(size)) /\ Fills(Added(size), FreeAfter(size), device.sectors, stale)
  <2>1. device.sectors \in Nat /\ MAX_PARTITIONS_TO_HANDLE \in Nat
    BY Bounds DEF SafeInv, DeviceType
  <2> QED
    BY <1>0, <2>1, AddedOK DEF SafeInv
<1>3. ListType'
  BY <1>0, <1>2, Zenon DEF ListType
<1>4. SpaceOK'
  <2>1. FreeAfter(size) \in Nat
    BY <1>2
  <2>2. autoPartitionSizeInK' \in Nat /\ Offer(FreeAfter(size), autoPartitionSizeInK')
    BY <1>0, <2>1, Offered
  <2> QED
    BY <1>0, <1>2, <2>2, Zenon DEF SpaceOK
<1>5. ListOK'
  BY <1>0, <1>2, Zenon DEF ListOK, CanAddPartitionsNow, CanCreatePartitions
<1>6. JobOK'
  BY <1>0 DEF SafeInv, JobOK
<1>7. MiscType'
  BY <1>0, Zenon DEF SafeInv, MiscType
<1>8. FlagsType'
  BY <1>0, Zenon DEF SafeInv, FlagsType
<1> QED
  BY <1>1, <1>3, <1>4, <1>5, <1>6, <1>7, <1>8 DEF SafeInv

\* What is offered can be added,
LEMMA SafeAddAuto == ASSUME SafeInv, AddAutoPartition PROVE SafeInv'
<1>1. Add(autoPartitionSizeInK, autoPartitionSizeInK) /\ screen = "menu" /\ CanAddPartitionsNow
  BY Zenon DEF AddAutoPartition, Add
<1>2. autoPartitionSizeInK \in Sizes /\ autoPartitionSizeInK * 2 + 1 <= unpartitionnedSpaceInSectors
      /\ autoPartitionSizeInK \in Nat
  BY <1>1, OfferedFits DEF SafeInv, SpaceOK
<1> QED
  BY <1>1, <1>2, SafeAdd

\* and so can what is entered.
LEMMA SafeAddEntered ==
    ASSUME SafeInv, NEW entered \in EnteredSizes, AddPartition(entered) PROVE SafeInv'
<1> DEFINE asked == IF entered.inK THEN entered.n ELSE entered.n * 1024
           size == AtMost(asked, MaxAbsolutePartitionSizeInK(unpartitionnedSpaceInSectors))
           next == AtMost(asked, MaxAbsolutePartitionSizeInK(FreeAfter(size)))
<1>1. Accepted(entered) /\ Add(size, next) /\ CanAddPartitionsNow
  BY Zenon DEF AddPartition, Add
<1>2. entered \in [n : Nat, inK : BOOLEAN]
  BY FdiskAssumption, Zenon
<1>3. size \in Sizes /\ size * 2 + 1 <= unpartitionnedSpaceInSectors /\ next \in Nat
  <2>1. SpaceOK /\ device.sectors \in Nat
    BY DEF SafeInv, DeviceType
  <2> QED
    BY <1>1, <1>2, <2>1, EnteredFits
<1> HIDE DEF size, next
<1> QED
  BY <1>1, <1>3, SafeAdd

\* A list made here is still one without its last partition.
LEMMA SafeUndo == ASSUME SafeInv, UndoAddPartition PROVE SafeInv'
<1> DEFINE qs == Front(partitions)
           size == Last(partitions).sizeInK
           free == unpartitionnedSpaceInSectors + size * 2 + EXTRA_PARTITION_SECTORS
<1>0. /\ device' = device /\ job' = job /\ screen = "menu" /\ screen' = "menu"
      /\ ~partitionsExistInDisk /\ partitions # <<>>
      /\ partitions' = qs /\ unpartitionnedSpaceInSectors' = free
      /\ autoPartitionSizeInK' = RecalculateAutoPartitionSize(size, free, FALSE)
      /\ UNCHANGED <<rootFilesystemFatType, errors, commits, partitionsExistInDisk,
                     partitionsDeletedFromDisk, doubtful, stale>>
  BY Zenon DEF UndoAddPartition, counts, history
<1>1. DeviceType'
  BY <1>0 DEF SafeInv, DeviceType, disk, Disk
<1>2. /\ qs \in Seq(Partition) /\ Len(qs) = Len(partitions) - 1
      /\ Last(partitions) \in Partition
      /\ \A i \in 1..Len(partitions) - 1 : qs[i] = partitions[i]
      /\ Used(partitions) = Used(qs) + size * 2 + 1 /\ Used(qs) \in Nat
  BY <1>0, OneLess DEF SafeInv, ListType
<1>3. size \in Nat
  BY <1>2 DEF Partition
<1>4. free = (unpartitionnedSpaceInSectors + size * 2) + 1
  BY DEF EXTRA_PARTITION_SECTORS
<1>5. Made(partitions) /\ Fills(partitions, unpartitionnedSpaceInSectors, device.sectors, stale)
  BY <1>0, Zenon DEF SafeInv, ListOK
<1>6. unpartitionnedSpaceInSectors \in Nat /\ device.sectors \in Nat
  BY DEF SafeInv, SpaceOK, DeviceType
<1> HIDE DEF qs, size, free
<1>7. Fills(qs, free, device.sectors, stale) /\ free \in 0..device.sectors
  <2>1. Used(qs) + free = Used(partitions) + unpartitionnedSpaceInSectors
    BY <1>2, <1>3, <1>4, <1>6
  <2>2. Fills(qs, free, device.sectors, stale)
    BY <1>5, <2>1, Zenon DEF Fills
  <2>3. Used(qs) + free <= device.sectors
    BY <2>2, Zenon DEF Fills
  <2> QED
    BY <1>2, <1>3, <1>4, <1>6, <2>2, <2>3
<1>8. Made(qs)
  <2>1. Len(partitions) \in Nat
    BY DEF SafeInv, ListType
  <2> QED
    BY <1>2, <1>5, <2>1 DEF Made
<1>9. ListType'
  <2>1. Len(qs) <= MAX_PARTITIONS_TO_HANDLE
    BY <1>2, Bounds DEF SafeInv, ListType
  <2> QED
    BY <1>0, <1>2, <2>1, Zenon DEF ListType
<1>10. SpaceOK'
  <2>1. free \in Nat
    BY <1>7
  <2>2. autoPartitionSizeInK' \in Nat /\ Offer(free, autoPartitionSizeInK')
    BY <1>0, <1>3, <2>1, Offered
  <2> QED
    BY <1>0, <1>7, <2>2, Zenon DEF SpaceOK
<1>11. ListOK'
  BY <1>0, <1>7, <1>8, Zenon DEF SafeInv, ListOK, CanCreatePartitions
<1>12. JobOK'
  BY <1>0 DEF SafeInv, JobOK
<1>13. MiscType'
  BY <1>0, Zenon DEF SafeInv, MiscType
<1>14. FlagsType'
  BY <1>0, Zenon DEF SafeInv, FlagsType
<1> QED
  BY <1>1, <1>9, <1>10, <1>11, <1>12, <1>13, <1>14 DEF SafeInv

\* Turning over a flag leaves the list what it is, but for the flag.
LEMMA Turned ==
    ASSUME NEW ps \in Seq(Partition), NEW i \in 1..Len(ps)
    PROVE  LET qs == [ps EXCEPT ![i].status = Flipped(@)]
           IN /\ qs \in Seq(Partition) /\ Len(qs) = Len(ps)
              /\ Made(ps) => Made(qs)
              /\ Used(qs) = Used(ps)
<1> DEFINE qs == [ps EXCEPT ![i].status = Flipped(@)]
           n == Len(ps)
<1>1. n \in Nat /\ \A j \in 1..n : ps[j] \in Partition
  OBVIOUS
<1>2. ps[i] \in Partition /\ Flipped(ps[i].status) \in Byte
  BY <1>1, FlippedType DEF Partition
<1> DEFINE r == [ps[i] EXCEPT !.status = Flipped(ps[i].status)]
<1>3. ps = [j \in 1..n |-> ps[j]]
  OBVIOUS
<1>4. qs = [j \in 1..n |-> IF j = i THEN r ELSE ps[j]]
  <2>1. qs = [ps EXCEPT ![i] = r]
    OBVIOUS
  <2> HIDE DEF r, qs
  <2> QED
    BY <1>3, <2>1
<1>5. /\ r \in Partition /\ r.primaryIndex = ps[i].primaryIndex
      /\ r.extendedIndex = ps[i].extendedIndex /\ r.partitionType = ps[i].partitionType
      /\ r.sizeInK = ps[i].sizeInK
  BY <1>2 DEF Partition
<1> HIDE DEF r, qs
<1>6. qs \in Seq(Partition) /\ Len(qs) = n /\ n = Len(ps)
  <2>1. qs \in [1..n -> Partition]
    BY <1>1, <1>4, <1>5
  <2> HIDE DEF n
  <2>2. qs \in Seq(Partition) /\ Len(qs) = n
    BY <1>1, <2>1
  <2> QED
    BY <2>2 DEF n
<1>7. \A j \in 1..n : /\ qs[j].primaryIndex = ps[j].primaryIndex
                      /\ qs[j].extendedIndex = ps[j].extendedIndex
                      /\ qs[j].partitionType = ps[j].partitionType
                      /\ qs[j].sizeInK = ps[j].sizeInK
  BY <1>4, <1>5
<1>8. Made(ps) => Made(qs)
  BY <1>6, <1>7 DEF Made
<1>9. Used(qs) = Used(ps)
  <2>1. Sized(qs, n) /\ SameSizes(qs, ps, n)
    <3>1. \A j \in 1..n : qs[j] \in Partition
      BY <1>6
    <3> QED
      BY <1>7, <3>1 DEF Sized, SameSizes, Partition
  <2>2. UsedByFirst(qs, n) = UsedByFirst(ps, n)
    BY <1>1, <2>1, UsedSame
  <2> QED
    BY <1>6, <2>2 DEF Used
<1> QED
  BY <1>6, <1>8, <1>9 DEF qs

\* A device of which some sectors were written is one of the same size.
LEMMA StillDevice ==
    ASSUME DeviceType, NEW S, Touches(device', S)
    PROVE  DeviceType' /\ device'.sectors = device.sectors
<1>1. device' = [sectors |-> device.sectors, disk |-> device'.disk]
      /\ Disk(device'.disk, device.sectors)
  BY DEF Touches
<1>2. device'.sectors = device.sectors
  BY <1>1
<1> QED
  BY <1>1, <1>2 DEF DeviceType, disk

\* Turning an active flag over changes one table, or nothing.
LEMMA SafeToggle ==
    ASSUME SafeInv, NEW i \in 1..9, NEW ok \in BOOLEAN, TogglePartitionActive(i, ok)
    PROVE  SafeInv'
<1> DEFINE p == partitions[i]
           sector == F_GPART(disk, p.primaryIndex, p.extendedIndex).sector
           entry == IF p.extendedIndex = 0 THEN p.primaryIndex ELSE 1
           qs == [partitions EXCEPT ![i].status = Flipped(@)]
<1>0. /\ job' = job /\ screen = "menu" /\ screen' = "menu"
      /\ i \in 1..AtMost(Len(partitions), 9)
      /\ partitionsExistInDisk /\ ok => sector \in 0..device.sectors - 1
      /\ IF ok THEN UNCHANGED errors ELSE partitionsExistInDisk /\ Fails
      /\ device' = IF partitionsExistInDisk /\ ok THEN ToggleStatusBit(entry, sector) ELSE device
      /\ partitions' = IF ok THEN qs ELSE partitions
      /\ UNCHANGED <<rootFilesystemFatType, commits, space, partitionsExistInDisk,
                     partitionsDeletedFromDisk, doubtful, stale>>
  BY Zenon DEF TogglePartitionActive, history
<1>1. partitions \in Seq(Partition) /\ Len(partitions) \in Nat /\ i \in 1..Len(partitions)
  BY <1>0 DEF SafeInv, ListType, AtMost
<1>2. /\ qs \in Seq(Partition) /\ Len(qs) = Len(partitions)
      /\ Made(partitions) => Made(qs)
      /\ Used(qs) = Used(partitions)
  BY <1>1, Turned
<1> HIDE DEF qs, sector
<1>3. DeviceType' /\ device'.sectors = device.sectors
  <2>1. CASE partitionsExistInDisk /\ ok
    <3> DEFINE t == [Table(disk, sector) EXCEPT ![entry].status = Flipped(@)]
    <3>1. DeviceType /\ Disk(disk, device.sectors) /\ sector \in 0..device.sectors - 1
      BY <1>0, <2>1 DEF SafeInv, DeviceType
    <3>2. p \in Partition
      BY <1>1
    <3>3. entry \in 1..4
      BY <3>2 DEF Partition
    <3>4. Table(disk, sector) \in Tables
      BY <3>1, TableType
    <3> HIDE DEF entry, p
    <3>5. t \in Tables
      <4>1. Table(disk, sector)[entry] \in TableEntry
        BY <3>3, <3>4 DEF Tables
      <4>2. Flipped(Table(disk, sector)[entry].status) \in Byte
        BY <4>1, FlippedType DEF TableEntry
      <4>3. [Table(disk, sector)[entry] EXCEPT !.status = Flipped(@)] \in TableEntry
        BY <4>1, <4>2 DEF TableEntry
      <4> QED
        BY <3>3, <3>4, <4>3 DEF Tables
    <3>6. Content([kind |-> "table", entries |-> t])
      <4> HIDE DEF t
      <4> QED
        BY <3>5 DEF Content
    <3>7. device' = Put(sector, [kind |-> "table", entries |-> t])
      BY <1>0, <2>1 DEF ToggleStatusBit
    <3> HIDE DEF t
    <3>8. Touches(device', {sector})
      BY <3>1, <3>6, <3>7, PutTouches
    <3> QED
      BY <3>1, <3>8, StillDevice
  <2>2. CASE ~(partitionsExistInDisk /\ ok)
    <3>1. device' = device
      BY <1>0, <2>2, Zenon
    <3> QED
      BY <3>1 DEF SafeInv, DeviceType, disk, Disk
  <2> QED
    BY <2>1, <2>2
<1>4. ListType'
  BY <1>0, <1>2, Zenon DEF SafeInv, ListType
<1>5. SpaceOK'
  BY <1>0, <1>3, Zenon DEF SafeInv, SpaceOK, space
<1>6. ListOK'
  <2>1. CASE partitions' = partitions
    BY <1>0, <1>3, <2>1, Zenon DEF SafeInv, ListOK, CanCreatePartitions, space
  <2>2. CASE partitions' = qs /\ partitions # <<>>
    <3>1. CanCreatePartitions
      BY <2>2, Zenon DEF SafeInv, ListOK
    <3>2. ~partitionsExistInDisk =>
              Made(qs) /\ Fills(qs, unpartitionnedSpaceInSectors, device.sectors, stale)
      BY <1>2, Zenon DEF SafeInv, ListOK, Fills
    <3> QED
      BY <1>0, <1>3, <2>2, <3>1, <3>2, Zenon DEF ListOK, CanCreatePartitions, space
  <2>3. partitions # <<>>
    BY <1>1
  <2> QED
    BY <1>0, <2>1, <2>2, <2>3, Zenon
<1>7. JobOK'
  BY <1>0 DEF SafeInv, JobOK
<1>8. MiscType'
  <2>1. errors' \in 0..MaxErrors
    BY <1>0, Counted, Zenon DEF SafeInv, MiscType
  <2> QED
    BY <1>0, <2>1, Zenon DEF SafeInv, MiscType
<1>9. FlagsType'
  BY <1>0, Zenon DEF SafeInv, FlagsType
<1> QED
  BY <1>3, <1>4, <1>5, <1>6, <1>7, <1>8, <1>9 DEF SafeInv

\* One commit more, within the bound.
LEMMA Committed == ASSUME MiscType, Commit PROVE commits' \in 0..MaxCommits
  BY Bounds DEF MiscType, Commit

\* Formatting the whole device starts at its first sector.
LEMMA SafeFormat == ASSUME SafeInv, FormatWithoutPartitions PROVE SafeInv'
<1>0. /\ device' = device /\ screen' = "format" /\ CanDoDirectFormat /\ Commit
      /\ screen = "menu" /\ list' = list /\ space' = space
      /\ job' = [index |-> 0, format |-> Formatting(0, device.sectors \div 2)]
      /\ UNCHANGED <<rootFilesystemFatType, errors, doubtful, stale>>
  BY Zenon DEF FormatWithoutPartitions, history
<1>u. /\ partitions' = partitions /\ partitionsExistInDisk' = partitionsExistInDisk
      /\ partitionsDeletedFromDisk' = partitionsDeletedFromDisk
      /\ unpartitionnedSpaceInSectors' = unpartitionnedSpaceInSectors
      /\ autoPartitionSizeInK' = autoPartitionSizeInK
  BY <1>0, Zenon DEF list, space
<1>1. DeviceType'
  BY <1>0 DEF SafeInv, DeviceType, disk, Disk
<1>2. ListType' /\ ListOK' /\ SpaceOK' /\ FlagsType'
  BY <1>0, <1>u, Zenon DEF SafeInv, ListType, ListOK, SpaceOK, FlagsType, CanCreatePartitions
<1>3. JobOK'
  <2>1. device.sectors \div 2 \in FormatSizes
    BY <1>0 DEF SafeInv, DeviceType, CanDoDirectFormat, FormatSizes, MIN_DEVICE_SIZE_IN_K,
       MAX_FAT16_PARTITION_SIZE_IN_K, MAX_DEVICE_SIZE_FOR_DIRECT_FORMAT_IN_K
  <2>2. FormattingAll(device.sectors, job')
    BY <1>0, <2>1 DEF FormattingAll, Formatting, Stages
  <2> QED
    BY <1>0, <2>2 DEF JobOK
<1>4. MiscType'
  <2>1. commits' \in 0..MaxCommits
    BY <1>0, Committed DEF SafeInv
  <2> QED
    BY <1>0, <2>1, Zenon DEF SafeInv, MiscType
<1> QED
  BY <1>1, <1>2, <1>3, <1>4 DEF SafeInv

\* Writing the list starts with the first partition.
LEMMA SafeWriteTable == ASSUME SafeInv, WritePartitionTable PROVE SafeInv'
<1>0. /\ device' = device /\ screen' = "write" /\ CanWrite /\ partitions # <<>> /\ Commit
      /\ screen = "menu" /\ list' = list /\ space' = space
      /\ job' = [index |-> 1, next |-> 0, extended |-> 0, format |-> [stage |-> "table"]]
      /\ UNCHANGED <<rootFilesystemFatType, errors, doubtful, stale>>
  BY Zenon DEF WritePartitionTable, history
<1>u. /\ partitions' = partitions /\ partitionsExistInDisk' = partitionsExistInDisk
      /\ partitionsDeletedFromDisk' = partitionsDeletedFromDisk
      /\ unpartitionnedSpaceInSectors' = unpartitionnedSpaceInSectors
      /\ autoPartitionSizeInK' = autoPartitionSizeInK
  BY <1>0, Zenon DEF list, space
<1>1. DeviceType'
  BY <1>0 DEF SafeInv, DeviceType, disk, Disk
<1>2. ListType' /\ ListOK' /\ SpaceOK' /\ FlagsType'
  BY <1>0, <1>u, Zenon DEF SafeInv, ListType, ListOK, SpaceOK, FlagsType, CanCreatePartitions
<1>3. JobOK'
  <2>1. ~partitionsExistInDisk' /\ partitions' = partitions
    BY <1>0, <1>u, Zenon DEF CanWrite
  <2>2. Begin(partitions, 1) = 0
    BY UsedNone DEF Begin
  <2>3. 1 \in 1..Len(partitions)
    BY <1>0 DEF SafeInv, ListType
  <2>4. WritingTable(partitions, job')
    BY <1>0, <2>2, <2>3 DEF WritingTable
  <2> QED
    BY <1>0, <2>1, <2>4, Zenon DEF JobOK
<1>4. MiscType'
  <2>1. commits' \in 0..MaxCommits
    BY <1>0, Committed DEF SafeInv
  <2> QED
    BY <1>0, <2>1, Zenon DEF SafeInv, MiscType
<1> QED
  BY <1>1, <1>2, <1>3, <1>4 DEF SafeInv

\* An empty table is written to the first sector.
LEMMA SafeWriteEmpty ==
    ASSUME SafeInv, NEW ok \in BOOLEAN, WriteEmptyTable(ok) PROVE SafeInv'
<1>0. /\ CanWrite /\ Commit /\ screen = "menu" /\ list' = list /\ space' = space /\ job' = job
      /\ \/ /\ device' = Put(0, [kind |-> "table", entries |-> EmptyTable])
            /\ screen' = "done" /\ errors' = errors
         \/ Fails /\ device' = device /\ screen' = screen
      /\ UNCHANGED <<rootFilesystemFatType, doubtful, stale>>
  BY Zenon DEF WriteEmptyTable, history
<1>u. /\ partitions' = partitions /\ partitionsExistInDisk' = partitionsExistInDisk
      /\ partitionsDeletedFromDisk' = partitionsDeletedFromDisk
      /\ unpartitionnedSpaceInSectors' = unpartitionnedSpaceInSectors
      /\ autoPartitionSizeInK' = autoPartitionSizeInK
  BY <1>0, Zenon DEF list, space
<1>1. DeviceType' /\ device'.sectors = device.sectors
  <2>1. DeviceType /\ 0 \in 0..device.sectors - 1
    BY DEF SafeInv, DeviceType, MIN_DEVICE_SIZE_IN_K
  <2>2. Content([kind |-> "table", entries |-> EmptyTable])
    <3>1. EmptyTable \in Tables
      <4>1. NoEntry \in TableEntry
        BY DEF NoEntry, TableEntry, Byte
      <4> QED
        BY <4>1 DEF EmptyTable, Tables
    <3> HIDE DEF EmptyTable
    <3> QED
      BY <3>1 DEF Content
  <2>3. CASE device' = Put(0, [kind |-> "table", entries |-> EmptyTable])
    <3>1. Touches(device', {0})
      BY <2>1, <2>2, <2>3, PutTouches
    <3> QED
      BY <2>1, <3>1, StillDevice
  <2>4. CASE device' = device
    BY <2>1, <2>4 DEF DeviceType, disk, Disk
  <2> QED
    BY <1>0, <2>3, <2>4, Zenon
<1>2. ListType' /\ ListOK' /\ FlagsType'
  BY <1>0, <1>1, <1>u, Zenon DEF SafeInv, ListType, ListOK, FlagsType, CanCreatePartitions
<1>3. SpaceOK'
  BY <1>0, <1>1, <1>u DEF SafeInv, SpaceOK
<1>4. JobOK'
  BY <1>0, <1>u, Zenon DEF SafeInv, JobOK, CanWrite
<1>5. MiscType'
  <2>1. commits' \in 0..MaxCommits
    BY <1>0, Committed DEF SafeInv
  <2>2. errors' \in 0..MaxErrors
    BY <1>0, Counted, Zenon DEF SafeInv, MiscType
  <2> QED
    BY <1>0, <2>1, <2>2, Zenon DEF SafeInv, MiscType
<1> QED
  BY <1>1, <1>2, <1>3, <1>4, <1>5 DEF SafeInv

\* The search after writing changes nothing.
LEMMA SafeSearchAgain == ASSUME SafeInv, SearchAgain PROVE SafeInv'
<1>0. /\ device' = device /\ screen' = "search" /\ screen \in {"done", "formatted"}
      /\ list' = list /\ space' = space /\ job' = job
      /\ UNCHANGED <<rootFilesystemFatType, errors, commits, doubtful, stale>>
  BY Zenon DEF SearchAgain, history, counts
<1>u. /\ partitions' = partitions /\ partitionsExistInDisk' = partitionsExistInDisk
      /\ partitionsDeletedFromDisk' = partitionsDeletedFromDisk
      /\ unpartitionnedSpaceInSectors' = unpartitionnedSpaceInSectors
      /\ autoPartitionSizeInK' = autoPartitionSizeInK
  BY <1>0, Zenon DEF list, space
<1>1. DeviceType'
  BY <1>0 DEF SafeInv, DeviceType, disk, Disk
<1>2. ListType' /\ ListOK' /\ FlagsType' /\ MiscType'
  BY <1>0, <1>u, Zenon DEF SafeInv, ListType, ListOK, FlagsType, MiscType, CanCreatePartitions
<1>3. SpaceOK'
  BY <1>0, <1>u DEF SafeInv, SpaceOK
<1>4. JobOK'
  BY <1>0, <1>u DEF SafeInv, JobOK
<1> QED
  BY <1>1, <1>2, <1>3, <1>4 DEF SafeInv

-----------------------------------------------------------------------------
(* Where a partition and the parts of its file system are. *)

\* A partition lies behind its table, on the device, before the next one.
LEMMA AreaInside ==
    ASSUME NEW ps \in Seq(Partition), NEW i \in 1..Len(ps), NEW n \in Nat, Used(ps) <= n
    PROVE  /\ Begin(ps, i) \in Nat /\ Begin(ps, i + 1) \in Nat /\ ps[i].sizeInK \in Nat
           /\ Begin(ps, i + 1) = Begin(ps, i) + ps[i].sizeInK * 2 + 1
           /\ Begin(ps, i + 1) <= n
           /\ \A j \in 1..Len(ps) + 1 : /\ Begin(ps, j) \in Nat
                                        /\ j <= i => Begin(ps, j) <= Begin(ps, i)
<1> DEFINE m == Len(ps)
<1>1. m \in Nat /\ i \in 1..m /\ i \in Nat \ {0} /\ i - 1 \in 0..m /\ (i + 1) - 1 = i
  OBVIOUS
<1>2. \A j \in 1..m : ps[j] \in Partition
  OBVIOUS
<1> HIDE DEF m
<1>3. Sized(ps, m) /\ Sized(ps, i)
  BY <1>1, <1>2 DEF Sized, Partition
<1>4. /\ UsedByFirst(ps, i) \in Nat /\ UsedByFirst(ps, i - 1) \in Nat
      /\ UsedByFirst(ps, i) = UsedByFirst(ps, i - 1) + ps[i].sizeInK * 2 + 1
  BY <1>1, <1>3, UsedNext
<1>5. ASSUME NEW j \in 0..m
      PROVE  /\ UsedByFirst(ps, j) \in Nat
             /\ \A k \in 0..m : j <= k => UsedByFirst(ps, j) <= UsedByFirst(ps, k)
  BY <1>1, <1>3, UsedGrows
<1>6. UsedByFirst(ps, i) <= n
  <2>1. UsedByFirst(ps, i) <= UsedByFirst(ps, m) /\ UsedByFirst(ps, m) \in Nat
    BY <1>1, <1>5
  <2>2. UsedByFirst(ps, m) <= n
    BY DEF Used, m
  <2> QED
    BY <1>4, <2>1, <2>2
<1>7. ASSUME NEW j \in 1..m + 1
      PROVE  Begin(ps, j) \in Nat /\ (j <= i => Begin(ps, j) <= Begin(ps, i))
  <2>1. j - 1 \in 0..m /\ (j <= i => j - 1 <= i - 1)
    BY <1>1
  <2> QED
    BY <1>1, <1>5, <2>1 DEF Begin
<1>8. ps[i].sizeInK \in Nat
  BY <1>1, <1>2 DEF Partition
<1>9. Begin(ps, i) = UsedByFirst(ps, i - 1) /\ Begin(ps, i + 1) = UsedByFirst(ps, i)
  BY <1>1 DEF Begin
<1> QED
  BY <1>4, <1>6, <1>7, <1>8, <1>9 DEF m

\* What has been written of a file system when stage is the next thing to write.
Laid(d, first, k, stage) ==
    LET p == CalculateFatFileSystemParameters(k)
        fat == [kind |-> "fat", isFat16 |-> p.isFat16]
    IN /\ stage # "boot" => first \in DOMAIN d /\ d[first] = [kind |-> "boot", parameters |-> p]
       /\ stage \in {"fat2", "end"} => first + 1 \in DOMAIN d /\ d[first + 1] = fat
       /\ stage = "end" => first + 1 + p.sectorsPerFat \in DOMAIN d
                           /\ d[first + 1 + p.sectorsPerFat] = fat

\* What comes after a stage.
After(stage) == CASE stage = "boot" -> "zero" [] stage = "zero" -> "fat1"
                  [] stage = "fat1" -> "fat2" [] stage = "fat2" -> "end"

\* The sectors of a file system of k kilobytes.
Room(first, k) == first..first + k * 2 - 1

\* Writing one part of a file system touches only the sectors of its partition.
LEMMA FatTouches ==
    ASSUME DeviceType, NEW f, f.stage \in Stages, f.first \in Nat, f.sizeInK \in FormatSizes,
           f.first + f.sizeInK * 2 <= device.sectors
    PROVE  /\ Touches(FatWritten(f), Room(f.first, f.sizeInK))
           /\ Laid(disk, f.first, f.sizeInK, f.stage) =>
                  Laid(FatWritten(f).disk, f.first, f.sizeInK, After(f.stage))
<1> DEFINE first == f.first
           k == f.sizeInK
           p == CalculateFatFileSystemParameters(k)
           spf == p.sectorsPerFat
           root == p.sectorsPerRootDirectory
           fat == [kind |-> "fat", isFat16 |-> p.isFat16]
           boot == [kind |-> "boot", parameters |-> p]
           e == FatWritten(f)
<1>1. /\ spf \in Nat /\ root \in Nat \ {0} /\ p.totalSectors \in Nat
      /\ 1 + 2 * spf + root <= p.totalSectors /\ p.totalSectors <= k * 2
  BY RoomForAll DEF RoomForFats, PartsInside
<1>2. first \in Nat /\ k \in Nat /\ first + k * 2 <= device.sectors /\ device.sectors \in Nat
  BY DEF FormatSizes, DeviceType
<1>3. 1 + 2 * spf + root <= k * 2
  BY <1>1, <1>2
<1>4. Content(fat) /\ Content(boot)
  BY DEF Content
<1> HIDE DEF p, spf, root, fat, boot, first, k, e
<1>6. CASE f.stage = "boot"
  <2>1. e = Put(first, boot)
    BY <1>6 DEF e, FatWritten, first, boot, p, k
  <2>2. first \in 0..device.sectors - 1 /\ first \in Room(first, k)
    BY <1>1, <1>2, <1>3 DEF Room
  <2>3. Touches(e, {first}) /\ first \in DOMAIN e.disk /\ e.disk[first] = boot
    BY <1>4, <2>1, <2>2, PutTouches
  <2>4. Touches(e, Room(first, k))
    BY <2>2, <2>3 DEF Touches
  <2>5. After(f.stage) = "zero"
    BY <1>6 DEF After
  <2>6. Laid(e.disk, first, k, "zero")
    BY <2>3 DEF Laid, boot, p
  <2> QED
    BY <2>4, <2>5, <2>6 DEF e, first, k
<1>7. CASE f.stage = "zero"
  <2> DEFINE to == first + spf * FAT_COPIES + root
  <2>1. e = Cleared(first + 2, to)
    BY <1>7 DEF e, FatWritten, first, p, k, spf, root
  <2>2. to = first + spf * 2 + root
    BY DEF FAT_COPIES
  <2> HIDE DEF to
  <2>3. first + 2 \in Nat /\ to \in Nat /\ first + 2..to \subseteq Room(first, k)
        /\ first \in Nat \ (first + 2..to)
    BY <1>1, <1>2, <1>3, <2>2 DEF Room
  <2>4. Touches(e, first + 2..to)
    BY <2>1, <2>3, ClearedTouches
  <2>5. Touches(e, Room(first, k))
    BY <2>3, <2>4 DEF Touches
  <2>6. After(f.stage) = "fat1"
    BY <1>7 DEF After
  <2>7. first \in DOMAIN disk /\ disk[first] = boot => first \in DOMAIN e.disk /\ e.disk[first] = boot
    BY <2>3, <2>4 DEF Touches
  <2>8. Laid(disk, first, k, "zero") => Laid(e.disk, first, k, "fat1")
    BY <2>7 DEF Laid, boot, p
  <2> QED
    BY <1>7, <2>5, <2>6, <2>8 DEF e, first, k
<1>8. CASE f.stage = "fat1"
  <2>1. e = Put(first + 1, fat)
    BY <1>8 DEF e, FatWritten, first, fat, p, k
  <2>2. first + 1 \in 0..device.sectors - 1 /\ first + 1 \in Room(first, k)
        /\ first \in Nat \ {first + 1}
    BY <1>1, <1>2, <1>3 DEF Room
  <2>3. Touches(e, {first + 1}) /\ first + 1 \in DOMAIN e.disk /\ e.disk[first + 1] = fat
    BY <1>4, <2>1, <2>2, PutTouches
  <2>4. Touches(e, Room(first, k))
    BY <2>2, <2>3 DEF Touches
  <2>5. After(f.stage) = "fat2"
    BY <1>8 DEF After
  <2>6. first \in DOMAIN disk /\ disk[first] = boot => first \in DOMAIN e.disk /\ e.disk[first] = boot
    BY <2>2, <2>3 DEF Touches
  <2>7. Laid(disk, first, k, "fat1") => Laid(e.disk, first, k, "fat2")
    BY <2>3, <2>6 DEF Laid, boot, fat, p
  <2> QED
    BY <1>8, <2>4, <2>5, <2>7 DEF e, first, k
<1>9. CASE f.stage = "fat2"
  <2> DEFINE t == first + 1 + spf
  <2>1. e = Put(t, fat)
    BY <1>9 DEF e, FatWritten, first, fat, p, k, spf
  <2>2. t \in 0..device.sectors - 1 /\ t \in Room(first, k) /\ first # t /\ first + 1 \in Nat
    BY <1>1, <1>2, <1>3 DEF Room
  <2> HIDE DEF t
  <2>3. Touches(e, {t}) /\ t \in DOMAIN e.disk /\ e.disk[t] = fat
    BY <1>4, <2>1, <2>2, PutTouches
  <2>4. Touches(e, Room(first, k))
    BY <2>2, <2>3 DEF Touches
  <2>5. After(f.stage) = "end"
    BY <1>9 DEF After
  <2>6. first \in DOMAIN disk /\ disk[first] = boot => first \in DOMAIN e.disk /\ e.disk[first] = boot
    BY <1>2, <2>2, <2>3 DEF Touches
  <2>7. first + 1 \in DOMAIN disk /\ disk[first + 1] = fat =>
            first + 1 \in DOMAIN e.disk /\ e.disk[first + 1] = fat
    BY <2>2, <2>3 DEF Touches
  <2>8. Laid(disk, first, k, "fat2") => Laid(e.disk, first, k, "end")
    BY <2>3, <2>6, <2>7 DEF Laid, boot, fat, p, t, spf
  <2> QED
    BY <1>9, <2>4, <2>5, <2>8 DEF e, first, k
<1> QED
  BY <1>6, <1>7, <1>8, <1>9 DEF Stages

\* The partitions but the first take what the first leaves.
LEMMA UsedTail ==
    ASSUME NEW ps \in Seq(Partition), ps # <<>>
    PROVE  Used(Tail(ps)) \in Nat /\ Used(ps) = Begin(ps, 2) + Used(Tail(ps))
<1> DEFINE n == Len(ps) - 1
           qs == Tail(ps)
<1>1. /\ n \in Nat /\ Len(ps) = n + 1 /\ Len(qs) = n
      /\ \A i \in 1..n : qs[i] = ps[i + 1]
      /\ \A i \in 1..n + 1 : ps[i] \in Partition
  OBVIOUS
<1> HIDE DEF n, qs
<1>2. Sized(ps, n + 1) /\ n + 1 \in Nat
  BY <1>1 DEF Sized, Partition
<1>3. PICK v \in [0..n + 1 -> Nat] : Adds(ps, n + 1, v)
  BY <1>2, SumsExist
<1> DEFINE w == [i \in 0..n |-> v[i + 1] - v[1]]
<1>4. Adds(qs, n, w)
  <2>1. ASSUME NEW i \in 1..n
        PROVE  w[i] = w[i - 1] + qs[i].sizeInK * 2 + EXTRA_PARTITION_SECTORS
    <3>1. v[i + 1] = v[i] + ps[i + 1].sizeInK * 2 + EXTRA_PARTITION_SECTORS
      <4>1. i + 1 \in 0..n + 1 /\ i + 1 # 0 /\ (i + 1) - 1 = i
        BY <1>1
      <4>2. v[i + 1] = v[(i + 1) - 1] + ps[i + 1].sizeInK * 2 + EXTRA_PARTITION_SECTORS
        BY <1>3, <4>1 DEF Adds
      <4> QED
        BY <4>1, <4>2
    <3>2. ps[i + 1].sizeInK \in Nat /\ qs[i] = ps[i + 1]
      <4>1. i + 1 \in 1..n + 1
        BY <1>1
      <4> QED
        BY <1>1, <1>2, <4>1 DEF Sized
    <3>3. v[i] \in Nat /\ v[i + 1] \in Nat /\ v[1] \in Nat
      BY <1>1, <1>3
    <3>4. w[i] = v[i + 1] - v[1] /\ w[i - 1] = v[i] - v[1]
      BY <1>1
    <3> HIDE DEF w
    <3>5. PICK a \in Nat, b \in Nat, z \in Nat : v[i] = a /\ v[1] = b /\ qs[i].sizeInK = z
      BY <3>2, <3>3
    <3>6. v[i + 1] = a + z * 2 + 1
      BY <3>1, <3>2, <3>5 DEF EXTRA_PARTITION_SECTORS
    <3> QED
      BY <3>4, <3>5, <3>6 DEF EXTRA_PARTITION_SECTORS
  <2>2. w[0] = 0
    <3>1. v[1] \in Nat
      BY <1>1, <1>3
    <3> QED
      BY <1>1, <3>1
  <2> HIDE DEF w
  <2>3. \A i \in 0..n : i = 0 \/ i \in 1..n
    BY <1>1
  <2> QED
    BY <2>1, <2>2, <2>3, Zenon DEF Adds
<1>5. UsedByFirst(qs, n) = w[n]
  <2> HIDE DEF w
  <2> QED
    BY <1>1, <1>4, UsedIs
<1>6. UsedByFirst(ps, n + 1) = v[n + 1]
  BY <1>2, <1>3, UsedIs
<1>7. UsedByFirst(ps, 1) = v[1]
  <2>1. Adds(ps, 1, v) /\ 1 \in Nat
    BY <1>1, <1>3 DEF Adds
  <2> QED
    BY <2>1, UsedIs
<1>8. v[1] \in Nat /\ v[n + 1] \in Nat /\ w[n] = v[n + 1] - v[1]
  BY <1>1, <1>3
<1>9. UsedByFirst(qs, n) \in Nat
  <2>1. Sized(qs, n)
    <3>1. \A i \in 1..n : i + 1 \in 1..n + 1
      BY <1>1
    <3> QED
      BY <1>1, <1>2, <3>1 DEF Sized
  <2>2. n \in 0..n
    BY <1>1
  <2> QED
    BY <1>1, <2>1, <2>2, UsedGrows
<1>10. Begin(ps, 2) = UsedByFirst(ps, 1)
  BY DEF Begin
<1> HIDE DEF w
<1>11. Used(qs) = UsedByFirst(qs, n) /\ Used(ps) = UsedByFirst(ps, n + 1)
  BY <1>1 DEF Used
<1>12. Used(ps) = Begin(ps, 2) + Used(qs)
  BY <1>5, <1>6, <1>7, <1>8, <1>10, <1>11
<1> QED
  BY <1>9, <1>11, <1>12 DEF qs

-----------------------------------------------------------------------------
(* Writing keeps the invariant. *)

\* The table of partition i of the list, as CreatePartition writes it.
TableFor(ps, i) ==
    LET own == [type |-> ps[i].partitionType, status |-> ps[i].status, first |-> 1,
                size |-> ps[i].sizeInK * 2]
        link == [type |-> 15, status |-> 0,
                 first |-> IF i = 1 THEN Begin(ps, 2) ELSE Begin(ps, i + 1) - Begin(ps, 2),
                 size |-> IF i = 1 THEN Used(Tail(ps)) ELSE ps[i + 1].sizeInK * 2]
    IN <<own, IF i = Len(ps) THEN NoEntry ELSE link, NoEntry, NoEntry>>

\* It is a table: no link or size is negative.
LEMMA TableForType ==
    ASSUME NEW ps \in Seq(Partition), NEW i \in 1..Len(ps), NEW n \in Nat, Used(ps) <= n
    PROVE  TableFor(ps, i) \in Tables
<1>1. ps[i] \in Partition /\ ps # <<>> /\ Len(ps) \in Nat
  OBVIOUS
<1>2. NoEntry \in TableEntry
  BY DEF NoEntry, TableEntry, Byte
<1> DEFINE own == [type |-> ps[i].partitionType, status |-> ps[i].status, first |-> 1,
                   size |-> ps[i].sizeInK * 2]
           first == IF i = 1 THEN Begin(ps, 2) ELSE Begin(ps, i + 1) - Begin(ps, 2)
           size == IF i = 1 THEN Used(Tail(ps)) ELSE ps[i + 1].sizeInK * 2
           link == [type |-> 15, status |-> 0, first |-> first, size |-> size]
           snd == IF i = Len(ps) THEN NoEntry ELSE link
<1>3. own \in TableEntry
  BY <1>1 DEF TableEntry, Partition
<1>4. first \in Nat
  <2>1. Begin(ps, 2) \in Nat /\ Begin(ps, i + 1) \in Nat /\ (i > 1 => Begin(ps, 2) <= Begin(ps, i + 1))
    <3>1. /\ Begin(ps, i) \in Nat /\ Begin(ps, i + 1) \in Nat /\ ps[i].sizeInK \in Nat
          /\ Begin(ps, i + 1) = Begin(ps, i) + ps[i].sizeInK * 2 + 1
          /\ \A j \in 1..Len(ps) + 1 : Begin(ps, j) \in Nat /\ (j <= i => Begin(ps, j) <= Begin(ps, i))
      BY AreaInside
    <3>2. 2 \in 1..Len(ps) + 1 /\ (i > 1 => 2 <= i)
      BY <1>1
    <3>3. Begin(ps, 2) \in Nat /\ (i > 1 => Begin(ps, 2) <= Begin(ps, i))
      BY <3>1, <3>2
    <3>4. PICK k \in Nat : ps[i].sizeInK = k
      BY <3>1
    <3>5. Begin(ps, i + 1) >= Begin(ps, i)
      BY <3>1, <3>4
    <3> QED
      BY <3>1, <3>3, <3>5
  <2> QED
    BY <2>1
<1>5. i # Len(ps) => size \in Nat
  <2>1. Used(Tail(ps)) \in Nat
    BY <1>1, UsedTail
  <2>2. i # Len(ps) => ps[i + 1].sizeInK \in Nat
    <3>1. i # Len(ps) => ps[i + 1] \in Partition
      BY <1>1
    <3> QED
      BY <3>1 DEF Partition
  <2> QED
    BY <2>1, <2>2
<1> HIDE DEF own, first, size
<1>6. snd \in TableEntry
  BY <1>2, <1>4, <1>5 DEF TableEntry, Byte
<1> HIDE DEF link, snd
<1>7. <<own, snd, NoEntry, NoEntry>> \in Tables
  BY <1>2, <1>3, <1>6 DEF Tables
<1> QED
  BY <1>7 DEF TableFor, own, first, size, link, snd

\* A list made here that is being written lies on the device.
LEMMA ListLies ==
    ASSUME SafeInv, screen \in {"write", "done"}
    PROVE  /\ ~partitionsExistInDisk
           /\ partitions \in Seq(Partition) /\ device.sectors \in Nat
           /\ Made(partitions) /\ Used(partitions) <= device.sectors
<1>1. ~partitionsExistInDisk
  BY DEF SafeInv, JobOK
<1>2. Made(partitions) /\ Fills(partitions, unpartitionnedSpaceInSectors, device.sectors, stale)
  BY <1>1 DEF SafeInv, ListOK
<1>3. partitions \in Seq(Partition) /\ device.sectors \in Nat /\ unpartitionnedSpaceInSectors \in Nat
  BY DEF SafeInv, ListType, DeviceType, SpaceOK
<1>4. Used(partitions) \in Nat
  <2>1. Sized(partitions, Len(partitions)) /\ Len(partitions) \in Nat
    <3>1. \A j \in 1..Len(partitions) : partitions[j] \in Partition
      BY <1>3
    <3> QED
      BY <1>3, <3>1 DEF Sized, Partition
  <2>2. Len(partitions) \in 0..Len(partitions)
    BY <2>1
  <2> QED
    BY <2>1, <2>2, UsedGrows DEF Used
<1> QED
  BY <1>1, <1>2, <1>3, <1>4 DEF Fills

\* What CreatePartition does, said of the list.
LEMMA Creates ==
    ASSUME SafeInv, CreatePartition
    PROVE  /\ WritingTable(partitions, job)
           /\ device' = Put(Begin(partitions, job.index),
                            [kind |-> "table", entries |-> TableFor(partitions, job.index)])
           /\ job' = [index |-> job.index, next |-> Begin(partitions, job.index + 1),
                      extended |-> Begin(partitions, 2),
                      format |-> [stage |-> "boot", first |-> Begin(partitions, job.index) + 1,
                                  sizeInK |-> partitions[job.index].sizeInK]]
<1> DEFINE i == job.index
           next == job.next + 1 + partitions[i].sizeInK * 2
           extended == IF i = 1 THEN next ELSE job.extended
<1>1. /\ screen = "write" /\ job.format.stage = "table"
      /\ device' = Put(job.next, [kind |-> "table", entries |-> TableOf(i, next, extended)])
      /\ job' = [index |-> i, next |-> next, extended |-> extended,
                 format |-> Formatting(job.next + 1, partitions[i].sizeInK)]
  BY Zenon DEF CreatePartition
<1>2. WritingTable(partitions, job)
  BY <1>1 DEF SafeInv, JobOK, WritingFats, Stages
<1>3. job.next = Begin(partitions, i) /\ i \in 1..Len(partitions)
      /\ (i > 1 => job.extended = Begin(partitions, 2))
  BY <1>2 DEF WritingTable
<1>4. /\ Begin(partitions, i) \in Nat /\ partitions[i].sizeInK \in Nat
      /\ Begin(partitions, i + 1) = Begin(partitions, i) + partitions[i].sizeInK * 2 + 1
  <2>1. screen \in {"write", "done"}
    BY <1>1
  <2>2. partitions \in Seq(Partition) /\ device.sectors \in Nat /\ Used(partitions) <= device.sectors
    BY <2>1, ListLies
  <2> QED
    BY <1>3, <2>2, AreaInside
<1> HIDE DEF i
<1>5. next = Begin(partitions, i + 1)
  <2>1. PICK k \in Nat : partitions[i].sizeInK = k
    BY <1>4
  <2> QED
    BY <1>3, <1>4, <2>1
<1>6. extended = Begin(partitions, 2)
  <2>1. CASE i = 1
    BY <1>5, <2>1
  <2>2. CASE i # 1
    BY <1>3, <2>2
  <2> QED
    BY <2>1, <2>2
<1>7. (IF i = 1 THEN next ELSE next - extended) =
          IF i = 1 THEN Begin(partitions, 2) ELSE Begin(partitions, i + 1) - Begin(partitions, 2)
  <2>1. i = 1 => next = Begin(partitions, 2)
    BY <1>6
  <2> HIDE DEF next, extended
  <2> QED
    BY <1>5, <1>6, <2>1, Zenon
<1> HIDE DEF next, extended
<1>8. TableOf(i, next, extended) = TableFor(partitions, i)
  BY <1>7, Zenon DEF TableOf, TableFor
<1> QED
  BY <1>1, <1>2, <1>3, <1>5, <1>6, <1>8 DEF Formatting, i

\* The file system that is written lies on the device.
LEMMA FatsLie ==
    ASSUME SafeInv, screen \in {"write", "format"}, job.format.stage # "table"
    PROVE  /\ job.format.stage \in Stages /\ job.format.first \in Nat
           /\ job.format.sizeInK \in FormatSizes
           /\ job.format.first + job.format.sizeInK * 2 <= device.sectors
           /\ screen = "write" => WritingFats(partitions, job)
<1>1. CASE screen = "write"
  <2>1. WritingFats(partitions, job)
    BY <1>1 DEF SafeInv, JobOK, WritingTable
  <2> DEFINE i == job.index
  <2>2. /\ job.format.stage \in Stages /\ i \in 1..Len(partitions)
        /\ job.format.first = Begin(partitions, i) + 1
        /\ job.format.sizeInK = partitions[i].sizeInK
    BY <2>1 DEF WritingFats
  <2>3. partitions \in Seq(Partition) /\ device.sectors \in Nat /\ Made(partitions)
        /\ Used(partitions) <= device.sectors
    BY <1>1, ListLies
  <2>4. /\ Begin(partitions, i) \in Nat /\ partitions[i].sizeInK \in Nat
        /\ Begin(partitions, i + 1) = Begin(partitions, i) + partitions[i].sizeInK * 2 + 1
        /\ Begin(partitions, i + 1) <= device.sectors
    BY <2>2, <2>3, AreaInside
  <2>5. partitions[i].sizeInK \in FormatSizes
    BY <2>2, <2>3, PartitionsToo DEF Made
  <2> HIDE DEF i
  <2>6. PICK k \in Nat : partitions[i].sizeInK = k
    BY <2>4
  <2>7. job.format.first + job.format.sizeInK * 2 <= device.sectors
    BY <2>2, <2>3, <2>4, <2>6
  <2> QED
    BY <2>1, <2>2, <2>4, <2>5, <2>7
<1>2. CASE screen = "format"
  <2>1. FormattingAll(device.sectors, job) /\ device.sectors \in Nat
    BY <1>2 DEF SafeInv, JobOK, DeviceType
  <2>2. /\ job.format.stage \in Stages /\ job.format.first = 0
        /\ job.format.sizeInK = device.sectors \div 2 /\ device.sectors \div 2 \in FormatSizes
    BY <2>1 DEF FormattingAll
  <2>3. PICK n \in Nat : device.sectors = n
    BY <2>1
  <2> QED
    BY <1>2, <2>2, <2>3
<1> QED
  BY <1>1, <1>2

\* Writing the table of a partition leads to its file system.
LEMMA SafeCreate == ASSUME SafeInv, CreatePartition PROVE SafeInv'
<1> DEFINE i == job.index
           c == [kind |-> "table", entries |-> TableFor(partitions, i)]
<1>0. /\ screen = "write" /\ screen' = "write" /\ list' = list /\ space' = space
      /\ UNCHANGED <<rootFilesystemFatType, errors, commits, doubtful, stale>>
  BY Zenon DEF CreatePartition, history, counts
<1>u. /\ partitions' = partitions /\ partitionsExistInDisk' = partitionsExistInDisk
      /\ partitionsDeletedFromDisk' = partitionsDeletedFromDisk
      /\ unpartitionnedSpaceInSectors' = unpartitionnedSpaceInSectors
      /\ autoPartitionSizeInK' = autoPartitionSizeInK
  BY <1>0, Zenon DEF list, space
<1>1. WritingTable(partitions, job) /\ device' = Put(Begin(partitions, i), c)
  BY Creates
<1>2. i \in 1..Len(partitions)
  BY <1>1 DEF WritingTable
<1>3. /\ ~partitionsExistInDisk
      /\ partitions \in Seq(Partition) /\ device.sectors \in Nat
      /\ Used(partitions) <= device.sectors
  <2>1. screen \in {"write", "done"}
    BY <1>0
  <2> QED
    BY <2>1, ListLies
<1>4. Begin(partitions, i) \in 0..device.sectors - 1
  <2>1. /\ Begin(partitions, i) \in Nat /\ partitions[i].sizeInK \in Nat
        /\ Begin(partitions, i + 1) = Begin(partitions, i) + partitions[i].sizeInK * 2 + 1
        /\ Begin(partitions, i + 1) <= device.sectors
    BY <1>2, <1>3, AreaInside
  <2>2. PICK k \in Nat, b \in Nat, n \in Nat :
           partitions[i].sizeInK = k /\ Begin(partitions, i) = b /\ device.sectors = n
    BY <1>3, <2>1
  <2>3. b + k * 2 + 1 <= n
    BY <2>1, <2>2
  <2> QED
    BY <2>2, <2>3
<1>5. Content(c)
  <2>1. TableFor(partitions, i) \in Tables
    BY <1>2, <1>3, TableForType
  <2> QED
    BY <2>1 DEF Content
<1> HIDE DEF c, i
<1>6. DeviceType' /\ device'.sectors = device.sectors
  <2>1. DeviceType
    BY DEF SafeInv
  <2>2. Touches(device', {Begin(partitions, i)})
    BY <1>1, <1>4, <1>5, <2>1, PutTouches
  <2> QED
    BY <2>1, <2>2, StillDevice
<1>7. ListType' /\ ListOK' /\ SpaceOK' /\ FlagsType' /\ MiscType'
  BY <1>0, <1>u, <1>6, Zenon DEF SafeInv, ListType, ListOK, SpaceOK, FlagsType, MiscType,
     CanCreatePartitions
<1>8. JobOK'
  <2>1. WritingFats(partitions, job')
    BY <1>2, Creates DEF WritingFats, Stages, i
  <2> QED
    BY <1>0, <1>u, <1>3, <2>1, Zenon DEF JobOK
<1> QED
  BY <1>6, <1>7, <1>8 DEF SafeInv

\* The stages in the order in which they are written.
LEMMA StageOrder ==
    ASSUME NEW stage \in Stages
    PROVE  LET n == CHOOSE x \in 1..4 : FatStages[x] = stage
           IN /\ n < 4 => FatStages[n + 1] = After(stage) /\ After(stage) \in Stages
              /\ ~(n < 4) => stage = "fat2" /\ After(stage) = "end"
<1> DEFINE n == CHOOSE x \in 1..4 : FatStages[x] = stage
<1>1. \E x \in 1..4 : FatStages[x] = stage
  BY DEF FatStages, Stages
<1>2. n \in 1..4 /\ FatStages[n] = stage
  <2>1. n \in {x \in 1..4 : FatStages[x] = stage}
    BY <1>1
  <2> QED
    BY <2>1
<1> HIDE DEF n
<1>3. n \in {1, 2, 3, 4}
  BY <1>2
<1>4. /\ n = 1 => FatStages[n + 1] = After(stage) /\ After(stage) \in Stages
      /\ n = 2 => FatStages[n + 1] = After(stage) /\ After(stage) \in Stages
      /\ n = 3 => FatStages[n + 1] = After(stage) /\ After(stage) \in Stages
      /\ n = 4 => stage = "fat2" /\ After(stage) = "end"
  BY <1>2 DEF FatStages, After, Stages
<1> QED
  BY <1>3, <1>4 DEF n

\* What CreateFatFileSystem does: one part of a file system more, and on to the
\* next part, the next partition or the end.
LEMMA Lays ==
    ASSUME SafeInv, CreateFatFileSystem
    PROVE  /\ screen \in {"write", "format"} /\ job.format.stage \in Stages
           /\ device' = FatWritten(job.format)
           /\ \/ /\ After(job.format.stage) \in Stages /\ screen' = screen
                 /\ job' = [job EXCEPT !.format.stage = After(job.format.stage)]
              \/ /\ job.format.stage = "fat2" /\ screen = "write" /\ screen' = "write"
                 /\ job.index < Len(partitions)
                 /\ job' = [job EXCEPT !.index = @ + 1, !.format = [stage |-> "table"]]
              \/ /\ job.format.stage = "fat2" /\ job' = Idle
                 /\ screen = "write" => screen' = "done" /\ ~(job.index < Len(partitions))
                 /\ screen = "format" => screen' = "formatted"
<1> DEFINE f == job.format
           n == CHOOSE x \in 1..4 : FatStages[x] = f.stage
<1>1. /\ screen \in {"write", "format"} /\ f.stage # "table" /\ device' = FatWritten(f)
      /\ IF n < 4 THEN job' = [job EXCEPT !.format.stage = FatStages[n + 1]] /\ UNCHANGED screen
         ELSE IF screen = "write" /\ job.index < Len(partitions)
              THEN /\ job' = [job EXCEPT !.index = @ + 1, !.format = [stage |-> "table"]]
                   /\ UNCHANGED screen
              ELSE job' = Idle /\ screen' = IF screen = "write" THEN "done" ELSE "formatted"
  BY Zenon DEF CreateFatFileSystem
<1>2. f.stage \in Stages
  BY <1>1, FatsLie
<1>3. /\ n < 4 => FatStages[n + 1] = After(f.stage) /\ After(f.stage) \in Stages
      /\ ~(n < 4) => f.stage = "fat2" /\ After(f.stage) = "end"
  BY <1>2, StageOrder
<1> HIDE DEF n
<1>4. CASE n < 4
  BY <1>1, <1>2, <1>3, <1>4
<1>5. CASE ~(n < 4)
  BY <1>1, <1>2, <1>3, <1>5
<1> QED
  BY <1>4, <1>5

\* Each part of a file system leads to the next, or to the next partition.
LEMMA SafeLay == ASSUME SafeInv, CreateFatFileSystem PROVE SafeInv'
<1> DEFINE f == job.format
<1>0. /\ screen \in {"write", "format"} /\ list' = list /\ space' = space
      /\ UNCHANGED <<rootFilesystemFatType, errors, commits, doubtful, stale>>
  BY Zenon DEF CreateFatFileSystem, history, counts
<1>u. /\ partitions' = partitions /\ partitionsExistInDisk' = partitionsExistInDisk
      /\ partitionsDeletedFromDisk' = partitionsDeletedFromDisk
      /\ unpartitionnedSpaceInSectors' = unpartitionnedSpaceInSectors
      /\ autoPartitionSizeInK' = autoPartitionSizeInK
  BY <1>0, Zenon DEF list, space
<1>1. /\ f.stage \in Stages /\ device' = FatWritten(f)
      /\ \/ /\ After(f.stage) \in Stages /\ screen' = screen
            /\ job' = [job EXCEPT !.format.stage = After(f.stage)]
         \/ /\ f.stage = "fat2" /\ screen = "write" /\ screen' = "write"
            /\ job.index < Len(partitions)
            /\ job' = [job EXCEPT !.index = @ + 1, !.format = [stage |-> "table"]]
         \/ /\ f.stage = "fat2" /\ job' = Idle
            /\ screen = "write" => screen' = "done" /\ ~(job.index < Len(partitions))
            /\ screen = "format" => screen' = "formatted"
  BY Lays
<1>2. /\ f.first \in Nat /\ f.sizeInK \in FormatSizes /\ f.first + f.sizeInK * 2 <= device.sectors
      /\ screen = "write" => WritingFats(partitions, job)
  <2>1. f.stage # "table"
    BY <1>1 DEF Stages
  <2> QED
    BY <1>0, <2>1, FatsLie
<1>3. DeviceType' /\ device'.sectors = device.sectors
  <2>1. DeviceType
    BY DEF SafeInv
  <2>2. Touches(device', Room(f.first, f.sizeInK))
    BY <1>1, <1>2, <2>1, FatTouches
  <2> QED
    BY <2>1, <2>2, StillDevice
<1> HIDE DEF f
<1>4. JobOK'
  <2>1. CASE screen = "write"
    <3>1. ~partitionsExistInDisk /\ WritingFats(partitions, job)
      BY <1>2, <2>1 DEF SafeInv, JobOK
    <3>2. CASE /\ After(f.stage) \in Stages /\ screen' = screen
               /\ job' = [job EXCEPT !.format.stage = After(f.stage)]
      <4>1. WritingFats(partitions, job')
        BY <3>1, <3>2 DEF WritingFats, f
      <4> QED
        BY <1>u, <2>1, <3>1, <3>2, <4>1, Zenon DEF JobOK
    <3>3. CASE /\ screen' = "write" /\ job.index < Len(partitions)
               /\ job' = [job EXCEPT !.index = @ + 1, !.format = [stage |-> "table"]]
      <4>1. /\ job = [index |-> job.index, next |-> Begin(partitions, job.index + 1),
                      extended |-> Begin(partitions, 2), format |-> job.format]
            /\ job.index \in 1..Len(partitions)
        BY <3>1 DEF WritingFats
      <4>2. job' = [index |-> job.index + 1, next |-> Begin(partitions, job.index + 1),
                    extended |-> Begin(partitions, 2), format |-> [stage |-> "table"]]
        <5>1. PICK i, next, ext, fmt :
                 /\ job = [index |-> i, next |-> next, extended |-> ext, format |-> fmt]
                 /\ i = job.index /\ next = Begin(partitions, job.index + 1)
                 /\ ext = Begin(partitions, 2)
          BY <4>1
        <5>2. job' = [index |-> i + 1, next |-> next, extended |-> ext,
                      format |-> [stage |-> "table"]]
          BY <3>3, <5>1
        <5> QED
          BY <5>1, <5>2
      <4>3. job.index + 1 \in 1..Len(partitions)
        BY <3>3, <4>1 DEF SafeInv, ListType
      <4>4. WritingTable(partitions, job')
        BY <4>2, <4>3 DEF WritingTable
      <4> QED
        BY <1>u, <3>1, <3>3, <4>4, Zenon DEF JobOK
    <3>4. CASE job' = Idle /\ screen' = "done"
      BY <1>u, <3>1, <3>4, Zenon DEF JobOK
    <3> QED
      BY <1>1, <2>1, <3>2, <3>3, <3>4
  <2>2. CASE screen = "format"
    <3>1. FormattingAll(device.sectors, job)
      BY <2>2 DEF SafeInv, JobOK
    <3>2. CASE /\ After(f.stage) \in Stages /\ screen' = screen
               /\ job' = [job EXCEPT !.format.stage = After(f.stage)]
      <4>1. FormattingAll(device.sectors, job')
        BY <3>1, <3>2 DEF FormattingAll, f
      <4> QED
        BY <1>3, <2>2, <3>2, <4>1, Zenon DEF JobOK
    <3>3. CASE job' = Idle /\ screen' = "formatted"
      BY <3>3 DEF JobOK
    <3> QED
      BY <1>1, <2>2, <3>2, <3>3
  <2> QED
    BY <1>0, <2>1, <2>2
<1>5. screen' \in {"write", "format", "done", "formatted"}
  BY <1>0, <1>1
<1>6. ListType' /\ ListOK' /\ FlagsType' /\ MiscType'
  BY <1>0, <1>u, <1>3, <1>5, Zenon DEF SafeInv, ListType, ListOK, FlagsType, MiscType,
     CanCreatePartitions
<1>7. SpaceOK'
  BY <1>0, <1>u, <1>3, Zenon DEF SafeInv, SpaceOK
<1> QED
  BY <1>3, <1>4, <1>6, <1>7 DEF SafeInv

\* After an error the list is as it was.
LEMMA SafeWriteFails == ASSUME SafeInv, WriteFails PROVE SafeInv'
<1> DEFINE f == job.format
<1>0. /\ screen \in {"write", "format"} /\ screen' = "menu" /\ job' = Idle /\ Fails
      /\ list' = list /\ space' = space
      /\ device' = device \/ (f.stage = "zero" /\ device' = FatWritten(f))
      /\ doubtful' = (doubtful \/ screen = "format")
      /\ UNCHANGED <<rootFilesystemFatType, commits, stale>>
  BY Zenon DEF WriteFails
<1>u. /\ partitions' = partitions /\ partitionsExistInDisk' = partitionsExistInDisk
      /\ partitionsDeletedFromDisk' = partitionsDeletedFromDisk
      /\ unpartitionnedSpaceInSectors' = unpartitionnedSpaceInSectors
      /\ autoPartitionSizeInK' = autoPartitionSizeInK
  BY <1>0, Zenon DEF list, space
<1>1. DeviceType
  BY DEF SafeInv
<1>2. DeviceType' /\ device'.sectors = device.sectors
  <2>1. CASE device' = device
    BY <1>1, <2>1 DEF DeviceType, disk, Disk
  <2>2. CASE f.stage = "zero" /\ device' = FatWritten(f)
    <3>1. f.stage \in Stages /\ f.first \in Nat /\ f.sizeInK \in FormatSizes
          /\ f.first + f.sizeInK * 2 <= device.sectors
      <4>1. f.stage # "table"
        BY <2>2
      <4> QED
        BY <1>0, <4>1, FatsLie
    <3>2. Touches(device', Room(f.first, f.sizeInK))
      BY <1>1, <2>2, <3>1, FatTouches
    <3> QED
      BY <1>1, <3>2, StillDevice
  <2> QED
    BY <1>0, <2>1, <2>2
<1>3. JobOK'
  BY <1>0 DEF JobOK
<1>4. ListType' /\ ListOK'
  BY <1>u, <1>2, <1>0, Zenon DEF SafeInv, ListType, ListOK, CanCreatePartitions
<1>5. SpaceOK'
  BY <1>0, <1>u, <1>2, Zenon DEF SafeInv, SpaceOK
<1>6. FlagsType'
  BY <1>0, <1>u, Zenon DEF SafeInv, FlagsType
<1>7. MiscType'
  <2>1. errors' \in 0..MaxErrors
    BY <1>0, Counted DEF SafeInv
  <2> QED
    BY <1>0, <2>1, Zenon DEF SafeInv, MiscType
<1> QED
  BY <1>2, <1>3, <1>4, <1>5, <1>6, <1>7 DEF SafeInv

\* It is invariant.
LEMMA SafeKept == SafeInv /\ [Next]_vars => SafeInv'
<1> SUFFICES ASSUME SafeInv, [Next]_vars PROVE SafeInv'
  OBVIOUS
<1>1. CASE UNCHANGED vars
  <2>1. /\ UNCHANGED <<device, list, space, rootFilesystemFatType, screen, job>>
        /\ UNCHANGED <<doubtful, stale, errors, commits>>
    BY <1>1 DEF vars, history, counts
  <2> QED
    BY <2>1 DEF SafeInv, DeviceType, disk, Disk, ListType, ListOK, SpaceOK, JobOK, FlagsType,
       MiscType, list, space, CanCreatePartitions
<1>2. CASE Next
  BY <1>2, SafeInitialize, SafeSearch, SafeDelete, SafeAddAuto, SafeAddEntered, SafeUndo,
     SafeToggle, SafeFormat, SafeWriteTable, SafeWriteEmpty, SafeCreate, SafeLay,
     SafeWriteFails, SafeSearchAgain DEF Next
<1> QED
  BY <1>1, <1>2

\* SafeInv always holds.
LEMMA SafeAlways == Spec => []SafeInv
<1>1. Init => SafeInv
  BY SafeAtFirst
<1>2. SafeInv /\ [Next]_vars => SafeInv'
  BY SafeKept
<1> QED
  BY <1>1, <1>2, PTL DEF Spec

\* FDISK never holds a list longer than it handles, a partition number or a size that
\* is none, or more sectors to give away than the device has, and the tables and
\* file systems it writes never go past the end of the device, whatever is on it.
THEOREM FdiskTypeCorrect == Spec => []TypeOK
  BY SafeAlways, SafeIsTyped, PTL

\* After any sequence of adding, undoing, deleting and failed writes the
\* partitions, their tables and what is left are the device, and every partition
\* has a size for which there is a file system.
THEOREM SpaceIsAccounted == Spec => []SpaceAccounted
  BY SafeAlways, SafeIsAccounted, PTL

-----------------------------------------------------------------------------
(* What is on the device while it is written. *)

\* The table of partition j, and its file system up to a stage.
TableThere(d, ps, j) ==
    Begin(ps, j) \in DOMAIN d /\ d[Begin(ps, j)] = [kind |-> "table", entries |-> TableFor(ps, j)]
FatsThere(d, ps, j, stage) == Laid(d, Begin(ps, j) + 1, ps[j].sizeInK, stage)
There(d, ps, j) == TableThere(d, ps, j) /\ FatsThere(d, ps, j, "end")
AllThere(d, ps, m) == \A j \in 1..m : There(d, ps, j)

ContentsOK ==
    /\ screen = "write" =>
         /\ AllThere(disk, partitions, job.index - 1)
         /\ job.format.stage # "table" =>
               /\ TableThere(disk, partitions, job.index)
               /\ FatsThere(disk, partitions, job.index, job.format.stage)
    /\ screen = "done" =>
         IF partitions = <<>> THEN Table(disk, 0) = EmptyTable
         ELSE AllThere(disk, partitions, Len(partitions))

\* What has been written before stays when sectors behind it are touched.
LEMMA EarlierStays ==
    ASSUME DeviceType, NEW s \in Nat, NEW S, \A x \in S : x >= s, Touches(device', S),
           NEW ps, NEW j, Begin(ps, j) \in Nat, ps[j].sizeInK \in Sizes,
           Begin(ps, j) + ps[j].sizeInK * 2 + 1 <= s, There(disk, ps, j)
    PROVE  There(device'.disk, ps, j)
<1> DEFINE b == Begin(ps, j)
           k == ps[j].sizeInK
           p == CalculateFatFileSystemParameters(k)
           spf == p.sectorsPerFat
           root == p.sectorsPerRootDirectory
           e == device'.disk
<1>1. /\ spf \in Nat /\ root \in Nat \ {0} /\ p.totalSectors \in Nat
      /\ 1 + 2 * spf + root <= p.totalSectors /\ p.totalSectors <= k * 2
  BY RoomForAll, PartitionsToo DEF RoomForFats, PartsInside
<1>2. b \in Nat /\ k \in Nat /\ b + k * 2 + 1 <= s
  BY DEF Sizes
<1> HIDE DEF b, k, p, spf, root, e
<1>3. /\ b < s /\ b + 1 \in Nat /\ b + 1 < s /\ b + 1 + 1 \in Nat /\ b + 1 + 1 < s
      /\ b + 1 + 1 + spf \in Nat /\ b + 1 + 1 + spf < s
  BY <1>1, <1>2
<1>4. ASSUME NEW t \in Nat, t < s
      PROVE  (t \in DOMAIN e <=> t \in DOMAIN disk) /\ (t \in DOMAIN disk => e[t] = disk[t])
  <2>1. t \notin S
    BY <1>4
  <2> QED
    BY <2>1 DEF Touches, e
<1>5. TableThere(e, ps, j)
  BY <1>2, <1>3, <1>4 DEF There, TableThere, b
<1>6. FatsThere(e, ps, j, "end")
  BY <1>3, <1>4 DEF There, FatsThere, Laid, b, k, p, spf
<1> QED
  BY <1>5, <1>6 DEF There, e

\* The partitions before i end before its table.
LEMMA EarlierLie ==
    ASSUME NEW ps \in Seq(Partition), NEW n \in Nat, Used(ps) <= n, Made(ps),
           NEW i \in 1..Len(ps), NEW j \in 1..i - 1
    PROVE  /\ Begin(ps, j) \in Nat /\ ps[j].sizeInK \in Sizes
           /\ Begin(ps, j) + ps[j].sizeInK * 2 + 1 <= Begin(ps, i)
<1>1. j \in 1..Len(ps) /\ j + 1 \in 1..Len(ps) + 1 /\ j + 1 <= i
  OBVIOUS
<1>2. /\ Begin(ps, j) \in Nat
      /\ Begin(ps, j + 1) = Begin(ps, j) + ps[j].sizeInK * 2 + 1
  BY <1>1, AreaInside
<1>3. Begin(ps, j + 1) <= Begin(ps, i)
  BY <1>1, AreaInside
<1>4. ps[j].sizeInK \in Sizes
  BY <1>1 DEF Made
<1> QED
  BY <1>2, <1>3, <1>4

\* All partitions before the one that is written stay.
LEMMA EarlierAllStay ==
    ASSUME DeviceType, NEW ps \in Seq(Partition), NEW n \in Nat, Used(ps) <= n, Made(ps),
           NEW i \in 1..Len(ps), NEW S, \A x \in S : x >= Begin(ps, i), Touches(device', S),
           AllThere(disk, ps, i - 1)
    PROVE  AllThere(device'.disk, ps, i - 1)
<1> SUFFICES ASSUME NEW j \in 1..i - 1 PROVE There(device'.disk, ps, j)
  BY DEF AllThere
<1>1. /\ Begin(ps, j) \in Nat /\ ps[j].sizeInK \in Sizes
      /\ Begin(ps, j) + ps[j].sizeInK * 2 + 1 <= Begin(ps, i)
  BY EarlierLie
<1>2. Begin(ps, i) \in Nat
  BY AreaInside
<1>3. There(disk, ps, j)
  BY DEF AllThere
<1> QED
  BY <1>1, <1>2, <1>3, EarlierStays

\* Writing a table keeps ContentsOK,
LEMMA ContentsCreate == ASSUME SafeInv, ContentsOK, CreatePartition PROVE ContentsOK'
<1> DEFINE i == job.index
           b == Begin(partitions, i)
           c == [kind |-> "table", entries |-> TableFor(partitions, i)]
<1>0. screen = "write" /\ screen' = "write" /\ partitions' = partitions
  BY Zenon DEF CreatePartition, list
<1>1. /\ WritingTable(partitions, job) /\ device' = Put(b, c)
      /\ job' = [index |-> i, next |-> Begin(partitions, i + 1),
                 extended |-> Begin(partitions, 2),
                 format |-> [stage |-> "boot", first |-> b + 1, sizeInK |-> partitions[i].sizeInK]]
  BY Creates
<1>2. i \in 1..Len(partitions)
  BY <1>1 DEF WritingTable
<1>3. /\ partitions \in Seq(Partition) /\ device.sectors \in Nat
      /\ Made(partitions) /\ Used(partitions) <= device.sectors
  BY <1>0, ListLies
<1>4. b \in Nat /\ b \in 0..device.sectors - 1
  <2>1. /\ b \in Nat /\ partitions[i].sizeInK \in Nat
        /\ Begin(partitions, i + 1) = b + partitions[i].sizeInK * 2 + 1
        /\ Begin(partitions, i + 1) <= device.sectors
    BY <1>2, <1>3, AreaInside
  <2>2. PICK k \in Nat, x \in Nat, n \in Nat :
           partitions[i].sizeInK = k /\ b = x /\ device.sectors = n
    BY <1>3, <2>1
  <2>3. x + k * 2 + 1 <= n
    BY <2>1, <2>2
  <2> QED
    BY <2>2, <2>3
<1>5. Content(c)
  <2>1. TableFor(partitions, i) \in Tables
    BY <1>2, <1>3, TableForType
  <2> QED
    BY <2>1 DEF Content
<1>6. DeviceType
  BY DEF SafeInv
<1>7. Touches(device', {b}) /\ b \in DOMAIN device'.disk /\ device'.disk[b] = c
  <2> HIDE DEF c, b
  <2> QED
    BY <1>1, <1>4, <1>5, <1>6, PutTouches
<1>8. TableThere(device'.disk, partitions, i)
  BY <1>7 DEF TableThere
<1>9. FatsThere(device'.disk, partitions, i, "boot")
  BY DEF FatsThere, Laid
<1>10. AllThere(device'.disk, partitions, i - 1)
  <2>1. AllThere(disk, partitions, i - 1)
    BY <1>0 DEF ContentsOK
  <2>2. \A x \in {b} : x >= b
    BY <1>4
  <2> QED
    BY <1>2, <1>3, <1>6, <1>7, <2>1, <2>2, EarlierAllStay
<1>11. job'.index = i /\ job'.format.stage = "boot"
  BY <1>1
<1> HIDE DEF i, b, c
<1> QED
  BY <1>0, <1>8, <1>9, <1>10, <1>11 DEF ContentsOK, disk

\* and so does writing each part of a file system,
LEMMA ContentsLay == ASSUME SafeInv, ContentsOK, CreateFatFileSystem PROVE ContentsOK'
<1> DEFINE f == job.format
           i == job.index
           b == Begin(partitions, i)
           k == partitions[i].sizeInK
<1>1. /\ screen \in {"write", "format"} /\ f.stage \in Stages
      /\ device' = FatWritten(f)
      /\ \/ /\ After(f.stage) \in Stages /\ screen' = screen
            /\ job' = [job EXCEPT !.format.stage = After(f.stage)]
         \/ /\ f.stage = "fat2" /\ screen = "write" /\ screen' = "write"
            /\ i < Len(partitions)
            /\ job' = [job EXCEPT !.index = @ + 1, !.format = [stage |-> "table"]]
         \/ /\ f.stage = "fat2" /\ job' = Idle
            /\ screen = "write" => screen' = "done" /\ ~(i < Len(partitions))
            /\ screen = "format" => screen' = "formatted"
  BY Lays
<1>2. CASE screen = "format"
  <2>1. screen' # "write" /\ screen' # "done"
    BY <1>1, <1>2
  <2> QED
    BY <2>1 DEF ContentsOK
<1>3. CASE screen = "write"
  <2>0. partitions' = partitions
    BY Zenon DEF CreateFatFileSystem, list
  <2>1. /\ f.first \in Nat /\ f.sizeInK \in FormatSizes /\ f.first + f.sizeInK * 2 <= device.sectors
        /\ WritingFats(partitions, job) /\ f.stage # "table"
    <3>1. f.stage # "table"
      BY <1>1 DEF Stages
    <3> QED
      BY <1>3, <3>1, FatsLie
  <2>2. i \in 1..Len(partitions) /\ f.first = b + 1 /\ f.sizeInK = k
        /\ job = [index |-> i, next |-> job.next, extended |-> job.extended,
                  format |-> [stage |-> f.stage, first |-> f.first, sizeInK |-> f.sizeInK]]
    BY <2>1 DEF WritingFats
  <2>3. /\ partitions \in Seq(Partition) /\ device.sectors \in Nat
        /\ Made(partitions) /\ Used(partitions) <= device.sectors
    BY <1>3, ListLies
  <2>4. b \in Nat
    BY <2>2, <2>3, AreaInside
  <2>5. DeviceType
    BY DEF SafeInv
  <2>6. /\ Touches(device', Room(b + 1, k))
        /\ FatsThere(disk, partitions, i, f.stage) =>
               FatsThere(device'.disk, partitions, i, After(f.stage))
    <3>1. /\ Touches(FatWritten(f), Room(f.first, f.sizeInK))
          /\ Laid(disk, f.first, f.sizeInK, f.stage) =>
                 Laid(FatWritten(f).disk, f.first, f.sizeInK, After(f.stage))
      BY <1>1, <2>1, <2>5, FatTouches
    <3> QED
      BY <1>1, <2>2, <3>1, Zenon DEF FatsThere
  <2>7. /\ AllThere(disk, partitions, i - 1) /\ TableThere(disk, partitions, i)
        /\ FatsThere(disk, partitions, i, f.stage)
    BY <1>3, <2>1 DEF ContentsOK
  <2>8. \A x \in Room(b + 1, k) : x >= b /\ x # b
    BY <2>4 DEF Room
  <2>9. AllThere(device'.disk, partitions, i - 1)
    BY <2>2, <2>3, <2>5, <2>6, <2>7, <2>8, EarlierAllStay
  <2>10. TableThere(device'.disk, partitions, i)
    <3>1. b \in Nat \ Room(b + 1, k)
      BY <2>4, <2>8
    <3> HIDE DEF b
    <3>2. (b \in DOMAIN device'.disk <=> b \in DOMAIN disk)
          /\ (b \in DOMAIN disk => device'.disk[b] = disk[b])
      BY <2>6, <3>1 DEF Touches
    <3> QED
      BY <2>7, <3>2 DEF TableThere, b
  <2>11. FatsThere(device'.disk, partitions, i, After(f.stage))
    BY <2>6, <2>7
  <2>12. f.stage = "fat2" => AllThere(device'.disk, partitions, i)
    <3> SUFFICES ASSUME f.stage = "fat2", NEW j \in 1..i PROVE There(device'.disk, partitions, j)
      BY DEF AllThere
    <3>1. CASE j = i
      BY <2>10, <2>11, <3>1 DEF There, After
    <3>2. CASE j # i
      <4>1. j \in 1..i - 1
        BY <2>2, <3>2
      <4> QED
        BY <2>9, <4>1 DEF AllThere
    <3> QED
      BY <3>1, <3>2
  <2> HIDE DEF f, i
  <2>13. CASE /\ After(f.stage) \in Stages /\ screen' = screen
              /\ job' = [job EXCEPT !.format.stage = After(f.stage)]
    <3>1. job'.index = i /\ job'.format.stage = After(f.stage)
      BY <2>2, <2>13
    <3> QED
      BY <1>3, <2>0, <2>9, <2>10, <2>11, <2>13, <3>1 DEF ContentsOK, disk
  <2>14. CASE /\ f.stage = "fat2" /\ screen' = "write" /\ i < Len(partitions)
              /\ job' = [job EXCEPT !.index = @ + 1, !.format = [stage |-> "table"]]
    <3>1. job'.index = i + 1 /\ job'.format.stage = "table" /\ (i + 1) - 1 = i
      BY <2>2, <2>14 DEF i
    <3> QED
      BY <2>0, <2>12, <2>14, <3>1 DEF ContentsOK, disk
  <2>15. CASE f.stage = "fat2" /\ screen' = "done" /\ ~(i < Len(partitions))
    <3>1. i = Len(partitions) /\ partitions # <<>>
      BY <2>2, <2>3, <2>15
    <3> QED
      BY <2>0, <2>12, <2>15, <3>1 DEF ContentsOK, disk
  <2> QED
    BY <1>1, <1>3, <2>13, <2>14, <2>15 DEF f, i
<1> QED
  BY <1>1, <1>2, <1>3

\* and every other step.
LEMMA ContentsKept == SafeInv /\ ContentsOK /\ [Next]_vars => ContentsOK'
<1> SUFFICES ASSUME SafeInv, ContentsOK, [Next]_vars PROVE ContentsOK'
  OBVIOUS
<1>1. CASE UNCHANGED vars
  BY <1>1 DEF ContentsOK, disk, vars, list
<1>2. CASE screen' \notin {"write", "done"}
  BY <1>2 DEF ContentsOK
<1>3. CASE WritePartitionTable
  <2>1. job'.index - 1 = 0 /\ job'.format.stage = "table" /\ screen' = "write"
    BY <1>3 DEF WritePartitionTable
  <2>2. AllThere(device'.disk, partitions', 0)
    BY DEF AllThere
  <2> QED
    BY <2>1, <2>2 DEF ContentsOK, disk
<1>4. ASSUME NEW ok \in BOOLEAN, WriteEmptyTable(ok) PROVE ContentsOK'
  <2> DEFINE c == [kind |-> "table", entries |-> EmptyTable]
  <2>0. screen = "menu" /\ partitions = <<>> /\ partitions' = partitions
    BY <1>4, Zenon DEF WriteEmptyTable, list
  <2>1. CASE ok
    <3>1. device' = Put(0, c) /\ screen' = "done"
      BY <1>4, <2>1, Zenon DEF WriteEmptyTable
    <3>2. DeviceType /\ 0 \in 0..device.sectors - 1
      BY DEF SafeInv, DeviceType, MIN_DEVICE_SIZE_IN_K
    <3>3. Content(c)
      <4>1. EmptyTable \in Tables
        <5>1. NoEntry \in TableEntry
          BY DEF NoEntry, TableEntry, Byte
        <5> QED
          BY <5>1 DEF EmptyTable, Tables
      <4> HIDE DEF EmptyTable
      <4> QED
        BY <4>1 DEF Content
    <3>4. 0 \in DOMAIN device'.disk /\ device'.disk[0] = c
      <4> HIDE DEF c
      <4> QED
        BY <3>1, <3>2, <3>3, PutTouches
    <3> HIDE DEF EmptyTable
    <3>5. Table(device'.disk, 0) = EmptyTable
      BY <3>4 DEF Table
    <3> QED
      BY <2>0, <3>1, <3>5 DEF ContentsOK, disk
  <2>2. CASE ~ok
    <3>1. screen' = "menu"
      BY <1>4, <2>0, <2>2, Zenon DEF WriteEmptyTable
    <3> QED
      BY <3>1 DEF ContentsOK
  <2> QED
    BY <2>1, <2>2
<1>5. CASE CreatePartition
  BY <1>5, ContentsCreate
<1>6. CASE CreateFatFileSystem
  BY <1>6, ContentsLay
<1>7. CASE Next /\ screen' \in {"write", "done"}
  <2>1. ~InitializePartitioningVariables /\ ~FormatWithoutPartitions /\ ~WriteFails /\ ~SearchAgain
        /\ ~DeleteAllPartitions /\ ~UndoAddPartition
        /\ \A complete, readable \in BOOLEAN : ~GetDiskPartitionsInfo(complete, readable)
    BY <1>7 DEF InitializePartitioningVariables, FormatWithoutPartitions, WriteFails, SearchAgain,
       DeleteAllPartitions, UndoAddPartition, GetDiskPartitionsInfo
  <2>2. ASSUME NEW size, NEW next, Add(size, next) PROVE FALSE
    <3>1. screen = "menu" /\ screen' = screen
      BY <2>2, Zenon DEF Add
    <3> QED
      BY <1>7, <3>1
  <2>3. ~AddAutoPartition
    BY <2>2, Zenon DEF AddAutoPartition
  <2>4. ASSUME NEW entered \in EnteredSizes, AddPartition(entered) PROVE FALSE
    <3> DEFINE asked == IF entered.inK THEN entered.n ELSE entered.n * 1024
               size == AtMost(asked, MaxAbsolutePartitionSizeInK(unpartitionnedSpaceInSectors))
               next == AtMost(asked, MaxAbsolutePartitionSizeInK(FreeAfter(size)))
    <3>1. Add(size, next)
      BY <2>4, Zenon DEF AddPartition
    <3> HIDE DEF size, next
    <3> QED
      BY <2>2, <3>1
  <2>5. \A i \in 1..9, ok \in BOOLEAN : ~TogglePartitionActive(i, ok)
    BY <1>7 DEF TogglePartitionActive
  <2> QED
    BY <1>3, <1>4, <1>5, <1>6, <1>7, <2>1, <2>3, <2>4, <2>5, Zenon DEF Next
<1> QED
  BY <1>1, <1>2, <1>7

\* What is written is the list.
LEMMA ContentsAlways == Spec => [](SafeInv /\ ContentsOK)
<1>1. Init => SafeInv
  BY SafeAtFirst
<1>2. Init => ContentsOK
  BY DEF Init, ContentsOK
<1>3. SafeInv /\ ContentsOK /\ [Next]_vars => (SafeInv /\ ContentsOK)'
  BY SafeKept, ContentsKept
<1> QED
  BY <1>1, <1>2, <1>3, PTL DEF Spec

-----------------------------------------------------------------------------
(* Reading it back. *)

\* A whole list is on d.
WholeList(d, ps) ==
    /\ ps \in Seq(Partition) /\ ps # <<>> /\ Len(ps) <= MAX_PARTITIONS_TO_HANDLE
    /\ Made(ps)
    /\ AllThere(d, ps, Len(ps))

\* Where the partitions of a list are.
LEMMA Places ==
    ASSUME NEW ps \in Seq(Partition), NEW i \in 1..Len(ps)
    PROVE  /\ Begin(ps, i) \in Nat /\ Begin(ps, i + 1) \in Nat /\ ps[i].sizeInK \in Nat
           /\ Begin(ps, i + 1) = Begin(ps, i) + ps[i].sizeInK * 2 + 1
           /\ Begin(ps, i + 1) <= Used(ps)
           /\ \A j \in 1..Len(ps) + 1 : /\ Begin(ps, j) \in Nat
                                        /\ j <= i => Begin(ps, j) <= Begin(ps, i)
<1>1. Used(ps) \in Nat
  <2>1. Sized(ps, Len(ps)) /\ Len(ps) \in Nat
    <3>1. (\A j \in 1..Len(ps) : ps[j] \in Partition) /\ Len(ps) \in Nat
      OBVIOUS
    <3> QED
      BY <3>1 DEF Sized, Partition
  <2>2. Len(ps) \in 0..Len(ps)
    BY <2>1
  <2> QED
    BY <2>1, <2>2, UsedGrows DEF Used
<1>2. PICK n \in Nat : Used(ps) = n
  BY <1>1
<1>3. Used(ps) <= n
  BY <1>2
<1> QED
  BY <1>2, <1>3, AreaInside

\* The first table is in the first sector, the others are not.
LEMMA FirstPlace ==
    ASSUME NEW ps \in Seq(Partition), ps # <<>>
    PROVE  Begin(ps, 1) = 0 /\ \A i \in 1..Len(ps) : i > 1 => Begin(ps, i) > 0
<1>1. Begin(ps, 1) = 0
  <2>1. 1 - 1 = 0
    OBVIOUS
  <2> QED
    BY <2>1, UsedNone DEF Begin
<1>2. ASSUME NEW i \in 1..Len(ps), i > 1 PROVE Begin(ps, i) > 0
  <2>1. i - 1 \in 1..Len(ps) /\ (i - 1) + 1 = i
    BY <1>2
  <2>2. PICK k \in Nat, b \in Nat : /\ Begin(ps, i - 1) = b /\ ps[i - 1].sizeInK = k
                                    /\ Begin(ps, i) = b + k * 2 + 1
    <3> DEFINE j == i - 1
    <3>1. j \in 1..Len(ps) /\ j + 1 = i
      BY <2>1
    <3> HIDE DEF j
    <3>2. /\ Begin(ps, j) \in Nat /\ ps[j].sizeInK \in Nat
          /\ Begin(ps, i) = Begin(ps, j) + ps[j].sizeInK * 2 + 1
      BY <3>1, Places
    <3> QED
      BY <3>2 DEF j
  <2> QED
    BY <2>2
<1> QED
  BY <1>1, <1>2

\* The table of each partition reads as it was written.
LEMMA TableRead ==
    ASSUME NEW d, NEW ps, WholeList(d, ps), NEW i \in 1..Len(ps)
    PROVE  Table(d, Begin(ps, i)) = TableFor(ps, i)
<1>1. TableThere(d, ps, i)
  BY DEF WholeList, AllThere, There
<1> HIDE DEF TableFor
<1> QED
  BY <1>1 DEF TableThere, Table

\* The links in the tables, from one partition to the next.
LEMMA Links ==
    ASSUME NEW d, NEW ps, WholeList(d, ps), NEW i \in 1..Len(ps)
    PROVE  /\ i < Len(ps) => /\ Table(d, Begin(ps, i))[2].type = 15
                             /\ i = 1 => Table(d, 0)[2].first = Begin(ps, 2)
                             /\ i > 1 => Begin(ps, 2) + Table(d, Begin(ps, i))[2].first
                                         = Begin(ps, i + 1)
           /\ i = Len(ps) => Table(d, Begin(ps, i))[2].type = 0
<1> DEFINE link == [type |-> 15, status |-> 0,
                    first |-> IF i = 1 THEN Begin(ps, 2) ELSE Begin(ps, i + 1) - Begin(ps, 2),
                    size |-> IF i = 1 THEN Used(Tail(ps)) ELSE ps[i + 1].sizeInK * 2]
<1>1. ps \in Seq(Partition) /\ ps # <<>> /\ Len(ps) \in Nat
  BY DEF WholeList
<1>2. Table(d, Begin(ps, i))[2] = IF i = Len(ps) THEN NoEntry ELSE link
  <2>1. TableFor(ps, i)[2] = IF i = Len(ps) THEN NoEntry ELSE link
    BY DEF TableFor
  <2> HIDE DEF link
  <2> QED
    BY <2>1, TableRead
<1>3. Begin(ps, 1) = 0
  BY <1>1, FirstPlace
<1>4. Begin(ps, 2) \in Nat /\ Begin(ps, i + 1) \in Nat
  <2>1. 2 \in 1..Len(ps) + 1
    BY <1>1
  <2> QED
    BY <1>1, <2>1, Places
<1>5. CASE i = Len(ps)
  BY <1>2, <1>5 DEF NoEntry
<1>6. CASE i # Len(ps)
  <2>1. /\ Table(d, Begin(ps, i))[2].type = 15
        /\ Table(d, Begin(ps, i))[2].first =
               IF i = 1 THEN Begin(ps, 2) ELSE Begin(ps, i + 1) - Begin(ps, 2)
    BY <1>2, <1>6
  <2>2. i = 1 => Table(d, 0)[2].first = Begin(ps, 2)
    BY <1>3, <2>1
  <2> QED
    BY <1>1, <1>4, <1>6, <2>1, <2>2
<1> QED
  BY <1>5, <1>6

\* s is the chain of tables from start.
ChainIs(d, start, s) ==
    \A n \in 1..MAX_PARTITIONS_TO_HANDLE + 1 :
        s[n] = IF n = 1 THEN start
               ELSE IF s[n - 1] # 0 /\ IsExtended(Table(d, s[n - 1])[2].type)
                    THEN start + Table(d, s[n - 1])[2].first ELSE 0

\* There is only one.
LEMMA OneChain ==
    ASSUME NEW d, NEW start, NEW v, NEW w, ChainIs(d, start, v), ChainIs(d, start, w)
    PROVE  \A n \in 1..MAX_PARTITIONS_TO_HANDLE + 1 : v[n] = w[n]
<1> DEFINE T == {n \in 1..MAX_PARTITIONS_TO_HANDLE + 1 : v[n] # w[n]}
<1> SUFFICES ASSUME T # {} PROVE FALSE
  OBVIOUS
<1>1. PICK k \in T : \A i \in T : k <= i
  <2>1. T \in SUBSET Nat
    OBVIOUS
  <2> HIDE DEF T
  <2> QED
    BY <2>1, LeastNatural
<1>2. k # 1
  BY DEF ChainIs
<1>3. k \in 2..MAX_PARTITIONS_TO_HANDLE + 1 /\ k - 1 \in 1..MAX_PARTITIONS_TO_HANDLE + 1
      /\ k - 1 \notin T
  <2>1. T \subseteq 1..MAX_PARTITIONS_TO_HANDLE + 1
    OBVIOUS
  <2>2. MAX_PARTITIONS_TO_HANDLE \in Nat
    BY Bounds
  <2> HIDE DEF T
  <2> QED
    BY <1>1, <1>2, <2>1, <2>2
<1>4. v[k - 1] = w[k - 1]
  BY <1>3
<1> QED
  BY <1>1, <1>2, <1>3, <1>4 DEF ChainIs

\* ChainedSectors is it.
LEMMA ChainRead ==
    ASSUME NEW d, NEW start, NEW v, ChainIs(d, start, v)
    PROVE  \A n \in 1..MAX_PARTITIONS_TO_HANDLE + 1 : ChainedSectors(d, start)[n] = v[n]
<1> DEFINE Step(u, n) == IF n = 1 THEN start
                         ELSE LET link == Table(d, u[n - 1])[2]
                              IN IF u[n - 1] # 0 /\ IsExtended(link.type)
                                 THEN start + link.first ELSE 0
           Is(u) == u = [n \in 1..MAX_PARTITIONS_TO_HANDLE + 1 |-> Step(u, n)]
           g == CHOOSE u : Is(u)
           w == [n \in 1..MAX_PARTITIONS_TO_HANDLE + 1 |-> v[n]]
<1>0. MAX_PARTITIONS_TO_HANDLE \in Nat
  BY Bounds
<1>1. Is(w)
  BY <1>0 DEF ChainIs
<1>2. Is(g)
  <2> HIDE DEF Is
  <2> QED
    BY <1>1
<1>3. ChainIs(d, start, g)
  <2> HIDE DEF g
  <2>1. ASSUME NEW n \in 1..MAX_PARTITIONS_TO_HANDLE + 1
        PROVE  g[n] = Step(g, n)
    <3> HIDE DEF Step
    <3> QED
      BY <1>2
  <2> QED
    BY <2>1 DEF ChainIs
<1>4. ChainedSectors(d, start) = g
  BY Zenon DEF ChainedSectors
<1> HIDE DEF g
<1> QED
  BY <1>3, <1>4, OneChain

\* The tables behind the first one are those of the other partitions.
LEMMA ListChain ==
    ASSUME NEW d, NEW ps, WholeList(d, ps), Len(ps) > 1
    PROVE  \A e \in 1..MAX_PARTITIONS_TO_HANDLE + 1 :
             ChainedSectors(d, Begin(ps, 2))[e] = IF e < Len(ps) THEN Begin(ps, e + 1) ELSE 0
<1> DEFINE n == Len(ps)
           start == Begin(ps, 2)
           v == [e \in 1..MAX_PARTITIONS_TO_HANDLE + 1 |-> IF e < n THEN Begin(ps, e + 1) ELSE 0]
<1>1. ps \in Seq(Partition) /\ ps # <<>> /\ n \in Nat /\ n > 1
      /\ MAX_PARTITIONS_TO_HANDLE \in Nat
  BY Bounds DEF WholeList
<1>2. ASSUME NEW e \in 2..n
      PROVE  /\ Begin(ps, e) # 0
             /\ e < n => Table(d, Begin(ps, e))[2].type = 15
                         /\ start + Table(d, Begin(ps, e))[2].first = Begin(ps, e + 1)
             /\ e = n => Table(d, Begin(ps, e))[2].type = 0
  <2>1. e \in 1..n /\ e > 1
    BY <1>1
  <2>2. Begin(ps, e) > 0 /\ Begin(ps, e) \in Nat
    BY <1>1, <2>1, FirstPlace, Places
  <2> QED
    BY <2>1, <2>2, Links
<1> HIDE DEF n, start
<1>3. ASSUME NEW e \in 1..MAX_PARTITIONS_TO_HANDLE + 1
      PROVE  v[e] = IF e = 1 THEN start
                    ELSE IF v[e - 1] # 0 /\ IsExtended(Table(d, v[e - 1])[2].type)
                         THEN start + Table(d, v[e - 1])[2].first ELSE 0
  <2>1. CASE e = 1
    <3>1. v[1] = start
      <4>1. 1 \in 1..MAX_PARTITIONS_TO_HANDLE + 1 /\ 1 < n /\ 1 + 1 = 2
        BY <1>1
      <4> QED
        BY <4>1 DEF start
    <3> QED
      BY <2>1, <3>1
  <2>2. CASE e # 1
    <3>1. e - 1 \in 1..MAX_PARTITIONS_TO_HANDLE + 1 /\ (e - 1) + 1 = e /\ e \in Nat /\ e >= 2
      BY <1>1, <2>2
    <3>2. CASE e - 1 < n
      <4>1. v[e - 1] = Begin(ps, e) /\ e \in 2..n
        BY <1>1, <3>1, <3>2
      <4>2. v[e] = IF e < n THEN Begin(ps, e + 1) ELSE 0
        OBVIOUS
      <4> HIDE DEF v
      <4>3. CASE e < n
        BY <1>2, <2>2, <4>1, <4>2, <4>3 DEF IsExtended
      <4>4. CASE ~(e < n)
        <5>1. e = n
          BY <1>1, <4>1, <4>4
        <5> QED
          BY <1>2, <2>2, <4>1, <4>2, <4>4, <5>1 DEF IsExtended
      <4> QED
        BY <4>3, <4>4
    <3>3. CASE ~(e - 1 < n)
      <4>1. v[e - 1] = 0 /\ v[e] = 0
        BY <1>1, <3>1, <3>3
      <4> HIDE DEF v
      <4> QED
        BY <2>2, <4>1
    <3> QED
      BY <3>2, <3>3
  <2> QED
    BY <2>1, <2>2
<1>4. ChainIs(d, start, v)
  <2> HIDE DEF v
  <2> QED
    BY <1>3 DEF ChainIs
<1>5. \A e \in 1..MAX_PARTITIONS_TO_HANDLE + 1 : v[e] = IF e < n THEN Begin(ps, e + 1) ELSE 0
  OBVIOUS
<1> HIDE DEF v
<1>6. \A e \in 1..MAX_PARTITIONS_TO_HANDLE + 1 : ChainedSectors(d, start)[e] = v[e]
  BY <1>4, ChainRead
<1> QED
  BY <1>5, <1>6 DEF n, start

\* What _GPART should answer for partition i.
AnswerFor(ps, i) ==
    [type |-> ps[i].partitionType, status |-> ps[i].status, size |-> ps[i].sizeInK * 2,
     sector |-> Begin(ps, i), first |-> Begin(ps, i) + 1]

\* The first entries of the tables.
LEMMA OwnRead ==
    ASSUME NEW d, NEW ps, WholeList(d, ps), NEW i \in 1..Len(ps)
    PROVE  /\ Table(d, Begin(ps, i))[1] =
                  [type |-> ps[i].partitionType, status |-> ps[i].status, first |-> 1,
                   size |-> ps[i].sizeInK * 2]
           /\ ps[i].partitionType \in {1, 14}
<1>1. TableFor(ps, i)[1] = [type |-> ps[i].partitionType, status |-> ps[i].status, first |-> 1,
                            size |-> ps[i].sizeInK * 2]
  BY DEF TableFor
<1>2. ps[i].partitionType \in {1, 14}
  BY DEF WholeList, Made
<1>3. Table(d, Begin(ps, i)) = TableFor(ps, i)
  BY TableRead
<1> QED
  BY <1>1, <1>2, <1>3

\* _GPART answers it for the primary partition,
LEMMA PrimaryRead ==
    ASSUME NEW d, NEW ps, WholeList(d, ps)
    PROVE  F_GPART(d, 1, 0) = AnswerFor(ps, 1)
<1>1. ps \in Seq(Partition) /\ ps # <<>> /\ 1 \in 1..Len(ps)
  BY DEF WholeList
<1>2. Begin(ps, 1) = 0
  BY <1>1, FirstPlace
<1>3. /\ Table(d, 0)[1] = [type |-> ps[1].partitionType, status |-> ps[1].status, first |-> 1,
                           size |-> ps[1].sizeInK * 2]
      /\ ps[1].partitionType \in {1, 14}
  BY <1>1, <1>2, OwnRead
<1>4. F_GPART(d, 1, 0) = LET entry == Table(d, 0)[1]
                             s == IF entry.type = 0 THEN NoSector ELSE 0
                         IN [type |-> entry.type, status |-> entry.status, size |-> entry.size,
                             sector |-> s, first |-> s + entry.first]
  BY Zenon DEF F_GPART
<1> QED
  BY <1>2, <1>3, <1>4 DEF AnswerFor

\* for those in the extended one,
LEMMA LogicalRead ==
    ASSUME NEW d, NEW ps, WholeList(d, ps), NEW e \in 1..MAX_PARTITIONS_TO_HANDLE, Len(ps) > 1
    PROVE  IF e < Len(ps) THEN F_GPART(d, 2, e) = AnswerFor(ps, e + 1)
                               /\ F_GPART(d, 2, e).sector # NoSector
                          ELSE F_GPART(d, 2, e).sector = NoSector
<1>1. ps \in Seq(Partition) /\ ps # <<>> /\ 1 \in 1..Len(ps) /\ 1 < Len(ps)
      /\ Len(ps) \in Nat /\ e # 0 /\ e \in 1..MAX_PARTITIONS_TO_HANDLE + 1 /\ e \in Nat
  BY Bounds DEF WholeList
<1>2. Begin(ps, 1) = 0
  BY <1>1, FirstPlace
<1>3. Table(d, 0)[2].type = 15 /\ Table(d, 0)[2].first = Begin(ps, 2)
  BY <1>1, <1>2, Links
<1> DEFINE sector == ChainedSectors(d, Begin(ps, 2))[e]
           logical == Table(d, sector)[1]
<1>4. F_GPART(d, 2, e) = LET s == IF sector # 0 THEN sector ELSE NoSector
                         IN [type |-> logical.type, status |-> logical.status,
                             size |-> logical.size, sector |-> s, first |-> s + logical.first]
  <2>1. F_GPART(d, 2, e) =
            LET entry == Table(d, 0)[2]
                x == ChainedSectors(d, entry.first)[e]
                l == Table(d, x)[1]
                s == IF IsExtended(entry.type) /\ x # 0 THEN x ELSE NoSector
            IN [type |-> l.type, status |-> l.status, size |-> l.size,
                sector |-> s, first |-> s + l.first]
    BY <1>1, Zenon DEF F_GPART
  <2>2. IsExtended(15)
    BY DEF IsExtended
  <2> QED
    BY <1>3, <2>1, <2>2, Zenon
<1>5. sector = IF e < Len(ps) THEN Begin(ps, e + 1) ELSE 0
  BY <1>1, ListChain
<1> HIDE DEF sector
<1>6. CASE e < Len(ps)
  <2>1. e + 1 \in 1..Len(ps) /\ e + 1 > 1
    BY <1>1, <1>6
  <2>2. Begin(ps, e + 1) > 0 /\ Begin(ps, e + 1) \in Nat
    BY <1>1, <2>1, FirstPlace, Places
  <2>3. logical = [type |-> ps[e + 1].partitionType, status |-> ps[e + 1].status, first |-> 1,
                   size |-> ps[e + 1].sizeInK * 2]
    BY <1>5, <1>6, <2>1, OwnRead
  <2> HIDE DEF logical
  <2>4. sector # 0 /\ sector = Begin(ps, e + 1) /\ sector # NoSector
    BY <1>5, <1>6, <2>2 DEF NoSector
  <2>5. F_GPART(d, 2, e) = [type |-> logical.type, status |-> logical.status,
                            size |-> logical.size, sector |-> sector,
                            first |-> sector + logical.first]
    BY <1>4, <2>4, Zenon
  <2>6. F_GPART(d, 2, e).sector = sector
    BY <2>5
  <2> QED
    BY <1>6, <2>3, <2>4, <2>5, <2>6 DEF AnswerFor
<1>7. CASE ~(e < Len(ps))
  <2>1. sector = 0
    BY <1>5, <1>7
  <2> HIDE DEF logical
  <2>2. F_GPART(d, 2, e).sector = NoSector
    BY <1>4, <2>1
  <2> QED
    BY <1>7, <2>2
<1> QED
  BY <1>6, <1>7

\* and that there is nothing else.
LEMMA NothingElse ==
    ASSUME NEW d, NEW ps, WholeList(d, ps), NEW p \in 2..4, p = 2 => Len(ps) = 1
    PROVE  F_GPART(d, p, 0).sector = NoSector
<1>1. ps \in Seq(Partition) /\ ps # <<>> /\ 1 \in 1..Len(ps)
  BY DEF WholeList
<1>2. Begin(ps, 1) = 0
  BY <1>1, FirstPlace
<1>3. Table(d, 0) = TableFor(ps, 1)
  BY <1>1, <1>2, TableRead
<1>4. Table(d, 0)[p].type = 0
  <2>1. CASE p = 2
    BY <1>3, <2>1 DEF TableFor, NoEntry
  <2>2. CASE p = 3
    BY <1>3, <2>2 DEF TableFor, NoEntry
  <2>3. CASE p = 4
    BY <1>3, <2>3 DEF TableFor, NoEntry
  <2> QED
    BY <2>1, <2>2, <2>3
<1>5. F_GPART(d, p, 0) = LET entry == Table(d, 0)[p]
                             s == IF entry.type = 0 THEN NoSector ELSE 0
                         IN [type |-> entry.type, status |-> entry.status, size |-> entry.size,
                             sector |-> s, first |-> s + entry.first]
  BY Zenon DEF F_GPART
<1> QED
  BY <1>4, <1>5

\* The search makes an entry of the list of what _GPART answers: the one that was there.
LEMMA InfoRead ==
    ASSUME NEW d, NEW ps, WholeList(d, ps), NEW i \in 1..Len(ps),
           F_GPART(d, IF i = 1 THEN 1 ELSE 2, i - 1) = AnswerFor(ps, i)
    PROVE  Info(d, IF i = 1 THEN 1 ELSE 2, i - 1) = ps[i]
<1> DEFINE k == ps[i].sizeInK
           p == IF i = 1 THEN 1 ELSE 2
<1>1. ps[i] \in Partition /\ ps[i].primaryIndex = p /\ ps[i].extendedIndex = i - 1
  BY DEF WholeList, Made
<1>2. k \in Nat
  BY <1>1 DEF Partition
<1> HIDE DEF k, p
<1>3. (k * 2) \div 2 = k
  BY <1>2
<1>4. Info(d, p, i - 1) = [primaryIndex |-> p, extendedIndex |-> i - 1,
                           partitionType |-> ps[i].partitionType, status |-> ps[i].status,
                           sizeInK |-> k]
  <2>1. /\ F_GPART(d, p, i - 1).type = ps[i].partitionType
        /\ F_GPART(d, p, i - 1).status = ps[i].status
        /\ F_GPART(d, p, i - 1).size = k * 2
    BY DEF AnswerFor, k, p
  <2> QED
    BY <1>3, <2>1 DEF Info
<1>5. ps[i] = [primaryIndex |-> p, extendedIndex |-> i - 1,
               partitionType |-> ps[i].partitionType, status |-> ps[i].status, sizeInK |-> k]
  BY <1>1 DEF Partition, k
<1> QED
  BY <1>4, <1>5 DEF p

\* A list that is on the device is found there.
LEMMA ListFound == ASSUME NEW d, NEW ps, WholeList(d, ps) PROVE Found(d) = ps
<1> DEFINE n == Len(ps)
           rest == [e \in 1..n - 1 |-> ps[e + 1]]
<1>1. ps \in Seq(Partition) /\ n \in Nat /\ n >= 1 /\ n <= MAX_PARTITIONS_TO_HANDLE
      /\ MAX_PARTITIONS_TO_HANDLE \in Nat
  BY Bounds DEF WholeList
<1>2. FoundUnder(d, 1) = <<ps[1]>>
  <2>1. F_GPART(d, 1, 0) = AnswerFor(ps, 1)
    BY PrimaryRead
  <2>2. Info(d, 1, 0) = ps[1]
    <3>1. 1 \in 1..Len(ps) /\ 1 - 1 = 0
      BY <1>1
    <3> QED
      BY <2>1, <3>1, InfoRead
  <2>3. F_GPART(d, 1, 0).sector # NoSector /\ ~IsExtended(F_GPART(d, 1, 0).type)
    <3>1. ps # <<>> /\ 1 \in 1..Len(ps)
      BY <1>1
    <3>2. Begin(ps, 1) = 0
      BY <1>1, <3>1, FirstPlace
    <3>3. ps[1].partitionType \in {1, 14}
      BY <3>1, OwnRead
    <3> QED
      BY <2>1, <3>2, <3>3 DEF AnswerFor, NoSector, IsExtended
  <2> QED
    BY <2>2, <2>3, Zenon DEF FoundUnder
<1>3. FoundUnder(d, 3) = <<>> /\ FoundUnder(d, 4) = <<>>
  BY NothingElse DEF FoundUnder
<1>4. FoundUnder(d, 2) = rest
  <2>1. CASE n = 1
    <3>1. FoundUnder(d, 2) = <<>>
      BY <2>1, NothingElse DEF FoundUnder
    <3>2. rest = <<>>
      BY <2>1
    <3> QED
      BY <3>1, <3>2
  <2>2. CASE n # 1
    <3> DEFINE E == {e \in 1..MAX_PARTITIONS_TO_HANDLE : F_GPART(d, 2, e).sector # NoSector}
    <3>1. n > 1
      <4> HIDE DEF n
      <4> QED
        BY <1>1, <2>2
    <3>2. E = 1..n - 1
      <4>1. ASSUME NEW e \in 1..MAX_PARTITIONS_TO_HANDLE
            PROVE  F_GPART(d, 2, e).sector # NoSector <=> e < n
        BY <3>1, LogicalRead
      <4> HIDE DEF n
      <4>2. \A e : e \in 1..n - 1 <=> e \in 1..MAX_PARTITIONS_TO_HANDLE /\ e < n
        BY <1>1
      <4> QED
        BY <4>1, <4>2
    <3>3. Cardinality(E) = n - 1
      <4>1. n - 1 \in Nat
        BY <1>1
      <4> HIDE DEF E, n
      <4> QED
        BY <3>2, <4>1, FS_Interval
    <3>4. F_GPART(d, 2, 0).sector # NoSector /\ IsExtended(F_GPART(d, 2, 0).type)
      <4>1. Table(d, 0)[2].type = 15
        <5>1. ps # <<>> /\ 1 \in 1..Len(ps) /\ 1 < Len(ps)
          BY <1>1, <3>1
        <5>2. Begin(ps, 1) = 0
          BY <1>1, <5>1, FirstPlace
        <5> QED
          BY <5>1, <5>2, Links
      <4>2. F_GPART(d, 2, 0) =
                LET entry == Table(d, 0)[2]
                    s == IF entry.type = 0 THEN NoSector ELSE 0
                IN [type |-> entry.type, status |-> entry.status, size |-> entry.size,
                    sector |-> s, first |-> s + entry.first]
        BY Zenon DEF F_GPART
      <4> QED
        BY <4>1, <4>2 DEF IsExtended, NoSector
    <3>5. FoundUnder(d, 2) = [e \in 1..Cardinality(E) |-> Info(d, 2, e)]
      BY <3>4, Zenon DEF FoundUnder
    <3>6. ASSUME NEW e \in 1..n - 1 PROVE Info(d, 2, e) = ps[e + 1]
      <4> DEFINE i == e + 1
      <4>1. i \in 1..Len(ps) /\ i # 1 /\ i - 1 = e /\ e \in 1..MAX_PARTITIONS_TO_HANDLE /\ e < n
        BY <1>1
      <4>2. F_GPART(d, 2, e) = AnswerFor(ps, i)
        BY <3>1, <4>1, LogicalRead
      <4> HIDE DEF i
      <4>3. Info(d, 2, e) = ps[i]
        BY <4>1, <4>2, InfoRead
      <4> QED
        BY <4>3 DEF i
    <3> HIDE DEF E, n
    <3> QED
      BY <3>3, <3>5, <3>6
  <2> QED
    BY <2>1, <2>2
<1>5. <<ps[1]>> \o rest \o <<>> \o <<>> = ps
  <2> DEFINE all == <<ps[1]>> \o rest \o <<>> \o <<>>
  <2>1. rest \in Seq(Partition) /\ Len(rest) = n - 1 /\ ps[1] \in Partition
    BY <1>1
  <2>2. all \in Seq(Partition) /\ Len(all) = n
        /\ \A i \in 1..n : all[i] = IF i = 1 THEN ps[1] ELSE rest[i - 1]
    <3> HIDE DEF rest, n
    <3> QED
      BY <1>1, <2>1
  <2>3. ASSUME NEW i \in 1..n PROVE all[i] = ps[i]
    <3>1. i # 1 => rest[i - 1] = ps[i]
      <4>1. i # 1 => i - 1 \in 1..n - 1 /\ (i - 1) + 1 = i
        BY <1>1
      <4> HIDE DEF n
      <4> QED
        BY <4>1
    <3> HIDE DEF all, n, rest
    <3> QED
      BY <2>2, <3>1
  <2> HIDE DEF all, rest
  <2>4. all = ps
    BY <1>1, <2>2, <2>3
  <2> QED
    BY <2>4 DEF all
<1> DEFINE k == IF n < MAX_PARTITIONS_TO_HANDLE THEN n ELSE MAX_PARTITIONS_TO_HANDLE
<1>6. Found(d) = SubSeq(ps, 1, k)
  <2> HIDE DEF rest
  <2> QED
    BY <1>2, <1>3, <1>4, <1>5, Zenon DEF Found
<1>7. k = n
  BY <1>1
<1>8. SubSeq(ps, 1, n) = ps
  BY <1>1
<1> QED
  BY <1>6, <1>7, <1>8

\* An empty table is an empty list.
LEMMA NoneFound == ASSUME NEW d, Table(d, 0) = EmptyTable PROVE Found(d) = <<>>
<1>1. ASSUME NEW p \in 1..4 PROVE FoundUnder(d, p) = <<>>
  <2>1. Table(d, 0)[p].type = 0
    BY DEF EmptyTable, NoEntry
  <2>2. F_GPART(d, p, 0) = LET entry == Table(d, 0)[p]
                               s == IF entry.type = 0 THEN NoSector ELSE 0
                           IN [type |-> entry.type, status |-> entry.status, size |-> entry.size,
                               sector |-> s, first |-> s + entry.first]
    BY Zenon DEF F_GPART
  <2>3. F_GPART(d, p, 0).sector = NoSector
    BY <2>1, <2>2
  <2> QED
    BY <2>3 DEF FoundUnder
<1> DEFINE all == FoundUnder(d, 1) \o FoundUnder(d, 2) \o FoundUnder(d, 3) \o FoundUnder(d, 4)
           k == IF Len(all) < MAX_PARTITIONS_TO_HANDLE THEN Len(all) ELSE MAX_PARTITIONS_TO_HANDLE
<1>2. all = <<>>
  <2>1. /\ FoundUnder(d, 1) = <<>> /\ FoundUnder(d, 2) = <<>> /\ FoundUnder(d, 3) = <<>>
        /\ FoundUnder(d, 4) = <<>>
    BY <1>1
  <2> QED
    BY <2>1
<1>3. k = 0
  <2>1. Len(all) = 0
    BY <1>2
  <2> HIDE DEF all
  <2> QED
    BY <2>1, Bounds
<1>4. Found(d) = SubSeq(all, 1, k)
  BY Zenon DEF Found
<1> HIDE DEF all, k
<1>5. SubSeq(<<>>, 1, 0) = <<>>
  OBVIOUS
<1> QED
  BY <1>2, <1>3, <1>4, <1>5

\* When the list has been written it is whole.
LEMMA WholeWritten ==
    ASSUME SafeInv, ContentsOK, screen = "done", partitions # <<>>
    PROVE  WholeList(disk, partitions) /\ Used(partitions) <= device.sectors
<1>1. /\ partitions \in Seq(Partition) /\ Made(partitions) /\ Used(partitions) <= device.sectors
  BY ListLies
<1>2. Len(partitions) <= MAX_PARTITIONS_TO_HANDLE
  BY DEF SafeInv, ListType
<1>3. AllThere(disk, partitions, Len(partitions))
  BY DEF ContentsOK
<1> QED
  BY <1>1, <1>2, <1>3 DEF WholeList

\* _GPART answers for each partition of the list.
LEMMA EntryRead ==
    ASSUME WholeList(disk, partitions), NEW i \in Parts
    PROVE  EntryOf(i) = AnswerFor(partitions, i)
<1>1. /\ Len(partitions) \in Nat /\ Len(partitions) <= MAX_PARTITIONS_TO_HANDLE
      /\ i \in 1..Len(partitions) /\ MAX_PARTITIONS_TO_HANDLE \in Nat
  BY Bounds DEF WholeList, Parts
<1>2. partitions[i].primaryIndex = (IF i = 1 THEN 1 ELSE 2) /\ partitions[i].extendedIndex = i - 1
  BY <1>1 DEF WholeList, Made
<1>3. CASE i = 1
  <2>1. i - 1 = 0
    BY <1>3
  <2> QED
    BY <1>2, <1>3, <2>1, PrimaryRead DEF EntryOf
<1>4. CASE i # 1
  <2> DEFINE e == i - 1
  <2>1. e \in 1..MAX_PARTITIONS_TO_HANDLE /\ e < Len(partitions) /\ e + 1 = i
        /\ Len(partitions) > 1
    BY <1>1, <1>4
  <2>2. EntryOf(i) = F_GPART(disk, 2, e)
    BY <1>2, <1>4 DEF EntryOf
  <2> HIDE DEF e
  <2> QED
    BY <2>1, <2>2, LogicalRead
<1> QED
  BY <1>3, <1>4

\* Once the list has been written, also after writes that failed and were done
\* again over what they left, _GPART finds exactly the partitions of the list, on
\* a device of any size that held anything before.
THEOREM WrittenIsFound == Spec => []WrittenAsListed
<1>1. SafeInv /\ ContentsOK => WrittenAsListed
  <2> SUFFICES ASSUME SafeInv, ContentsOK, screen = "done" PROVE Found(disk) = partitions
    BY DEF WrittenAsListed
  <2>1. CASE partitions = <<>>
    <3>1. Table(disk, 0) = EmptyTable
      BY <2>1 DEF ContentsOK
    <3> QED
      BY <2>1, <3>1, NoneFound
  <2>2. CASE partitions # <<>>
    BY <2>2, WholeWritten, ListFound
  <2> QED
    BY <2>1, <2>2
<1> QED
  BY <1>1, ContentsAlways, PTL

\* The partitions that have been written lie on the device apart from each other,
\* each with its table in front of it, and all but the first in the extended one.
THEOREM PartitionsAreApart == Spec => []PartitionsApart
<1>1. SafeInv /\ ContentsOK => PartitionsApart
  <2> DEFINE start(i) == AtMost(EntryOf(i).sector, EntryOf(i).first)
             end(i) == EntryOf(i).first + EntryOf(i).size
             outer == Table(disk, 0)[2]
  <2> SUFFICES ASSUME SafeInv, ContentsOK, screen = "done", NEW i \in Parts
               PROVE  /\ EntryOf(i).sector < EntryOf(i).first /\ end(i) <= device.sectors
                      /\ \A j \in Parts : j < i => end(j) <= start(i)
                      /\ i > 1 => outer.first <= start(i) /\ end(i) <= outer.first + outer.size
    BY Zenon DEF PartitionsApart
  <2>1. /\ partitions \in Seq(Partition) /\ partitions # <<>> /\ Len(partitions) \in Nat
        /\ i \in 1..Len(partitions) /\ device.sectors \in Nat
    BY DEF SafeInv, ListType, DeviceType, Parts
  <2>2. WholeList(disk, partitions) /\ Used(partitions) <= device.sectors
    BY <2>1, WholeWritten
  <2>3. ASSUME NEW j \in Parts
        PROVE  /\ start(j) = Begin(partitions, j) /\ end(j) = Begin(partitions, j + 1)
               /\ EntryOf(j).sector < EntryOf(j).first
               /\ Begin(partitions, j) \in Nat /\ Begin(partitions, j + 1) \in Nat
    <3>1. j \in 1..Len(partitions)
      BY DEF Parts
    <3>2. PICK b \in Nat, k \in Nat :
            /\ Begin(partitions, j) = b /\ partitions[j].sizeInK = k
            /\ Begin(partitions, j + 1) = b + k * 2 + 1
      BY <2>1, <3>1, Places
    <3>3. /\ EntryOf(j).sector = b /\ EntryOf(j).first = b + 1 /\ EntryOf(j).size = k * 2
      BY <2>2, <3>2, EntryRead DEF AnswerFor
    <3> QED
      BY <3>2, <3>3 DEF AtMost
  <2>4. Used(partitions) \in Nat /\ Begin(partitions, i + 1) <= Used(partitions)
    <3>1. Begin(partitions, i + 1) <= Used(partitions)
      BY <2>1, Places
    <3>2. Used(Tail(partitions)) \in Nat
          /\ Used(partitions) = Begin(partitions, 2) + Used(Tail(partitions))
      BY <2>1, UsedTail
    <3>3. Begin(partitions, 2) \in Nat
      <4>1. 2 \in 1..Len(partitions) + 1
        BY <2>1
      <4> QED
        BY <2>1, <4>1, Places
    <3> QED
      BY <3>1, <3>2, <3>3
  <2>5. ASSUME NEW j \in Parts, j < i PROVE end(j) <= start(i)
    <3>1. j + 1 \in 1..Len(partitions) + 1 /\ j + 1 <= i
      BY <2>1, <2>5 DEF Parts
    <3>2. Begin(partitions, j + 1) <= Begin(partitions, i)
      BY <2>1, <3>1, Places
    <3> HIDE DEF start, end
    <3> QED
      BY <2>3, <3>2
  <2>6. ASSUME i > 1
        PROVE  outer.first <= start(i) /\ end(i) <= outer.first + outer.size
    <3>1. 2 \in 1..Len(partitions) + 1 /\ 2 <= i /\ 1 \in 1..Len(partitions) /\ 1 < Len(partitions)
      BY <2>1, <2>6
    <3>2. Begin(partitions, 2) <= Begin(partitions, i)
      BY <2>1, <3>1, Places
    <3>3. Used(partitions) = Begin(partitions, 2) + Used(Tail(partitions))
      BY <2>1, UsedTail
    <3>4. outer.first = Begin(partitions, 2) /\ outer.size = Used(Tail(partitions))
      <4>1. Table(disk, 0) = TableFor(partitions, 1)
        <5>1. Begin(partitions, 1) = 0
          BY <2>1, FirstPlace
        <5> QED
          BY <2>2, <3>1, <5>1, TableRead
      <4>2. TableFor(partitions, 1)[2] =
              [type |-> 15, status |-> 0, first |-> Begin(partitions, 2),
               size |-> Used(Tail(partitions))]
        <5>1. 1 # Len(partitions)
          <6>1. \A m \in Nat : 1 < m => 1 # m
            OBVIOUS
          <6> QED
            BY <2>1, <3>1, <6>1, Zenon
        <5> QED
          BY <5>1 DEF TableFor
      <4> QED
        BY <4>1, <4>2
    <3> HIDE DEF start, end, outer
    <3> QED
      BY <2>3, <2>4, <3>2, <3>3, <3>4
  <2>7. end(i) <= device.sectors
    <3> HIDE DEF end, start
    <3> QED
      BY <2>1, <2>2, <2>3, <2>4
  <2> QED
    BY <2>3, <2>5, <2>6, <2>7, Zenon
<1> QED
  BY <1>1, ContentsAlways, PTL

\* Each written partition has its file system, whole, and of the kind that its type
\* announces.
THEOREM PartitionsAreFormatted == Spec => []FormattedAsListed
<1>1. SafeInv /\ ContentsOK => FormattedAsListed
  <2> SUFFICES ASSUME SafeInv, ContentsOK, screen = "done", NEW i \in Parts
               PROVE  LET first == EntryOf(i).first
                          p == CalculateFatFileSystemParameters(partitions[i].sizeInK)
                      IN /\ {first, first + 1, first + 1 + p.sectorsPerFat} \subseteq DOMAIN disk
                         /\ disk[first] = [kind |-> "boot", parameters |-> p]
                         /\ disk[first + 1] = [kind |-> "fat", isFat16 |-> p.isFat16]
                         /\ disk[first + 1 + p.sectorsPerFat] = disk[first + 1]
                         /\ p.totalSectors <= EntryOf(i).size
                         /\ p.isFat16 <=> EntryOf(i).type = 14
    BY Zenon DEF FormattedAsListed
  <2>1. i \in 1..Len(partitions) /\ partitions # <<>>
    BY DEF SafeInv, ListType, Parts
  <2>2. WholeList(disk, partitions)
    BY <2>1, WholeWritten
  <2> DEFINE b == Begin(partitions, i)
             k == partitions[i].sizeInK
             p == CalculateFatFileSystemParameters(k)
             fat == [kind |-> "fat", isFat16 |-> p.isFat16]
  <2>3. EntryOf(i).first = b + 1 /\ EntryOf(i).size = k * 2
        /\ EntryOf(i).type = partitions[i].partitionType
    BY <2>2, EntryRead DEF AnswerFor
  <2>4. /\ b + 1 \in DOMAIN disk /\ disk[b + 1] = [kind |-> "boot", parameters |-> p]
        /\ b + 1 + 1 \in DOMAIN disk /\ disk[b + 1 + 1] = fat
        /\ b + 1 + 1 + p.sectorsPerFat \in DOMAIN disk /\ disk[b + 1 + 1 + p.sectorsPerFat] = fat
    <3>1. Laid(disk, b + 1, k, "end")
      BY <2>1, <2>2, Zenon DEF WholeList, AllThere, There, FatsThere
    <3> HIDE DEF b, k
    <3> QED
      BY <3>1 DEF Laid
  <2>5. k \in Sizes /\ partitions[i].partitionType =
                         (IF k > MAX_FAT12_PARTITION_SIZE_IN_K THEN 14 ELSE 1)
    BY <2>1, <2>2 DEF WholeList, Made
  <2>6. p.totalSectors <= k * 2 /\ (p.isFat16 <=> k > MAX_FAT12_PARTITION_SIZE_IN_K)
    <3> HIDE DEF k
    <3> QED
      BY <2>5, RoomForAll, PartitionsToo DEF RoomForFats
  <2>7. p.isFat16 <=> EntryOf(i).type = 14
    <3>1. (k > MAX_FAT12_PARTITION_SIZE_IN_K) <=> EntryOf(i).type = 14
      <4> HIDE DEF k
      <4> QED
        BY <2>3, <2>5
    <3> QED
      BY <2>6, <3>1, Zenon
  <2> HIDE DEF b, p, fat, k
  <2> QED
    BY <2>3, <2>4, <2>6, <2>7 DEF k, p, fat
<1> QED
  BY <1>1, ContentsAlways, PTL

-----------------------------------------------------------------------------
(* The list that was found on the device, and the flags in it. *)

\* Two that are found at the same place.
Same(x, y) == x.primaryIndex = y.primaryIndex /\ x.extendedIndex = y.extendedIndex

\* No two of a list have the same place, and all are behind the entries from low to high.
Distinct(ps, low, high) ==
    /\ \A i \in 1..Len(ps) : ps[i].primaryIndex \in low..high
    /\ \A i, j \in 1..Len(ps) : Same(ps[i], ps[j]) => i = j

\* A list behind further entries after it shares no place with it.
LEMMA DistinctJoined ==
    ASSUME NEW ps \in Seq(Partition), NEW qs \in Seq(Partition),
           NEW a \in Int, NEW b \in Int, NEW c \in Int, a <= b, b < c,
           Distinct(ps, a, b), Distinct(qs, b + 1, c)
    PROVE  Distinct(ps \o qs, a, c)
<1> DEFINE m == Len(ps)
           rs == ps \o qs
<1>1. m \in Nat /\ Len(qs) \in Nat /\ Len(rs) = m + Len(qs)
  OBVIOUS
<1>2. \A i \in 1..Len(rs) :
        \/ i \in 1..m /\ rs[i] = ps[i]
        \/ i - m \in 1..Len(qs) /\ rs[i] = qs[i - m]
  OBVIOUS
<1> HIDE DEF m, rs
<1>3. ASSUME NEW i \in 1..Len(rs) PROVE rs[i].primaryIndex \in a..c
  <2>1. CASE i \in 1..m /\ rs[i] = ps[i]
    BY <2>1 DEF Same, Distinct, m
  <2>2. CASE i - m \in 1..Len(qs) /\ rs[i] = qs[i - m]
    BY <2>2 DEF Same, Distinct
  <2> QED
    BY <1>2, <2>1, <2>2
<1>4. \A i, j \in 1..Len(rs) :
        Same(rs[i], rs[j]) => i = j
  <2> TAKE i, j \in 1..Len(rs)
  <2> HAVE Same(rs[i], rs[j])
  <2>1. \A k \in 1..m : ps[k].primaryIndex \in a..b
    BY DEF Same, Distinct, m
  <2>2. \A k \in 1..Len(qs) : qs[k].primaryIndex \in b + 1..c
    BY DEF Same, Distinct
  <2>3. CASE i \in 1..m /\ rs[i] = ps[i] /\ j \in 1..m /\ rs[j] = ps[j]
    BY <2>3 DEF Same, Distinct, m
  <2>4. CASE i - m \in 1..Len(qs) /\ rs[i] = qs[i - m] /\ j - m \in 1..Len(qs) /\ rs[j] = qs[j - m]
    <3>1. i - m = j - m
      BY <2>4 DEF Same, Distinct
    <3> QED
      BY <1>1, <3>1
  <2>5. CASE i \in 1..m /\ rs[i] = ps[i] /\ j - m \in 1..Len(qs) /\ rs[j] = qs[j - m]
    BY <2>1, <2>2, <2>5 DEF Same
  <2>6. CASE j \in 1..m /\ rs[j] = ps[j] /\ i - m \in 1..Len(qs) /\ rs[i] = qs[i - m]
    BY <2>1, <2>2, <2>6 DEF Same
  <2> QED
    BY <1>2, <2>3, <2>4, <2>5, <2>6
<1>5. Distinct(rs, a, c)
  <2>1. \A i \in 1..Len(rs) : rs[i].primaryIndex \in a..c
    BY <1>3
  <2> QED
    BY <1>4, <2>1, Zenon DEF Distinct
<1> QED
  BY <1>5 DEF rs

\* The partitions behind one entry are at places of their own.
LEMMA UnderDistinct ==
    ASSUME NEW d, NEW p \in 1..4
    PROVE  Distinct(FoundUnder(d, p), p, p)
<1> DEFINE k == Cardinality({e \in 1..MAX_PARTITIONS_TO_HANDLE : F_GPART(d, p, e).sector # NoSector})
           all == [e \in 1..k |-> Info(d, p, e)]
<1>1. \A e : Info(d, p, e).primaryIndex = p /\ Info(d, p, e).extendedIndex = e
  BY DEF Info
<1>2. Distinct(<<>>, p, p)
  BY DEF Same, Distinct
<1>3. Distinct(<<Info(d, p, 0)>>, p, p)
  BY <1>1 DEF Same, Distinct
<1>4. Distinct(all, p, p)
  <2>0. k \in Nat
    <3>1. IsFiniteSet(1..MAX_PARTITIONS_TO_HANDLE)
      BY FS_Interval, Bounds
    <3>2. {e \in 1..MAX_PARTITIONS_TO_HANDLE : F_GPART(d, p, e).sector # NoSector}
             \subseteq 1..MAX_PARTITIONS_TO_HANDLE
      OBVIOUS
    <3> QED
      BY <3>1, <3>2, FS_Subset, FS_CardinalityType
  <2> HIDE DEF k
  <2>1. Len(all) = k
    BY <2>0
  <2>2. \A e \in 1..k : all[e].primaryIndex = p /\ all[e].extendedIndex = e
    BY <1>1
  <2> HIDE DEF all
  <2> QED
    BY <2>1, <2>2 DEF Same, Distinct
<1>5. FoundUnder(d, p) \in {<<>>, <<Info(d, p, 0)>>, all}
  <2>1. CASE F_GPART(d, p, 0).sector = NoSector
    BY <2>1 DEF FoundUnder
  <2>2. CASE F_GPART(d, p, 0).sector # NoSector /\ ~IsExtended(F_GPART(d, p, 0).type)
    BY <2>2, Zenon DEF FoundUnder
  <2>3. CASE F_GPART(d, p, 0).sector # NoSector /\ IsExtended(F_GPART(d, p, 0).type)
    BY <2>3, Zenon DEF FoundUnder
  <2> QED
    BY <2>1, <2>2, <2>3
<1> QED
  BY <1>2, <1>3, <1>4, <1>5, Zenon

\* And so are all that are found.
LEMMA FoundDistinct ==
    ASSUME NEW d, NEW n, Disk(d, n)
    PROVE  Distinct(Found(d), 1, 4)
<1> DEFINE f1 == FoundUnder(d, 1)
           f2 == FoundUnder(d, 2)
           f3 == FoundUnder(d, 3)
           f4 == FoundUnder(d, 4)
           all == f1 \o f2 \o f3 \o f4
           k == IF Len(all) < MAX_PARTITIONS_TO_HANDLE THEN Len(all) ELSE MAX_PARTITIONS_TO_HANDLE
<1>1. /\ f1 \in Seq(Partition) /\ f2 \in Seq(Partition)
      /\ f3 \in Seq(Partition) /\ f4 \in Seq(Partition)
  <2>1. 1 \in 1..4 /\ 2 \in 1..4 /\ 3 \in 1..4 /\ 4 \in 1..4
    OBVIOUS
  <2> QED
    BY <2>1, FoundUnderType
<1>2. Distinct(f1, 1, 1) /\ Distinct(f2, 2, 2) /\ Distinct(f3, 3, 3) /\ Distinct(f4, 4, 4)
  <2>1. 1 \in 1..4 /\ 2 \in 1..4 /\ 3 \in 1..4 /\ 4 \in 1..4
    OBVIOUS
  <2> QED
    BY <2>1, UnderDistinct
<1>3. Found(d) = SubSeq(all, 1, k)
  BY DEF Found
<1> HIDE DEF f1, f2, f3, f4
<1>4. Distinct(f1 \o f2, 1, 2) /\ f1 \o f2 \in Seq(Partition)
  <2>1. Distinct(f2, 1 + 1, 2)
    BY <1>2
  <2> QED
    BY <1>1, <1>2, <2>1, DistinctJoined
<1>5. Distinct(f1 \o f2 \o f3, 1, 3) /\ f1 \o f2 \o f3 \in Seq(Partition)
  <2>1. Distinct(f3, 2 + 1, 3)
    BY <1>2
  <2> DEFINE g == f1 \o f2
  <2>2. g \in Seq(Partition) /\ Distinct(g, 1, 2)
    BY <1>4
  <2> HIDE DEF g
  <2>3. Distinct(g \o f3, 1, 3) /\ g \o f3 \in Seq(Partition)
    BY <1>1, <2>1, <2>2, DistinctJoined
  <2> QED
    BY <2>3 DEF g
<1>6. Distinct(all, 1, 4) /\ all \in Seq(Partition)
  <2>1. Distinct(f4, 3 + 1, 4)
    BY <1>2
  <2> DEFINE g == f1 \o f2 \o f3
  <2>2. g \in Seq(Partition) /\ Distinct(g, 1, 3)
    BY <1>5
  <2> HIDE DEF g
  <2>3. Distinct(g \o f4, 1, 4) /\ g \o f4 \in Seq(Partition)
    BY <1>1, <2>1, <2>2, DistinctJoined
  <2> QED
    BY <2>3 DEF g
<1> HIDE DEF all
<1>7. k \in 0..Len(all)
  BY <1>6, Bounds
<1> HIDE DEF k
<1>8. Len(SubSeq(all, 1, k)) = k /\ \A i \in 1..k : SubSeq(all, 1, k)[i] = all[i]
  BY <1>6, <1>7
<1> DEFINE ps == SubSeq(all, 1, k)
<1> HIDE DEF ps
<1>9. Len(ps) = k /\ \A i \in 1..k : ps[i] = all[i] /\ i \in 1..Len(all)
  BY <1>6, <1>7, <1>8 DEF ps
<1>10. Distinct(ps, 1, 4)
  <2>1. \A i \in 1..k : ps[i].primaryIndex \in 1..4
    BY <1>6, <1>9 DEF Same, Distinct
  <2>2. \A i, j \in 1..k : Same(ps[i], ps[j]) => i = j
    BY <1>6, <1>9 DEF Same, Distinct
  <2> QED
    BY <1>9, <2>1, <2>2, Zenon DEF Distinct
<1> QED
  BY <1>3, <1>10 DEF ps
\* d and e differ in one flag only: that of entry k of the table in a sector.
OneFlag(d, e, sector, k) ==
    \A s : /\ \A m \in 1..4 : /\ Table(e, s)[m].type = Table(d, s)[m].type
                              /\ Table(e, s)[m].first = Table(d, s)[m].first
                              /\ Table(e, s)[m].size = Table(d, s)[m].size
                              /\ s # sector \/ m # k =>
                                   Table(e, s)[m].status = Table(d, s)[m].status
           /\ Table(e, sector)[k].status = Flipped(Table(d, sector)[k].status)

\* ToggleStatusBit is such a change.
LEMMA ToggledIs ==
    ASSUME NEW n, Disk(disk, n), NEW sector, NEW k \in 1..4,
           device' = ToggleStatusBit(k, sector)
    PROVE  OneFlag(disk, disk', sector, k)
<1> DEFINE t == [Table(disk, sector) EXCEPT ![k].status = Flipped(@)]
           c == [kind |-> "table", entries |-> t]
           e == [s \in DOMAIN disk \cup {sector} |-> IF s = sector THEN c ELSE disk[s]]
<1>1. disk' = e
  BY DEF ToggleStatusBit, Put, disk
<1>2. \A s : Table(disk, s) \in Tables
  BY TableType
<1> HIDE DEF t
<1>3. Table(e, sector) = t
  BY DEF Table
<1>4. \A s : s # sector => Table(e, s) = Table(disk, s)
  BY DEF Table
<1> HIDE DEF e
<1>5. /\ \A m \in 1..4 : m # k => t[m] = Table(disk, sector)[m]
      /\ t[k] = [Table(disk, sector)[k] EXCEPT !.status = Flipped(@)]
  BY <1>2 DEF t, Tables
<1>6. \A s, m : m \in 1..4 => Table(disk, s)[m] \in TableEntry
  BY <1>2 DEF Tables
<1>7. \A m \in 1..4 : /\ t[m].type = Table(disk, sector)[m].type
                      /\ t[m].first = Table(disk, sector)[m].first
                      /\ t[m].size = Table(disk, sector)[m].size
                      /\ m # k => t[m].status = Table(disk, sector)[m].status
  BY <1>5, <1>6 DEF TableEntry
<1>8. t[k].status = Flipped(Table(disk, sector)[k].status)
  BY <1>5, <1>6 DEF TableEntry
<1> HIDE DEF OneFlag
<1>9. OneFlag(disk, e, sector, k)
  BY <1>3, <1>4, <1>7, <1>8 DEF OneFlag
<1> QED
  BY <1>1, <1>9

\* There is a chain of tables from each sector.
LEMMA ChainExists == ASSUME NEW d, NEW start PROVE \E v : ChainIs(d, start, v)
<1> DEFINE N == MAX_PARTITIONS_TO_HANDLE + 1
           Link(x) == IF x # 0 /\ IsExtended(Table(d, x)[2].type)
                       THEN start + Table(d, x)[2].first ELSE 0
           Upto(v, k) == \A n \in 1..k : v[n] = IF n = 1 THEN start ELSE Link(v[n - 1])
           T == {k \in 0..N : ~\E v : Upto(v, k)}
<1>1. MAX_PARTITIONS_TO_HANDLE \in Nat
  BY Bounds
<1>2. T = {}
  <2> SUFFICES ASSUME T # {} PROVE FALSE
    OBVIOUS
  <2>1. PICK k \in T : \A i \in T : k <= i
    <3>1. T \in SUBSET Nat
      BY <1>1
    <3> HIDE DEF T
    <3> QED
      BY <3>1, LeastNatural
  <2> HIDE DEF Link
  <2>2. Upto(<<>>, 0)
    OBVIOUS
  <2>3. k \in 1..N /\ k - 1 \in 0..N /\ k - 1 \notin T
    BY <1>1, <2>1, <2>2
  <2>4. PICK v : Upto(v, k - 1)
    BY <2>3
  <2> DEFINE w == [n \in 1..k |-> IF n = k THEN IF k = 1 THEN start ELSE Link(v[k - 1]) ELSE v[n]]
  <2>5. Upto(w, k)
    <3> SUFFICES ASSUME NEW n \in 1..k PROVE w[n] = IF n = 1 THEN start ELSE Link(w[n - 1])
      OBVIOUS
    <3>1. CASE n = k
      <4>1. n # 1 => n - 1 \in 1..k /\ n - 1 # k
        BY <2>3, <3>1
      <4> QED
        BY <3>1, <4>1
    <3>2. CASE n # k
      <4>1. n \in 1..k - 1 /\ (n # 1 => n - 1 \in 1..k /\ n - 1 # k)
        BY <2>3, <3>2
      <4> QED
        BY <2>4, <3>2, <4>1
    <3> QED
      BY <3>1, <3>2
  <2> QED
    BY <2>1, <2>5
<1>3. PICK v : Upto(v, N)
  <2>1. N \in 0..N
    BY <1>1
  <2> QED
    BY <1>2, <2>1
<1>4. ChainIs(d, start, v)
  BY <1>3 DEF ChainIs
<1> QED
  BY <1>4

\* The tables are chained as before.
LEMMA SameChain ==
    ASSUME NEW d, NEW e, NEW sector, NEW k, OneFlag(d, e, sector, k), NEW start
    PROVE  \A n \in 1..MAX_PARTITIONS_TO_HANDLE + 1 :
             ChainedSectors(e, start)[n] = ChainedSectors(d, start)[n]
<1> PICK v : ChainIs(d, start, v)
  BY ChainExists
<1>1. \A s : /\ Table(e, s)[2].type = Table(d, s)[2].type
             /\ Table(e, s)[2].first = Table(d, s)[2].first
  BY DEF OneFlag
<1>2. ChainIs(e, start, v)
  BY <1>1 DEF ChainIs
<1> QED
  BY <1>2, ChainRead

\* An empty table is the end.
LEMMA ChainEnds ==
    ASSUME NEW d, NEW start, NEW n \in 1..MAX_PARTITIONS_TO_HANDLE, ChainedSectors(d, start)[n] = 0
    PROVE  ChainedSectors(d, start)[n + 1] = 0
<1> PICK v : ChainIs(d, start, v)
  BY ChainExists
<1>1. /\ n \in 1..MAX_PARTITIONS_TO_HANDLE + 1 /\ n + 1 \in 1..MAX_PARTITIONS_TO_HANDLE + 1
      /\ n + 1 # 1 /\ (n + 1) - 1 = n
  BY Bounds
<1>2. v[n] = 0
  BY <1>1, ChainRead
<1>3. v[n + 1] = 0
  BY <1>1, <1>2 DEF ChainIs
<1> QED
  BY <1>1, <1>3, ChainRead

\* What _GPART answers before and after the flag was turned over.
LEMMA SameAnswers ==
    ASSUME NEW d, NEW e, NEW sector, NEW k \in 1..4, OneFlag(d, e, sector, k),
           NEW p \in 1..4, NEW n \in 0..MAX_PARTITIONS_TO_HANDLE
    PROVE  LET a == F_GPART(d, p, n)
               b == F_GPART(e, p, n)
           IN /\ b.type = a.type /\ b.size = a.size /\ b.sector = a.sector
              /\ a.sector # NoSector =>
                   b.status = IF a.sector = sector /\ k = (IF n = 0 THEN p ELSE 1)
                              THEN Flipped(a.status) ELSE a.status
<1> DEFINE x == Table(d, 0)[p]
           y == Table(e, 0)[p]
           s == ChainedSectors(d, x.first)[n]
<1>0. \A z, m : m \in 1..4 =>
        /\ Table(e, z)[m].type = Table(d, z)[m].type
        /\ Table(e, z)[m].first = Table(d, z)[m].first
        /\ Table(e, z)[m].size = Table(d, z)[m].size
        /\ Table(e, z)[m].status = IF z = sector /\ m = k THEN Flipped(Table(d, z)[m].status)
                                  ELSE Table(d, z)[m].status
  BY Zenon DEF OneFlag
<1>1. /\ y.type = x.type /\ y.first = x.first /\ y.size = x.size
      /\ y.status = IF 0 = sector /\ k = p THEN Flipped(x.status) ELSE x.status
  <2>1. y.status = IF 0 = sector /\ p = k THEN Flipped(x.status) ELSE x.status
    BY <1>0
  <2> QED
    BY <1>0, <2>1
<1>2. CASE n = 0
  <2>1. /\ F_GPART(d, p, 0).type = x.type /\ F_GPART(d, p, 0).status = x.status
        /\ F_GPART(d, p, 0).size = x.size
        /\ F_GPART(d, p, 0).sector = IF x.type = 0 THEN NoSector ELSE 0
    BY DEF F_GPART
  <2>2. /\ F_GPART(e, p, 0).type = y.type /\ F_GPART(e, p, 0).status = y.status
        /\ F_GPART(e, p, 0).size = y.size
        /\ F_GPART(e, p, 0).sector = IF y.type = 0 THEN NoSector ELSE 0
    BY DEF F_GPART
  <2> HIDE DEF x, y
  <2> QED
    BY <1>1, <1>2, <2>1, <2>2
<1>3. CASE n # 0
  <2>1. n \in 1..MAX_PARTITIONS_TO_HANDLE + 1
    BY <1>3, Bounds
  <2>2. ChainedSectors(e, y.first)[n] = s
    <3>1. y.first = x.first
      BY <1>1
    <3> QED
      BY <2>1, <3>1, SameChain
  <2> DEFINE l == Table(d, s)[1]
             m == Table(e, s)[1]
             at == IF IsExtended(x.type) /\ s # 0 THEN s ELSE NoSector
  <2>3. /\ F_GPART(d, p, n).type = l.type /\ F_GPART(d, p, n).status = l.status
        /\ F_GPART(d, p, n).size = l.size
        /\ F_GPART(d, p, n).sector = at
    BY <1>3 DEF F_GPART
  <2> HIDE DEF s
  <2>4. /\ F_GPART(e, p, n).type = m.type /\ F_GPART(e, p, n).status = m.status
        /\ F_GPART(e, p, n).size = m.size
        /\ F_GPART(e, p, n).sector = at
    BY <1>1, <1>3, <2>2 DEF F_GPART
  <2>5. /\ m.type = l.type /\ m.size = l.size
        /\ m.status = IF s = sector /\ 1 = k THEN Flipped(l.status) ELSE l.status
    <3>1. 1 \in 1..4
      OBVIOUS
    <3> QED
      BY <1>0, <3>1
  <2>6. at # NoSector => at = s
    OBVIOUS
  <2> HIDE DEF l, m, at
  <2> QED
    BY <1>3, <2>3, <2>4, <2>5, <2>6
<1> QED
  BY <1>2, <1>3

\* A sector found behind an entry is that of a chained table, and the first table has the
\* others.
LEMMA AnswerPlace ==
    ASSUME NEW d, NEW size, Disk(d, size), NEW p \in 1..4, NEW n \in 0..MAX_PARTITIONS_TO_HANDLE
    PROVE  /\ n = 0 => F_GPART(d, p, n).sector \in {0, NoSector}
           /\ n # 0 => ChainedSectors(d, Table(d, 0)[p].first)[n] \in Nat
           /\ n # 0 => F_GPART(d, p, n).sector =
                          IF /\ IsExtended(Table(d, 0)[p].type)
                             /\ ChainedSectors(d, Table(d, 0)[p].first)[n] # 0
                          THEN ChainedSectors(d, Table(d, 0)[p].first)[n] ELSE NoSector
<1> DEFINE x == Table(d, 0)[p]
           start == x.first
           s == ChainedSectors(d, start)[n]
<1>1. ASSUME n = 0 PROVE F_GPART(d, p, n).sector \in {0, NoSector}
  <2>1. F_GPART(d, p, 0).sector = IF x.type = 0 THEN NoSector ELSE 0
    BY DEF F_GPART
  <2> QED
    BY <1>1, <2>1
<1>2. ASSUME n # 0 PROVE F_GPART(d, p, n).sector = IF IsExtended(x.type) /\ s # 0 THEN s ELSE NoSector
  BY <1>2 DEF F_GPART
<1>3. ASSUME n # 0 PROVE s \in Nat
  <2>1. x.first \in Nat
    BY TableType DEF Tables, TableEntry
  <2> HIDE DEF x
  <2>2. PICK v : ChainIs(d, start, v)
    BY ChainExists
  <2>3. n \in 1..MAX_PARTITIONS_TO_HANDLE + 1
    BY <1>3, Bounds
  <2>4. \A z : Table(d, z)[2].first \in Nat
    BY TableType DEF Tables, TableEntry
  <2>5. v[n] \in Nat
    BY <2>1, <2>2, <2>3, <2>4 DEF ChainIs
  <2> QED
    BY <2>2, <2>3, <2>5, ChainRead
<1> QED
  BY <1>1, <1>2, <1>3, Zenon

\* What is counted behind an entry are the first ones of its chain, each of them found.
LEMMA CountedAreFound ==
    ASSUME NEW d, NEW size, Disk(d, size), NEW p \in 1..4,
           NEW e \in 1..Cardinality({n \in 1..MAX_PARTITIONS_TO_HANDLE :
                                        F_GPART(d, p, n).sector # NoSector})
    PROVE  e \in 1..MAX_PARTITIONS_TO_HANDLE /\ F_GPART(d, p, e).sector # NoSector
<1> DEFINE N == MAX_PARTITIONS_TO_HANDLE
           Met == {n \in 1..N : F_GPART(d, p, n).sector # NoSector}
           G(n) == F_GPART(d, p, n).sector # NoSector
           k == Cardinality(Met)
<1>0. N \in Nat
  BY Bounds
<1>1. IsFiniteSet(1..N) /\ Cardinality(1..N) = N
  BY <1>0, FS_Interval
<1>2. k \in Nat /\ k <= N
  <2>1. Met \subseteq 1..N
    OBVIOUS
  <2> HIDE DEF Met
  <2> QED
    BY <1>1, <2>1, FS_Subset, FS_CardinalityType
<1>3. e \in 1..N /\ e <= k
  BY <1>0, <1>2
<1>4. ASSUME NEW n \in 1..N, n + 1 \in 1..N, ~G(n) PROVE ~G(n + 1)
  <2> DEFINE s == ChainedSectors(d, Table(d, 0)[p].first)
  <2>1. n \in 0..N /\ n + 1 \in 0..N /\ n # 0 /\ n + 1 # 0
    BY <1>0, <1>4
  <2>2. /\ s[n] \in Nat
        /\ F_GPART(d, p, n).sector = IF IsExtended(Table(d, 0)[p].type) /\ s[n] # 0
                                     THEN s[n] ELSE NoSector
    BY <2>1, AnswerPlace, Zenon
  <2>3. ~IsExtended(Table(d, 0)[p].type) \/ s[n] = 0
    BY <1>4, <2>2 DEF NoSector
  <2>4. s[n] = 0 => s[n + 1] = 0
    BY ChainEnds
  <2>5. F_GPART(d, p, n + 1).sector = IF IsExtended(Table(d, 0)[p].type) /\ s[n + 1] # 0
                                      THEN s[n + 1] ELSE NoSector
    BY <2>1, AnswerPlace, Zenon
  <2> QED
    BY <2>3, <2>4, <2>5
<1>5. ASSUME ~G(e) PROVE FALSE
  <2> DEFINE T == {n \in e..N : G(n)}
  <2>1. T = {}
    <3> SUFFICES ASSUME T # {} PROVE FALSE
      OBVIOUS
    <3>1. PICK n \in T : \A i \in T : n <= i
      <4>1. T \in SUBSET Nat
        BY <1>0, <1>3
      <4> HIDE DEF T
      <4> QED
        BY <4>1, LeastNatural
    <3>2. n # e
      BY <1>5, <3>1
    <3>3. n - 1 \in e..N /\ n - 1 \in 1..N /\ n \in 1..N /\ (n - 1) + 1 = n /\ n - 1 \notin T
      BY <1>0, <1>3, <3>1, <3>2
    <3>4. ~G(n - 1)
      BY <3>3
    <3>5. ~G(n)
      <4> DEFINE m == n - 1
      <4>1. m \in 1..N /\ m + 1 \in 1..N /\ ~G(m) /\ m + 1 = n
        BY <3>3, <3>4
      <4> HIDE DEF m, G
      <4>2. ~G(m + 1)
        BY <1>4, <4>1
      <4> QED
        BY <4>1, <4>2
    <3> QED
      BY <3>1, <3>5
  <2>2. Met \subseteq 1..e - 1
    BY <1>0, <1>3, <2>1
  <2>3. IsFiniteSet(1..e - 1) /\ Cardinality(1..e - 1) = e - 1
    <3>1. e - 1 \in Nat
      BY <1>3
    <3> QED
      BY <3>1, FS_Interval
  <2> HIDE DEF Met
  <2>4. k <= e - 1
    BY <2>2, <2>3, FS_Subset
  <2> QED
    BY <1>2, <1>3, <2>4
<1> QED
  BY <1>3, <1>5

\* Lists are equal that have the same elements.
LEMMA SeqsEqual ==
    ASSUME NEW S, NEW s \in Seq(S), NEW t \in Seq(S), Len(s) = Len(t),
           \A i \in 1..Len(s) : s[i] = t[i]
    PROVE  s = t
<1>1. s = [i \in 1..Len(s) |-> s[i]] /\ t = [i \in 1..Len(t) |-> t[i]]
  OBVIOUS
<1> QED
  BY <1>1

\* The partition at a place of a list with its flag turned over.
Flip(x, p, n) ==
    IF x.primaryIndex = p /\ x.extendedIndex = n THEN [x EXCEPT !.status = Flipped(@)] ELSE x
FlipIn(ps, p, n) == [i \in 1..Len(ps) |-> Flip(ps[i], p, n)]

\* A list with a flag turned over is one.
LEMMA FlipInType ==
    ASSUME NEW ps \in Seq(Partition), NEW p \in 1..4, NEW n \in 0..MAX_PARTITIONS_TO_HANDLE
    PROVE  /\ FlipIn(ps, p, n) \in Seq(Partition) /\ Len(FlipIn(ps, p, n)) = Len(ps)
           /\ \A i \in 1..Len(ps) : FlipIn(ps, p, n)[i] = Flip(ps[i], p, n)
<1>1. Len(ps) \in Nat /\ \A i \in 1..Len(ps) : ps[i] \in Partition
  OBVIOUS
<1>2. ASSUME NEW x \in Partition PROVE Flip(x, p, n) \in Partition
  <2>1. Flipped(x.status) \in Byte
    BY FlippedType DEF Partition
  <2> QED
    BY <2>1 DEF Flip, Partition
<1>3. FlipIn(ps, p, n) \in [1..Len(ps) -> Partition]
  BY <1>1, <1>2 DEF FlipIn
<1>4. \A i \in 1..Len(ps) : FlipIn(ps, p, n)[i] = Flip(ps[i], p, n)
  BY DEF FlipIn
<1> QED
  BY <1>1, <1>3, <1>4

\* In one list behind another.
LEMMA FlipJoined ==
    ASSUME NEW ps \in Seq(Partition), NEW qs \in Seq(Partition), NEW p \in 1..4,
           NEW n \in 0..MAX_PARTITIONS_TO_HANDLE
    PROVE  FlipIn(ps \o qs, p, n) = FlipIn(ps, p, n) \o FlipIn(qs, p, n)
<1> DEFINE m == Len(ps)
           k == Len(qs)
           rs == ps \o qs
           a == FlipIn(ps, p, n)
           b == FlipIn(qs, p, n)
           c == FlipIn(rs, p, n)
           ab == a \o b
<1>1. /\ rs \in Seq(Partition) /\ m \in Nat /\ k \in Nat /\ Len(rs) = m + k
      /\ \A i \in 1..m + k : rs[i] = IF i <= m THEN ps[i] ELSE qs[i - m]
  OBVIOUS
<1>2. /\ a \in Seq(Partition) /\ Len(a) = m /\ \A i \in 1..m : a[i] = Flip(ps[i], p, n)
  BY FlipInType
<1>3. /\ b \in Seq(Partition) /\ Len(b) = k /\ \A i \in 1..k : b[i] = Flip(qs[i], p, n)
  BY FlipInType
<1> HIDE DEF rs
<1>4. c \in Seq(Partition) /\ Len(c) = m + k /\ \A i \in 1..m + k : c[i] = Flip(rs[i], p, n)
  <2>1. /\ c \in Seq(Partition) /\ Len(c) = Len(rs)
        /\ \A i \in 1..Len(rs) : c[i] = Flip(rs[i], p, n)
    BY <1>1, FlipInType, Zenon
  <2> QED
    BY <1>1, <2>1
<1> HIDE DEF a, b, c
<1>5. /\ ab \in Seq(Partition) /\ Len(ab) = m + k
      /\ \A i \in 1..m + k : ab[i] = IF i <= m THEN a[i] ELSE b[i - m]
  <2>1. /\ ab \in Seq(Partition) /\ Len(ab) = Len(a) + Len(b)
        /\ \A i \in 1..Len(a) + Len(b) : ab[i] = IF i <= Len(a) THEN a[i] ELSE b[i - Len(a)]
    <3>1. a \in Seq(Partition) /\ b \in Seq(Partition)
      BY <1>2, <1>3
    <3> QED
      BY <3>1
  <2> QED
    BY <1>2, <1>3, <2>1
<1> HIDE DEF ab
<1>6. ASSUME NEW i \in 1..m + k PROVE c[i] = ab[i]
  <2>1. CASE i <= m
    <3>1. i \in 1..m
      BY <1>1, <2>1
    <3> QED
      BY <1>1, <1>2, <1>4, <1>5, <2>1, <3>1
  <2>2. CASE ~(i <= m)
    <3>1. i - m \in 1..k
      BY <1>1, <2>2
    <3> QED
      BY <1>1, <1>3, <1>4, <1>5, <2>2, <3>1
  <2> QED
    BY <2>1, <2>2
<1>7. c = ab
  <2> HIDE DEF m, k
  <2> QED
    BY <1>1, <1>4, <1>5, <1>6, SeqsEqual
<1> QED
  BY <1>7 DEF a, b, c, ab, rs

\* In the first ones of a list.
LEMMA FlipFirst ==
    ASSUME NEW ps \in Seq(Partition), NEW k \in 0..Len(ps), NEW p \in 1..4,
           NEW n \in 0..MAX_PARTITIONS_TO_HANDLE
    PROVE  FlipIn(SubSeq(ps, 1, k), p, n) = SubSeq(FlipIn(ps, p, n), 1, k)
<1> DEFINE a == FlipIn(ps, p, n)
           qs == SubSeq(ps, 1, k)
           b == FlipIn(qs, p, n)
           c == SubSeq(a, 1, k)
<1>1. qs \in Seq(Partition) /\ Len(qs) = k /\ k \in Nat
      /\ \A i \in 1..k : qs[i] = ps[i] /\ i \in 1..Len(ps)
  OBVIOUS
<1>2. /\ a \in Seq(Partition) /\ Len(a) = Len(ps) /\ \A i \in 1..Len(ps) : a[i] = Flip(ps[i], p, n)
  BY FlipInType
<1> HIDE DEF a, qs
<1>3. b \in Seq(Partition) /\ Len(b) = k /\ \A i \in 1..k : b[i] = Flip(qs[i], p, n)
  BY <1>1, FlipInType
<1>4. c \in Seq(Partition) /\ Len(c) = k /\ \A i \in 1..k : c[i] = a[i]
  BY <1>2
<1> HIDE DEF b, c
<1>5. b = c
  <2>1. \A i \in 1..k : b[i] = c[i]
    BY <1>1, <1>2, <1>3, <1>4
  <2> QED
    BY <1>1, <1>3, <1>4, <2>1, SeqsEqual
<1> QED
  BY <1>5 DEF a, b, c, qs

\* d is a device with a flag at a place of it, e the same one with that flag turned over.
Turns(d, e, p, n) ==
    LET sector == F_GPART(d, p, n).sector
    IN sector # NoSector /\ OneFlag(d, e, sector, IF n = 0 THEN p ELSE 1)

\* Only the partition at that place is found with another flag.
LEMMA InfoFlips ==
    ASSUME NEW d, NEW size, NEW e,
           NEW P \in 1..4, NEW N \in 0..MAX_PARTITIONS_TO_HANDLE,
           NEW p \in 1..4, NEW n \in 0..MAX_PARTITIONS_TO_HANDLE,
           Disk(d, size), OwnTables(d), Turns(d, e, P, N), F_GPART(d, p, n).sector # NoSector
    PROVE  Info(e, p, n) = Flip(Info(d, p, n), P, N)
<1> DEFINE a == F_GPART(d, p, n)
           b == F_GPART(e, p, n)
           sector == F_GPART(d, P, N).sector
           k == IF N = 0 THEN P ELSE 1
<1>1. sector # NoSector /\ OneFlag(d, e, sector, k) /\ k \in 1..4
  BY DEF Turns
<1>2. /\ n = 0 => a.sector = 0
      /\ n # 0 => a.sector # 0
  BY AnswerPlace
<1>3. /\ N = 0 => sector = 0
      /\ N # 0 => sector # 0
  BY <1>1, AnswerPlace
<1>4. n # 0 /\ N # 0 /\ a.sector = sector => p = P /\ n = N
  <2> HAVE n # 0 /\ N # 0 /\ a.sector = sector
  <2> DEFINE found == {x \in (1..4) \X (1..MAX_PARTITIONS_TO_HANDLE) :
                         F_GPART(d, x[1], x[2]).sector # NoSector}
  <2>1. n \in 1..MAX_PARTITIONS_TO_HANDLE /\ N \in 1..MAX_PARTITIONS_TO_HANDLE
    BY Bounds
  <2>2. <<p, n>> \in found /\ <<P, N>> \in found
    BY <1>1, <2>1
  <2>3. \A x, y \in found : F_GPART(d, x[1], x[2]).sector = F_GPART(d, y[1], y[2]).sector => x = y
    BY DEF OwnTables
  <2> HIDE DEF found
  <2>4. <<p, n>> = <<P, N>>
    BY <2>2, <2>3
  <2> QED
    BY <2>4
<1>5. (a.sector = sector /\ k = (IF n = 0 THEN p ELSE 1)) <=> (p = P /\ n = N)
  BY <1>2, <1>3, <1>4
<1>6. /\ b.type = a.type /\ b.size = a.size
      /\ b.status = IF a.sector = sector /\ k = (IF n = 0 THEN p ELSE 1)
                    THEN Flipped(a.status) ELSE a.status
  <2> HIDE DEF k, sector
  <2> QED
    BY <1>1, SameAnswers
<1> HIDE DEF a, b, sector, k
<1>7. b.status = IF p = P /\ n = N THEN Flipped(a.status) ELSE a.status
  BY <1>5, <1>6
<1>8. /\ Info(d, p, n) = [primaryIndex |-> p, extendedIndex |-> n, partitionType |-> a.type,
                          status |-> a.status, sizeInK |-> a.size \div 2]
      /\ Info(e, p, n) = [primaryIndex |-> p, extendedIndex |-> n, partitionType |-> b.type,
                          status |-> b.status, sizeInK |-> b.size \div 2]
  BY DEF Info, a, b
<1> DEFINE z == a.size \div 2
<1>9. b.size \div 2 = z
  BY <1>6
<1> HIDE DEF z
<1> QED
  BY <1>6, <1>7, <1>8, <1>9 DEF Flip, z

\* So it is behind one entry.
LEMMA UnderFlips ==
    ASSUME NEW d, NEW size, NEW e,
           NEW P \in 1..4, NEW N \in 0..MAX_PARTITIONS_TO_HANDLE, NEW p \in 1..4,
           Disk(d, size), Disk(e, size), OwnTables(d), Turns(d, e, P, N)
    PROVE  FoundUnder(e, p) = FlipIn(FoundUnder(d, p), P, N)
<1> DEFINE sector == F_GPART(d, P, N).sector
           k == IF N = 0 THEN P ELSE 1
           E(x) == {n \in 1..MAX_PARTITIONS_TO_HANDLE : F_GPART(x, p, n).sector # NoSector}
           m == Cardinality(E(d))
           all(x) == [n \in 1..m |-> Info(x, p, n)]
<1>1. \A n \in 0..MAX_PARTITIONS_TO_HANDLE :
        F_GPART(e, p, n).type = F_GPART(d, p, n).type /\ F_GPART(e, p, n).sector = F_GPART(d, p, n).sector
  <2>1. OneFlag(d, e, sector, k) /\ k \in 1..4
    BY DEF Turns
  <2> HIDE DEF sector, k
  <2> QED
    BY <2>1, SameAnswers
<1>2. 0 \in 0..MAX_PARTITIONS_TO_HANDLE /\ 1..MAX_PARTITIONS_TO_HANDLE \subseteq 0..MAX_PARTITIONS_TO_HANDLE
  BY Bounds
<1>0. ASSUME NEW n \in 0..MAX_PARTITIONS_TO_HANDLE, F_GPART(d, p, n).sector # NoSector
      PROVE  Info(e, p, n) = Flip(Info(d, p, n), P, N) /\ Info(d, p, n) \in Partition
  <2>1. Info(e, p, n) = Flip(Info(d, p, n), P, N)
    <3> HIDE DEF sector, k, E, m, all
    <3> QED
      BY <1>0, InfoFlips
  <2> QED
    BY <2>1, InfoType
<1>3. E(e) = E(d)
  BY <1>1, <1>2
<1>4. m \in Nat /\ \A n \in 1..m : n \in 1..MAX_PARTITIONS_TO_HANDLE /\ F_GPART(d, p, n).sector # NoSector
  <2>1. IsFiniteSet(1..MAX_PARTITIONS_TO_HANDLE) /\ E(d) \subseteq 1..MAX_PARTITIONS_TO_HANDLE
    BY FS_Interval, Bounds
  <2>2. m \in Nat
    <3> HIDE DEF E
    <3> QED
      BY <2>1, FS_Subset, FS_CardinalityType
  <2>3. \A n \in 1..m : n \in 1..MAX_PARTITIONS_TO_HANDLE /\ F_GPART(d, p, n).sector # NoSector
    BY CountedAreFound
  <2> QED
    BY <2>2, <2>3
<1>5. CASE F_GPART(d, p, 0).sector = NoSector
  <2>1. FoundUnder(d, p) = <<>> /\ FoundUnder(e, p) = <<>>
    BY <1>1, <1>2, <1>5 DEF FoundUnder
  <2>2. <<>> \in Seq(Partition) /\ Len(<<>>) = 0
    OBVIOUS
  <2>3. FlipIn(<<>>, P, N) \in Seq(Partition) /\ Len(FlipIn(<<>>, P, N)) = 0
    BY <2>2, FlipInType
  <2>4. FlipIn(<<>>, P, N) = <<>>
    BY <2>2, <2>3, SeqsEqual
  <2> QED
    BY <2>1, <2>4
<1>6. CASE F_GPART(d, p, 0).sector # NoSector /\ ~IsExtended(F_GPART(d, p, 0).type)
  <2>1. FoundUnder(d, p) = <<Info(d, p, 0)>> /\ FoundUnder(e, p) = <<Info(e, p, 0)>>
    BY <1>1, <1>2, <1>6, Zenon DEF FoundUnder
  <2>2. Info(e, p, 0) = Flip(Info(d, p, 0), P, N)
    BY <1>0, <1>2, <1>6
  <2>3. Info(d, p, 0) \in Partition /\ Info(e, p, 0) \in Partition
    BY <1>2, InfoType
  <2> DEFINE x == Info(d, p, 0)
             y == Info(e, p, 0)
  <2> HIDE DEF x, y
  <2>4. <<x>> \in Seq(Partition) /\ <<y>> \in Seq(Partition)
    BY <2>3 DEF x, y
  <2>5. FlipIn(<<x>>, P, N) \in Seq(Partition) /\ Len(FlipIn(<<x>>, P, N)) = 1
        /\ FlipIn(<<x>>, P, N)[1] = Flip(x, P, N)
    <3>1. Len(<<x>>) = 1 /\ <<x>>[1] = x
      OBVIOUS
    <3> DEFINE ps == <<x>>
    <3>2. ps \in Seq(Partition) /\ Len(ps) = 1 /\ ps[1] = x
      BY <2>4, <3>1
    <3> HIDE DEF ps
    <3>3. FlipIn(ps, P, N) \in Seq(Partition) /\ Len(FlipIn(ps, P, N)) = 1
          /\ FlipIn(ps, P, N)[1] = Flip(ps[1], P, N)
      <4>1. /\ FlipIn(ps, P, N) \in Seq(Partition) /\ Len(FlipIn(ps, P, N)) = Len(ps)
            /\ \A i \in 1..Len(ps) : FlipIn(ps, P, N)[i] = Flip(ps[i], P, N)
        BY <3>2, FlipInType, Zenon
      <4> HIDE DEF E, all, m, sector, k
      <4> QED
        BY <3>2, <4>1
    <3> QED
      BY <3>2, <3>3 DEF ps
  <2>6. <<y>> = FlipIn(<<x>>, P, N)
    BY <2>2, <2>4, <2>5, SeqsEqual DEF x, y
  <2> QED
    BY <2>1, <2>6 DEF x, y
<1>7. CASE F_GPART(d, p, 0).sector # NoSector /\ IsExtended(F_GPART(d, p, 0).type)
  <2>1. FoundUnder(d, p) = all(d)
    BY <1>7, Zenon DEF FoundUnder
  <2>2. FoundUnder(e, p) = [n \in 1..Cardinality(E(e)) |-> Info(e, p, n)]
    BY <1>1, <1>2, <1>7, Zenon DEF FoundUnder
  <2>3. FoundUnder(e, p) = all(e)
    BY <1>3, <2>2
  <2>4. ASSUME NEW n \in 1..m
        PROVE  Info(e, p, n) = Flip(Info(d, p, n), P, N) /\ Info(d, p, n) \in Partition
    <3>1. n \in 0..MAX_PARTITIONS_TO_HANDLE /\ F_GPART(d, p, n).sector # NoSector
      BY <1>2, <1>4
    <3> QED
      BY <1>0, <3>1
  <2> HIDE DEF m
  <2>5. all(d) \in Seq(Partition) /\ Len(all(d)) = m /\ \A n \in 1..m : all(d)[n] = Info(d, p, n)
    BY <1>4, <2>4
  <2>6. FlipIn(all(d), P, N) = all(e)
    BY <2>4, <2>5 DEF FlipIn
  <2> QED
    BY <2>1, <2>3, <2>6
<1> QED
  BY <1>5, <1>6, <1>7

\* And in all that is found.
LEMMA FoundFlips ==
    ASSUME NEW d, NEW size, NEW e,
           NEW P \in 1..4, NEW N \in 0..MAX_PARTITIONS_TO_HANDLE,
           Disk(d, size), Disk(e, size), OwnTables(d), Turns(d, e, P, N)
    PROVE  Found(e) = FlipIn(Found(d), P, N)
<1> DEFINE f1 == FoundUnder(d, 1)
           f2 == FoundUnder(d, 2)
           f3 == FoundUnder(d, 3)
           f4 == FoundUnder(d, 4)
           g1 == FoundUnder(e, 1)
           g2 == FoundUnder(e, 2)
           g3 == FoundUnder(e, 3)
           g4 == FoundUnder(e, 4)
           M == MAX_PARTITIONS_TO_HANDLE
           all == f1 \o f2 \o f3 \o f4
           alle == g1 \o g2 \o g3 \o g4
           k == IF Len(all) < M THEN Len(all) ELSE M
           ke == IF Len(alle) < M THEN Len(alle) ELSE M
<1>0. 1 \in 1..4 /\ 2 \in 1..4 /\ 3 \in 1..4 /\ 4 \in 1..4
  OBVIOUS
<1>1. /\ f1 \in Seq(Partition) /\ f2 \in Seq(Partition)
      /\ f3 \in Seq(Partition) /\ f4 \in Seq(Partition)
  BY <1>0, FoundUnderType
<1>2. /\ g1 = FlipIn(f1, P, N) /\ g2 = FlipIn(f2, P, N)
      /\ g3 = FlipIn(f3, P, N) /\ g4 = FlipIn(f4, P, N)
  BY <1>0, UnderFlips
<1>3. Found(d) = SubSeq(all, 1, k) /\ Found(e) = SubSeq(alle, 1, ke)
  BY DEF Found
<1> HIDE DEF f1, f2, f3, f4, g1, g2, g3, g4
<1>4. f1 \o f2 \in Seq(Partition) /\ FlipIn(f1 \o f2, P, N) = g1 \o g2
  <2>1. f1 \o f2 \in Seq(Partition)
    BY <1>1
  <2>2. FlipIn(f1 \o f2, P, N) = FlipIn(f1, P, N) \o FlipIn(f2, P, N)
    BY <1>1, FlipJoined
  <2> QED
    BY <1>2, <2>1, <2>2
<1>5. f1 \o f2 \o f3 \in Seq(Partition) /\ FlipIn(f1 \o f2 \o f3, P, N) = g1 \o g2 \o g3
  <2> DEFINE h == f1 \o f2
  <2>1. h \in Seq(Partition) /\ FlipIn(h, P, N) = g1 \o g2
    BY <1>4
  <2> HIDE DEF h
  <2>2. h \o f3 \in Seq(Partition)
    BY <1>1, <2>1
  <2>3. FlipIn(h \o f3, P, N) = FlipIn(h, P, N) \o FlipIn(f3, P, N)
    BY <1>1, <2>1, FlipJoined
  <2>4. FlipIn(h \o f3, P, N) = g1 \o g2 \o g3
    BY <1>2, <2>1, <2>3
  <2> QED
    BY <2>2, <2>4 DEF h
<1>6. all \in Seq(Partition) /\ FlipIn(all, P, N) = alle
  <2> DEFINE h == f1 \o f2 \o f3
  <2>1. h \in Seq(Partition) /\ FlipIn(h, P, N) = g1 \o g2 \o g3
    BY <1>5
  <2> HIDE DEF h
  <2>2. h \o f4 \in Seq(Partition)
    BY <1>1, <2>1
  <2>3. FlipIn(h \o f4, P, N) = FlipIn(h, P, N) \o FlipIn(f4, P, N)
    BY <1>1, <2>1, FlipJoined
  <2>4. FlipIn(h \o f4, P, N) = alle
    BY <1>2, <2>1, <2>3
  <2> QED
    BY <2>2, <2>4 DEF h
<1> HIDE DEF all, alle
<1>7. ke = k /\ k \in 0..Len(all)
  <2>1. Len(alle) = Len(all)
    BY <1>6, FlipInType
  <2> QED
    BY <1>6, <2>1, Bounds
<1> HIDE DEF k, ke
<1> QED
  BY <1>3, <1>6, <1>7, FlipFirst

\* A change of a flag does not let two partitions share a table.
LEMMA OwnAsBefore ==
    ASSUME NEW d, NEW e, NEW sector, NEW k \in 1..4, OneFlag(d, e, sector, k), OwnTables(e)
    PROVE  OwnTables(d)
<1> DEFINE at(x, y) == F_GPART(x, y[1], y[2]).sector
           Spots == (1..4) \X (1..MAX_PARTITIONS_TO_HANDLE)
<1>1. ASSUME NEW y \in Spots PROVE at(e, y) = at(d, y)
  <2>1. y[1] \in 1..4 /\ y[2] \in 0..MAX_PARTITIONS_TO_HANDLE
    BY Bounds
  <2> QED
    BY <2>1, SameAnswers
<1>2. \A y, z \in Spots : at(e, y) # NoSector /\ at(e, z) # NoSector /\ at(e, y) = at(e, z) => y = z
  BY DEF OwnTables
<1> HIDE DEF at, Spots
<1>3. \A y, z \in Spots : at(d, y) # NoSector /\ at(d, z) # NoSector /\ at(d, y) = at(d, z) => y = z
  BY <1>1, <1>2
<1> QED
  BY <1>3 DEF at, Spots, OwnTables

\* The flag that is turned over in a table is the one that is turned over in the list.
LEMMA TruthfulToggle ==
    ASSUME SafeInv, ListTruthful, NEW i \in 1..9, NEW ok \in BOOLEAN, TogglePartitionActive(i, ok)
    PROVE  ListTruthful'
<1> DEFINE p == partitions[i]
           P == p.primaryIndex
           N == p.extendedIndex
           sector == F_GPART(disk, P, N).sector
           k == IF N = 0 THEN P ELSE 1
           qs == [partitions EXCEPT ![i].status = Flipped(@)]
<1>0. /\ screen = "menu" /\ screen' = "menu"
      /\ i \in 1..AtMost(Len(partitions), 9)
      /\ partitionsExistInDisk => sector # NoSector
      /\ device' = IF partitionsExistInDisk /\ ok THEN ToggleStatusBit(k, sector) ELSE device
      /\ partitions' = IF ok THEN qs ELSE partitions
      /\ UNCHANGED <<partitionsExistInDisk, doubtful>>
  BY Zenon DEF TogglePartitionActive, history
<1>1. partitions \in Seq(Partition) /\ Len(partitions) \in Nat /\ i \in 1..Len(partitions)
  BY <1>0 DEF SafeInv, ListType, AtMost
<1>2. p \in Partition /\ P \in 1..4 /\ N \in 0..MAX_PARTITIONS_TO_HANDLE /\ k \in 1..4
  <2>1. p \in Partition
    BY <1>1
  <2> HIDE DEF p
  <2>2. P \in 1..4 /\ N \in 0..MAX_PARTITIONS_TO_HANDLE
    BY <2>1 DEF Partition
  <2> QED
    BY <2>1, <2>2
<1>3. CASE ~partitionsExistInDisk
  BY <1>0, <1>3 DEF ListTruthful
<1>4. CASE partitionsExistInDisk /\ ~ok
  <2>1. device' = device /\ partitions' = partitions
    BY <1>0, <1>4
  <2> QED
    BY <1>0, <2>1, Zenon DEF ListTruthful, CanCreatePartitions, disk
<1>5. CASE partitionsExistInDisk /\ ok
  <2>1. DeviceType /\ SafeInv'
    BY SafeToggle DEF SafeInv
  <2>2. /\ Disk(disk, device.sectors) /\ device'.sectors = device.sectors
        /\ Disk(disk', device.sectors)
    <3>1. device' = ToggleStatusBit(k, sector)
      BY <1>0, <1>5
    <3> HIDE DEF k, sector
    <3>2. device'.sectors = device.sectors
      BY <2>1, <3>1 DEF ToggleStatusBit, Put, DeviceType
    <3> QED
      BY <2>1, <3>2 DEF SafeInv, DeviceType
  <2>3. OneFlag(disk, disk', sector, k)
    <3>1. device' = ToggleStatusBit(k, sector)
      BY <1>0, <1>5
    <3> HIDE DEF k, sector
    <3> QED
      BY <1>2, <2>2, <3>1, ToggledIs
  <2>4. Turns(disk, disk', P, N)
    BY <1>0, <1>5, <2>3 DEF Turns
  <2> HIDE DEF P, N, sector, k
  <2>5. OwnTables(disk)' => OwnTables(disk)
    BY <1>2, <2>3, OwnAsBefore
  <2>6. OwnTables(disk) => Found(disk') = FlipIn(Found(disk), P, N)
    BY <1>2, <2>2, <2>4, FoundFlips
  <2>7. partitions = Found(disk) => FlipIn(partitions, P, N) = qs
    <3> HAVE partitions = Found(disk)
    <3>1. Distinct(partitions, 1, 4)
      BY <2>2, FoundDistinct
    <3> DEFINE n == Len(partitions)
    <3>2. ASSUME NEW j \in 1..n
          PROVE  Flip(partitions[j], P, N) = IF j = i THEN [p EXCEPT !.status = Flipped(@)]
                                             ELSE partitions[j]
      <4>1. CASE j = i
        BY <4>1 DEF Flip, P, N
      <4>2. CASE j # i
        <5>1. ~Same(partitions[j], partitions[i])
          BY <1>1, <3>1, <4>2 DEF Distinct
        <5> QED
          BY <4>2, <5>1 DEF Flip, Same, P, N
      <4> QED
        BY <4>1, <4>2
    <3>3. FlipIn(partitions, P, N) = [j \in 1..n |-> IF j = i THEN [p EXCEPT !.status = Flipped(@)]
                                                    ELSE partitions[j]]
      BY <3>2 DEF FlipIn
    <3>4. partitions = [j \in 1..n |-> partitions[j]]
      BY <1>1
    <3>5. qs = [partitions EXCEPT ![i] = [p EXCEPT !.status = Flipped(@)]]
      OBVIOUS
    <3> DEFINE r == [p EXCEPT !.status = Flipped(@)]
    <3> HIDE DEF r, p, n, qs
    <3>6. qs = [j \in 1..n |-> IF j = i THEN r ELSE partitions[j]]
      BY <3>4, <3>5 DEF r
    <3> QED
      BY <3>3, <3>6 DEF r
  <2>8. partitions' = qs
    BY <1>0, <1>5
  <2> HIDE DEF qs
  <2>9. CanCreatePartitions' = CanCreatePartitions
    BY <2>2 DEF CanCreatePartitions
  <2> QED
    BY <1>0, <2>5, <2>6, <2>7, <2>8, <2>9, Zenon DEF ListTruthful
<1> QED
  BY <1>3, <1>4, <1>5

\* A search that is complete makes the list that is found.
LEMMA TruthfulSearch ==
    ASSUME SafeInv, NEW complete \in BOOLEAN, NEW readable \in BOOLEAN,
           GetDiskPartitionsInfo(complete, readable)
    PROVE  ListTruthful'
<1>1. disk' = disk /\ CanCreatePartitions' = CanCreatePartitions /\ doubtful' = ~complete
  BY DEF GetDiskPartitionsInfo, disk, CanCreatePartitions
<1>2. CASE CanCreatePartitions /\ complete
  <2>1. partitions' = SubSeq(Found(disk), 1, Len(Found(disk)))
    BY <1>2 DEF GetDiskPartitionsInfo
  <2>2. Found(disk) \in Seq(Partition)
    BY FoundType DEF SafeInv, DeviceType
  <2>3. partitions' = Found(disk)
    BY <2>1, <2>2
  <2> QED
    BY <1>1, <2>3 DEF ListTruthful
<1> QED
  BY <1>1, <1>2 DEF ListTruthful

\* Each step leaves a list that is shown as what is on the device so.
LEMMA TruthfulKept == SafeInv /\ ListTruthful /\ [Next]_vars => ListTruthful'
<1> SUFFICES ASSUME SafeInv, ListTruthful, [Next]_vars PROVE ListTruthful'
  OBVIOUS
<1>1. CASE UNCHANGED vars
  BY <1>1 DEF vars, list, history, ListTruthful, CanCreatePartitions, disk
<1>2. CASE InitializePartitioningVariables
  BY <1>2 DEF InitializePartitioningVariables, ListTruthful
<1>3. ASSUME NEW complete \in BOOLEAN, NEW readable \in BOOLEAN,
             GetDiskPartitionsInfo(complete, readable)
      PROVE  ListTruthful'
  BY <1>3, TruthfulSearch
<1>4. CASE DeleteAllPartitions
  BY <1>4 DEF DeleteAllPartitions, ListTruthful
<1>5. ASSUME NEW size, NEW next, Add(size, next) PROVE ListTruthful'
  BY <1>5 DEF Add, CanAddPartitionsNow, ListTruthful
<1>6. CASE UndoAddPartition
  BY <1>6 DEF UndoAddPartition, ListTruthful
<1>7. ASSUME NEW i \in 1..9, NEW ok \in BOOLEAN, TogglePartitionActive(i, ok) PROVE ListTruthful'
  BY <1>7, TruthfulToggle
<1>8. CASE FormatWithoutPartitions
  BY <1>8 DEF FormatWithoutPartitions, ListTruthful
<1>9. CASE WritePartitionTable
  BY <1>9 DEF WritePartitionTable, ListTruthful
<1>10. ASSUME NEW ok \in BOOLEAN, WriteEmptyTable(ok) PROVE ListTruthful'
  BY <1>10 DEF WriteEmptyTable, CanWrite, list, ListTruthful
<1>11. CASE CreatePartition
  BY <1>11 DEF CreatePartition, ListTruthful
<1>12. CASE CreateFatFileSystem
  BY <1>12 DEF CreateFatFileSystem, ListTruthful
<1>13. CASE WriteFails
  <2>1. screen = "format" => doubtful'
    BY <1>13 DEF WriteFails
  <2>2. screen = "write" => ~partitionsExistInDisk
    BY DEF SafeInv, JobOK
  <2> QED
    BY <1>13, <2>1, <2>2 DEF WriteFails, list, ListTruthful
<1>14. CASE SearchAgain
  BY <1>14 DEF SearchAgain, ListTruthful
<1> QED
  BY <1>1, <1>2, <1>3, <1>4, <1>5, <1>6, <1>7, <1>8, <1>9, <1>10, <1>11, <1>12, <1>13, <1>14
  DEF Next, AddAutoPartition, AddPartition

\* While FDISK says that its list is what was found on the device, it is, with the flags
\* as they are in the tables there, however often they were turned over and whatever
\* failed, as long as no two partitions share a table (fdisk.c 1080-1131).
THEOREM ListIsTruthful == Spec => []ListTruthful
<1>1. Init => SafeInv /\ ListTruthful
  BY SafeAtFirst DEF Init, ListTruthful
<1>2. SafeInv /\ ListTruthful /\ [Next]_vars => SafeInv' /\ ListTruthful'
  BY SafeKept, TruthfulKept
<1> QED
  BY <1>1, <1>2, PTL DEF Spec
=============================================================================
