-------------------------------- MODULE Fdisk --------------------------------
(***************************************************************************)
(* FDISK, the partitioning tool in the kernel (kernel/bank5/fdisk.c), from *)
(* the moment a device is selected: the list of partitions in memory, what *)
(* the main menu does to it, and the sectors written when it is committed. *)
(* The list is read back through the kernel function _GPART (F_GPART in    *)
(* kernel/bank4/partit.mac).                                               *)
(*                                                                         *)
(* Sizes are the real ones: K for kilobytes, two sectors each.  A device   *)
(* is the sectors on it that hold a partition table, a boot sector or the  *)
(* start of a FAT; what the others hold reads as an empty table.  Every    *)
(* write to the device is a step, and may fail.                            *)
(***************************************************************************)
EXTENDS FatLayout, SequencesExt

CONSTANTS Devices,      \* what may be selected: [sectors, disk]
          EnteredSizes, \* what the user may enter: [n, inK]
          Dos1,         \* BOOLEAN: running in MSX-DOS 1 mode?
          MAX_PARTITIONS_TO_HANDLE,
          MaxErrors,    \* bound: number of device errors
          MaxCommits    \* bound: number of times the device is written or formatted

Byte == 0..255
TableEntry == [type : Byte, status : Byte, first : Nat, size : Nat]

\* What a device of n sectors may hold.
Disk(d, n) ==
    /\ d = [s \in DOMAIN d |-> d[s]]
    /\ DOMAIN d \subseteq 0..n - 1
    /\ \A s \in DOMAIN d : \/ d[s].kind \in {"boot", "fat"}
                           \/ d[s].kind = "table" /\ d[s].entries \in [1..4 -> TableEntry]

ASSUME FdiskAssumption ==
    /\ \A d \in Devices :
         /\ d = [sectors |-> d.sectors, disk |-> d.disk]
         /\ d.sectors \in Nat /\ d.sectors >= MIN_DEVICE_SIZE_IN_K * 2
         /\ Disk(d.disk, d.sectors)
    /\ EnteredSizes \subseteq [n : Nat, inK : BOOLEAN]
    /\ Dos1 \in BOOLEAN /\ MAX_PARTITIONS_TO_HANDLE \in Nat
    /\ MaxErrors \in Nat /\ MaxCommits \in Nat

EXTRA_PARTITION_SECTORS == 1
MIN_DEVICE_SIZE_FOR_PARTITIONS_IN_K == 1024
MIN_REMAINING_SIZE_FOR_NEW_PARTITIONS_IN_K == 100
MAX_DEVICE_SIZE_FOR_DIRECT_FORMAT_IN_K == 32768

VARIABLES device,     \* selectedDevice: [sectors, disk], disk from sector to content
          partitions, \* Seq of [primaryIndex, extendedIndex, partitionType, status, sizeInK]
          partitionsExistInDisk, partitionsDeletedFromDisk,
          unpartitionnedSpaceInSectors, autoPartitionSizeInK,
          rootFilesystemFatType,
          screen,     \* "out", "search", "menu", "write", "format",
              \* "done" or "formatted"
          job,        \* while writing: [index, next, extended, stage, first, sizeInK]
          doubtful,   \* history: the search for partitions ended in an error, or
                      \* formatting did, with some of the table overwritten
          stale,      \* history: the device was searched with part of it given away
          errors, commits \* number of device errors and of commits so far

list == <<partitions, partitionsExistInDisk, partitionsDeletedFromDisk>>
space == <<unpartitionnedSpaceInSectors, autoPartitionSizeInK>>
history == <<doubtful, stale>>
counts == <<errors, commits>>
vars == <<device, list, space, rootFilesystemFatType, screen, job, history, counts>>

disk == device.disk
Idle == [index |-> 0]
NoEntry == [type |-> 0, status |-> 0, first |-> 0, size |-> 0]
EmptyTable == <<NoEntry, NoEntry, NoEntry, NoEntry>>
IsExtended(type) == type \in {5, 15}

Put(sector, content) ==
    [device EXCEPT !.disk = [s \in DOMAIN disk \cup {sector} |->
                                IF s = sector THEN content ELSE disk[s]]]
Cleared(from, to) ==
    [device EXCEPT !.disk = [s \in {x \in DOMAIN disk : x < from \/ x > to} |-> disk[s]]]

Fails == errors < MaxErrors /\ errors' = errors + 1
Commit == commits < MaxCommits /\ commits' = commits + 1

----------------------------------------------------------------------------
(* Reading the partitions: _GPART and the search. *)

Table(d, sector) ==
    IF sector \in DOMAIN d /\ d[sector].kind = "table" THEN d[sector].entries ELSE EmptyTable

\* The sector of each of the tables chained from the one at start, 0 after the end.
ChainedSectors(d, start) ==
    LET sector[n \in 1..MAX_PARTITIONS_TO_HANDLE + 1] ==
            IF n = 1 THEN start
            ELSE LET link == Table(d, sector[n - 1])[2]
                 IN IF sector[n - 1] # 0 /\ IsExtended(link.type) THEN start + link.first ELSE 0
    IN sector

\* F_GPART: the entry of the partition with its table sector and first sector; a
\* sector of NoSector is the answer .IPART, also for an entry that leads to sector 0,
\* which the kernel reads as a table (partit.mac 203-207).
NoSector == -1
F_GPART(d, primary, extended) ==
    LET entry == Table(d, 0)[primary]
        sector == ChainedSectors(d, entry.first)[extended]
        logical == Table(d, sector)[1]
        Answer(e, s) == [type |-> e.type, status |-> e.status, size |-> e.size,
                         sector |-> s, first |-> s + e.first]
    IN IF extended = 0
       THEN Answer(entry, IF entry.type = 0 THEN NoSector ELSE 0)
       ELSE Answer(logical, IF IsExtended(entry.type) /\ sector # 0 THEN sector ELSE NoSector)

Info(d, p, e) ==
    LET found == F_GPART(d, p, e)
    IN [primaryIndex |-> p, extendedIndex |-> e, partitionType |-> found.type,
        status |-> found.status, sizeInK |-> found.size \div 2]

\* The partitions that the search finds behind one entry of the first table; a logical
\* partition has not the type of an extended one, with which the search would start over
\* at the first logical partition (fdisk.c 810-811).
FoundUnder(d, p) ==
    IF F_GPART(d, p, 0).sector = NoSector THEN <<>>
    ELSE IF ~IsExtended(F_GPART(d, p, 0).type) THEN <<Info(d, p, 0)>>
    ELSE LET n == Cardinality({e \in 1..MAX_PARTITIONS_TO_HANDLE :
                                  F_GPART(d, p, e).sector # NoSector})
         IN [e \in 1..n |-> Info(d, p, e)]

Found(d) ==
    LET all == FoundUnder(d, 1) \o FoundUnder(d, 2) \o FoundUnder(d, 3) \o FoundUnder(d, 4)
    IN SubSeq(all, 1, IF Len(all) < MAX_PARTITIONS_TO_HANDLE THEN Len(all)
                      ELSE MAX_PARTITIONS_TO_HANDLE)

----------------------------------------------------------------------------
(* The list in memory. *)

\* The sectors that the first n partitions take, each with its table.
UsedByFirst(ps, n) ==
    LET used[i \in 0..n] == IF i = 0 THEN 0
                            ELSE used[i - 1] + ps[i].sizeInK * 2 + EXTRA_PARTITION_SECTORS
    IN used[n]
Used(ps) == UsedByFirst(ps, Len(ps))

AtMost(a, b) == IF a < b THEN a ELSE b

\* What is left for one partition; with no sector left the ulong wraps.
MaxAbsolutePartitionSizeInK(free) ==
    IF free = 0 THEN 2147483647 ELSE (free - EXTRA_PARTITION_SECTORS) \div 2

RecalculateAutoPartitionSize(auto, free, setToAllSpaceAvailable) ==
    LET max == MaxAbsolutePartitionSizeInK(free)
        wanted == IF setToAllSpaceAvailable THEN max ELSE auto
        capped == IF wanted > MAX_FAT16_PARTITION_SIZE_IN_K THEN MAX_FAT16_PARTITION_SIZE_IN_K
                  ELSE AtMost(wanted, max)
        size == IF capped < MIN_PARTITION_SIZE_IN_K THEN MIN_PARTITION_SIZE_IN_K
                ELSE AtMost(capped, max)
    IN IF Dos1 THEN AtMost(size, 16 * 1024) ELSE size

CanCreatePartitions == device.sectors >= MIN_DEVICE_SIZE_FOR_PARTITIONS_IN_K * 2
CanDoDirectFormat == device.sectors <= MAX_DEVICE_SIZE_FOR_DIRECT_FORMAT_IN_K * 2

\* Mutant: without the limit of the list.
CanAddPartitionsNow_NoLimit ==
    /\ ~partitionsExistInDisk /\ CanCreatePartitions
    /\ unpartitionnedSpaceInSectors >=
           MIN_REMAINING_SIZE_FOR_NEW_PARTITIONS_IN_K * 2 + EXTRA_PARTITION_SECTORS

CanAddPartitionsNow ==
    /\ ~partitionsExistInDisk /\ CanCreatePartitions
    /\ unpartitionnedSpaceInSectors >=
           MIN_REMAINING_SIZE_FOR_NEW_PARTITIONS_IN_K * 2 + EXTRA_PARTITION_SECTORS
    /\ Len(partitions) < MAX_PARTITIONS_TO_HANDLE

CanWrite == ~partitionsExistInDisk /\ (partitions # <<>> \/ partitionsDeletedFromDisk)

Added(size) ==
    LET n == Len(partitions)
    IN Append(partitions,
              [primaryIndex |-> IF n = 0 THEN 1 ELSE 2, extendedIndex |-> n,
               partitionType |-> IF size > MAX_FAT12_PARTITION_SIZE_IN_K THEN 14 ELSE 1,
               status |-> IF n = 0 THEN 128 ELSE 0, sizeInK |-> size])

\* A device is selected, or ESC leaves the menu and it is selected again.
InitializePartitioningVariables ==
    /\ screen \in {"out", "menu"}
    /\ screen' = "search"
    /\ partitions' = <<>>
    /\ partitionsExistInDisk' = TRUE /\ partitionsDeletedFromDisk' = FALSE
    /\ unpartitionnedSpaceInSectors' = device.sectors
    /\ autoPartitionSizeInK' =
           RecalculateAutoPartitionSize(autoPartitionSizeInK, device.sectors, TRUE)
    /\ doubtful' = FALSE /\ stale' = FALSE
    /\ UNCHANGED <<device, rootFilesystemFatType, job, counts>>

BootSectorFatType ==
    IF 0 \in DOMAIN disk /\ disk[0].kind = "boot" /\ Recognized(disk[0].parameters)
    THEN GetBootSectorFatType(disk[0].parameters) ELSE 0

\* The menu is about to be shown: the partitions on the device are searched and
\* its first sector is looked at.  A read error ends the search and leaves what
\* was found so far, if the user wants to go on with that.
GetDiskPartitionsInfo(complete, readable) ==
    /\ screen = "search"
    /\ screen' = "menu"
    /\ IF complete /\ readable THEN UNCHANGED errors ELSE Fails
    /\ IF CanCreatePartitions
       THEN \E n \in 0..Len(Found(disk)) :
              /\ complete => n = Len(Found(disk))
              /\ partitions' = SubSeq(Found(disk), 1, n)
              /\ partitionsExistInDisk' = (n > 0)
              /\ partitionsDeletedFromDisk' = FALSE
       ELSE complete /\ UNCHANGED list
    /\ rootFilesystemFatType' = IF readable THEN BootSectorFatType ELSE 0
    /\ doubtful' = ~complete
    /\ stale' = (unpartitionnedSpaceInSectors # device.sectors)
    /\ UNCHANGED <<device, space, job, commits>>

DeleteAllPartitions ==
    /\ screen = "menu" /\ partitions # <<>>
    /\ partitions' = <<>>
    /\ partitionsDeletedFromDisk' = (partitionsDeletedFromDisk \/ partitionsExistInDisk)
    /\ partitionsExistInDisk' = FALSE
    /\ unpartitionnedSpaceInSectors' = device.sectors
    /\ autoPartitionSizeInK' =
           RecalculateAutoPartitionSize(autoPartitionSizeInK, device.sectors, TRUE)
    /\ stale' = FALSE
    /\ UNCHANGED <<device, rootFilesystemFatType, screen, job, doubtful, counts>>

\* Sectors left after one partition more.
FreeAfter(size) == unpartitionnedSpaceInSectors - size * 2 - EXTRA_PARTITION_SECTORS

\* One partition more, of a given size; next is what is offered after it.
Add(size, next) ==
    /\ screen = "menu" /\ CanAddPartitionsNow
    /\ partitions' = Added(size)
    /\ unpartitionnedSpaceInSectors' = FreeAfter(size)
    /\ autoPartitionSizeInK' = RecalculateAutoPartitionSize(next, FreeAfter(size), FALSE)
    /\ UNCHANGED <<device, partitionsExistInDisk, partitionsDeletedFromDisk,
                   rootFilesystemFatType, screen, job, history, counts>>

AddAutoPartition == Add(autoPartitionSizeInK, autoPartitionSizeInK)

\* The size is entered in K up to 32767, or in M; the number of M that are left
\* is computed in 16 bits.
Accepted(entered) ==
    LET maxM == AtMost(U16((unpartitionnedSpaceInSectors \div 2) \div 1024), 4096)
        maxK == AtMost(MaxAbsolutePartitionSizeInK(unpartitionnedSpaceInSectors), 32767)
    IN IF entered.inK THEN entered.n \in MIN_PARTITION_SIZE_IN_K..maxK
       ELSE entered.n \in 1..maxM

AddPartition(entered) ==
    LET asked == IF entered.inK THEN entered.n ELSE entered.n * 1024
        size == AtMost(asked, MaxAbsolutePartitionSizeInK(unpartitionnedSpaceInSectors))
    IN /\ Accepted(entered)
       /\ Add(size, AtMost(asked, MaxAbsolutePartitionSizeInK(FreeAfter(size))))

\* Mutant: the sector of the table is not given back.
UndoAddPartition_NoTable ==
    LET size == Last(partitions).sizeInK
        free == unpartitionnedSpaceInSectors + size * 2
    IN /\ screen = "menu" /\ ~partitionsExistInDisk /\ partitions # <<>>
       /\ partitions' = Front(partitions)
       /\ unpartitionnedSpaceInSectors' = free
       /\ autoPartitionSizeInK' = RecalculateAutoPartitionSize(size, free, FALSE)
       /\ UNCHANGED <<device, partitionsExistInDisk, partitionsDeletedFromDisk,
                      rootFilesystemFatType, screen, job, history, counts>>

UndoAddPartition ==
    LET size == Last(partitions).sizeInK
        free == unpartitionnedSpaceInSectors + size * 2 + EXTRA_PARTITION_SECTORS
    IN /\ screen = "menu" /\ ~partitionsExistInDisk /\ partitions # <<>>
       /\ partitions' = Front(partitions)
       /\ unpartitionnedSpaceInSectors' = free
       /\ autoPartitionSizeInK' = RecalculateAutoPartitionSize(size, free, FALSE)
       /\ UNCHANGED <<device, partitionsExistInDisk, partitionsDeletedFromDisk,
                      rootFilesystemFatType, screen, job, history, counts>>

\* ^= 0x80
Flipped(status) == (status + 128) % 256

\* ToggleStatusBit: entry of a table, counted from 1, with its flag turned over.
ToggleStatusBit(entry, sector) ==
    Put(sector, [kind |-> "table",
                 entries |-> [Table(disk, sector) EXCEPT ![entry].status = Flipped(@)]])

\* Of a list that is on the device the flag is written there first, if the
\* partition is still found; the list only changes if that went well.  No write
\* past the end of the device goes well.
TogglePartitionActive(i, ok) ==
    LET p == partitions[i]
        sector == F_GPART(disk, p.primaryIndex, p.extendedIndex).sector
    IN /\ screen = "menu" /\ i \in 1..AtMost(Len(partitions), 9)
       /\ partitionsExistInDisk => sector # NoSector
       /\ partitionsExistInDisk /\ ok => sector \in 0..device.sectors - 1
       /\ IF ok THEN UNCHANGED errors ELSE partitionsExistInDisk /\ Fails
       /\ device' = IF partitionsExistInDisk /\ ok
                    THEN ToggleStatusBit(IF p.extendedIndex = 0 THEN p.primaryIndex ELSE 1, sector)
                    ELSE device
       /\ partitions' = IF ok THEN [partitions EXCEPT ![i].status = Flipped(@)] ELSE partitions
       /\ UNCHANGED <<partitionsExistInDisk, partitionsDeletedFromDisk, space,
                      rootFilesystemFatType, screen, job, history, commits>>

----------------------------------------------------------------------------
(* Writing. *)

Formatting(first, size) == [stage |-> "boot", first |-> first, sizeInK |-> size]

\* A whole device is formatted: no partition table, a file system at sector 0.
FormatWithoutPartitions ==
    /\ screen = "menu" /\ CanDoDirectFormat /\ Commit
    /\ screen' = "format"
    /\ job' = [index |-> 0, format |-> Formatting(0, device.sectors \div 2)]
    /\ UNCHANGED <<device, list, space, rootFilesystemFatType, history, errors>>

\* PreparePartitioningProcess is part of it.
WritePartitionTable ==
    /\ screen = "menu" /\ CanWrite /\ partitions # <<>> /\ Commit
    /\ screen' = "write"
    /\ job' = [index |-> 1, next |-> 0, extended |-> 0, format |-> [stage |-> "table"]]
    /\ UNCHANGED <<device, list, space, rootFilesystemFatType, history, errors>>

\* No partitions: they are deleted by an empty table.
WriteEmptyTable(ok) ==
    /\ screen = "menu" /\ CanWrite /\ partitions = <<>> /\ Commit
    /\ IF ok THEN /\ device' = Put(0, [kind |-> "table", entries |-> EmptyTable])
                  /\ screen' = "done"
                  /\ UNCHANGED errors
             ELSE Fails /\ UNCHANGED <<device, screen>>
    /\ UNCHANGED <<list, space, rootFilesystemFatType, job, history>>

\* Mutant: all links count from the start of the device.
TableOf_Absolute(i, next, extended) ==
    LET p == partitions[i]
        own == [type |-> p.partitionType, status |-> p.status, first |-> 1, size |-> p.sizeInK * 2]
        link == [type |-> 15, status |-> 0, first |-> next, size |-> p.sizeInK * 2]
    IN <<own, IF i = Len(partitions) THEN NoEntry ELSE link, NoEntry, NoEntry>>

\* CreatePartition: the table of partition i, with the link to the next one.
TableOf(i, next, extended) ==
    LET p == partitions[i]
        last == i = Len(partitions)
        own == [type |-> p.partitionType, status |-> p.status, first |-> 1, size |-> p.sizeInK * 2]
        link == [type |-> 15, status |-> 0,
                 first |-> IF i = 1 THEN next ELSE next - extended,
                 size |-> IF i = 1 THEN Used(Tail(partitions)) ELSE partitions[i + 1].sizeInK * 2]
    IN <<own, IF last THEN NoEntry ELSE link, NoEntry, NoEntry>>

\* Mutant: the sector of the table is not counted.
CreatePartition_NoTable ==
    LET i == job.index
        next == job.next + partitions[i].sizeInK * 2
        extended == IF i = 1 THEN next ELSE job.extended
    IN /\ screen = "write" /\ job.format.stage = "table"
       /\ device' = Put(job.next, [kind |-> "table", entries |-> TableOf(i, next, extended)])
       /\ job' = [index |-> i, next |-> next, extended |-> extended,
                  format |-> Formatting(job.next + 1, partitions[i].sizeInK)]
       /\ UNCHANGED <<list, space, rootFilesystemFatType, screen, history, counts>>

CreatePartition ==
    LET i == job.index
        next == job.next + 1 + partitions[i].sizeInK * 2
        extended == IF i = 1 THEN next ELSE job.extended
    IN /\ screen = "write" /\ job.format.stage = "table"
       /\ device' = Put(job.next, [kind |-> "table", entries |-> TableOf(i, next, extended)])
       /\ job' = [index |-> i, next |-> next, extended |-> extended,
                  format |-> Formatting(job.next + 1, partitions[i].sizeInK)]
       /\ UNCHANGED <<list, space, rootFilesystemFatType, screen, history, counts>>

\* CreateFatFileSystem: the sectors written, in this order.
FatStages == <<"boot", "zero", "fat1", "fat2">>

\* Mutant: the second FAT is put one sector late.
FatWritten_Late(f) ==
    LET p == CalculateFatFileSystemParameters(f.sizeInK)
        fat == [kind |-> "fat", isFat16 |-> p.isFat16]
    IN CASE f.stage = "boot" -> Put(f.first, [kind |-> "boot", parameters |-> p])
         [] f.stage = "zero" ->
              Cleared(f.first + 2, f.first + p.sectorsPerFat * FAT_COPIES
                                           + p.sectorsPerRootDirectory)
         [] f.stage = "fat1" -> Put(f.first + 1, fat)
         [] f.stage = "fat2" -> Put(f.first + 2 + p.sectorsPerFat, fat)

FatWritten(f) ==
    LET p == CalculateFatFileSystemParameters(f.sizeInK)
        fat == [kind |-> "fat", isFat16 |-> p.isFat16]
    IN CASE f.stage = "boot" -> Put(f.first, [kind |-> "boot", parameters |-> p])
         [] f.stage = "zero" ->
              Cleared(f.first + 2, f.first + p.sectorsPerFat * FAT_COPIES
                                           + p.sectorsPerRootDirectory)
         [] f.stage = "fat1" -> Put(f.first + 1, fat)
         [] f.stage = "fat2" -> Put(f.first + 1 + p.sectorsPerFat, fat)

\* After the second FAT comes the next partition, or the end.
CreateFatFileSystem ==
    LET f == job.format
        n == CHOOSE x \in 1..4 : FatStages[x] = f.stage
    IN /\ screen \in {"write", "format"} /\ f.stage # "table"
       /\ device' = FatWritten(f)
       /\ IF n < 4 THEN /\ job' = [job EXCEPT !.format.stage = FatStages[n + 1]]
                        /\ UNCHANGED screen
          ELSE IF screen = "write" /\ job.index < Len(partitions)
               THEN /\ job' = [job EXCEPT !.index = @ + 1, !.format = [stage |-> "table"]]
                    /\ UNCHANGED screen
               ELSE job' = Idle /\ screen' = IF screen = "write" THEN "done" ELSE "formatted"
       /\ UNCHANGED <<list, space, rootFilesystemFatType, history, counts>>

\* A write fails: the menu is back with the list as it was.  Some of the sectors
\* to clear may have been written.
WriteFails ==
    /\ screen \in {"write", "format"}
    /\ Fails
    /\ \/ UNCHANGED device
       \/ job.format.stage = "zero" /\ device' = FatWritten(job.format)
    /\ job' = Idle /\ screen' = "menu"
    /\ doubtful' = (doubtful \/ screen = "format")
    /\ UNCHANGED <<list, space, rootFilesystemFatType, stale, commits>>

\* The partitions are searched again; FDISK says which are on the device now.
SearchAgain ==
    /\ screen \in {"done", "formatted"}
    /\ screen' = "search"
    /\ UNCHANGED <<device, list, space, rootFilesystemFatType, job, history, counts>>

Init ==
    /\ device \in Devices
    /\ partitions = <<>>
    /\ partitionsExistInDisk = TRUE /\ partitionsDeletedFromDisk = FALSE
    /\ unpartitionnedSpaceInSectors = 0 /\ autoPartitionSizeInK = 0
    /\ rootFilesystemFatType = 0
    /\ screen = "out" /\ job = Idle
    /\ doubtful = FALSE /\ stale = FALSE
    /\ errors = 0 /\ commits = 0

Next ==
    \/ InitializePartitioningVariables
    \/ \E complete, readable \in BOOLEAN : GetDiskPartitionsInfo(complete, readable)
    \/ DeleteAllPartitions
    \/ AddAutoPartition
    \/ \E entered \in EnteredSizes : AddPartition(entered)
    \/ UndoAddPartition
    \/ \E i \in 1..9, ok \in BOOLEAN : TogglePartitionActive(i, ok)
    \/ FormatWithoutPartitions
    \/ WritePartitionTable
    \/ \E ok \in BOOLEAN : WriteEmptyTable(ok)
    \/ CreatePartition
    \/ CreateFatFileSystem
    \/ WriteFails
    \/ SearchAgain

Spec == Init /\ [][Next]_vars

----------------------------------------------------------------------------
(* Properties. *)

Partition == [primaryIndex : 1..4, extendedIndex : 0..MAX_PARTITIONS_TO_HANDLE,
              partitionType : Byte, status : Byte, sizeInK : Nat]

Parts == 1..Len(partitions)
EntryOf(i) == F_GPART(disk, partitions[i].primaryIndex, partitions[i].extendedIndex)

TypeOK ==
    /\ Disk(disk, device.sectors)
    /\ Len(partitions) <= MAX_PARTITIONS_TO_HANDLE
    /\ \A i \in Parts : partitions[i] \in Partition
    /\ {partitionsExistInDisk, partitionsDeletedFromDisk, doubtful, stale} \subseteq BOOLEAN
    /\ unpartitionnedSpaceInSectors \in 0..device.sectors /\ autoPartitionSizeInK \in Nat
    /\ rootFilesystemFatType \in {0, 12, 16}
    /\ screen \in {"out", "search", "menu", "write", "format", "done", "formatted"}
    /\ job.index \in 0..Len(partitions) /\ errors \in 0..MaxErrors
    /\ commits \in 0..MaxCommits

\* The sectors given to the list, each with its table sector, and the free ones
\* are the whole device after any sequence of adding, undoing, deleting and
\* failed writes, and all sizes are ones that FDISK may create
\* (fdisk.c 1155-1334).  While "stale" is set less than that is free: the device
\* was formatted with partitions still in the list.
SpaceAccounted ==
    ~partitionsExistInDisk =>
        /\ Used(partitions) + unpartitionnedSpaceInSectors <= device.sectors
        /\ stale \/ Used(partitions) + unpartitionnedSpaceInSectors = device.sectors
        /\ \A i \in Parts : partitions[i].sizeInK \in Sizes

\* Once the list has been written, also after writes that failed and were done
\* again over what they left, _GPART finds exactly the partitions of the list
\* (fdisk.c 1400-1482, 2046-2103).
WrittenAsListed == screen = "done" => Found(disk) = partitions

\* Each written partition and its table sector lie on the device apart from all
\* the others, and those of the extended partition inside it.
PartitionsApart ==
    screen = "done" =>
        LET Begin(i) == AtMost(EntryOf(i).sector, EntryOf(i).first)
            End(i) == EntryOf(i).first + EntryOf(i).size
            outer == Table(disk, 0)[2]
        IN \A i \in Parts :
             /\ EntryOf(i).sector < EntryOf(i).first /\ End(i) <= device.sectors
             /\ \A j \in Parts : j < i => End(j) <= Begin(i)
             /\ i > 1 => outer.first <= Begin(i) /\ End(i) <= outer.first + outer.size

\* Each written partition has its boot sector and the start of both FATs, none
\* of them destroyed by formatting another partition, for a file system that
\* ends inside the partition and has the FAT its partition type announces
\* (fdisk.c 1697-1745, 2098-2102).
FormattedAsListed ==
    screen = "done" =>
        \A i \in Parts :
            LET first == EntryOf(i).first
                p == CalculateFatFileSystemParameters(partitions[i].sizeInK)
            IN /\ {first, first + 1, first + 1 + p.sectorsPerFat} \subseteq DOMAIN disk
               /\ disk[first] = [kind |-> "boot", parameters |-> p]
               /\ disk[first + 1] = [kind |-> "fat", isFat16 |-> p.isFat16]
               /\ disk[first + 1 + p.sectorsPerFat] = disk[first + 1]
               /\ p.totalSectors <= EntryOf(i).size
               /\ p.isFat16 <=> EntryOf(i).type = 14

\* No table is chained twice, or from two entries of the first table: no two logical
\* partitions have their flag in one place.
OwnTables(d) ==
    LET found == {x \in (1..4) \X (1..MAX_PARTITIONS_TO_HANDLE) :
                    F_GPART(d, x[1], x[2]).sector # NoSector}
    IN \A x, y \in found :
         F_GPART(d, x[1], x[2]).sector = F_GPART(d, y[1], y[2]).sector => x = y

\* While FDISK says that its list is what was found on the device, it is: the
\* active flags it shows are those in the tables, also after flags were turned
\* over there, one by one and with errors in between (fdisk.c 1080-1131).  Of
\* partitions that share a table only the flag that was turned over is shown so.
ListTruthful ==
    screen = "menu" /\ partitionsExistInDisk /\ CanCreatePartitions /\ ~doubtful =>
        partitions = Found(disk) \/ ~OwnTables(disk)

\* "Partitions from 100KB (the minimum supported partition size) up to 32MB will
\* be FAT12, partitions from 33MB to 4GB (the maximum supported partition size)
\* will be FAT16" (docs/Nextor_3.0_User_Manual.md): the kernel finds that file
\* system in every partition FDISK has written.
WrittenRecognized ==
    screen = "done" =>
        \A i \in Parts : Recognized(CalculateFatFileSystemParameters(partitions[i].sizeInK))
=============================================================================
