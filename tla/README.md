# Verification of Nextor

Nextor is the disk operating system of MSX computers, a descendant of MSX-DOS 2.
This directory holds TLA+ models of the parts of it that keep the user's data:

* in the kernel, written in assembler, the sector buffers, the allocation of disk
  space, the copies of the file allocation table (FAT), and the file handles of
  its processes;
* the programs in C around it: FDISK, which makes partitions and file systems, the
  tools that copy, install, repair or set something, and MKNEXROM, which builds
  the ROM files of the kernel itself.

Each module is translated from the source; `PROJECT.json` names, for every
definition, the lines it stands for. TLC checks small instances, TLAPS proves the
results that matter most for every value of the constants.

File names below are relative to `src/source/kernel/bank2` unless they begin
with `src/`.

## 1. The system

### 1.1 What runs

**The kernel** is a single thread. A function call (`CALL 5`) runs to its end before
the next begins; interrupts only count ticks, and nothing below is called from
them. What makes the code hard is therefore not parallelism but

* the **error dialogue**: at any sector transfer the user may answer RETRY,
  IGNORE or ABORT, and ABORT leaves the running function through `KERR_ABORT`
  wherever it is, after `INV_UD` has forgotten every buffer of the unit;
* **power**: the machine is switched off, or reset, between any two sector
  writes, with dirty buffers in memory;
* **the medium**: floppy disks are exchanged between any two calls, and the
  kernel learns of it by an answer yes / no / not sure, by a timeout, or late;
* **state in several places**: a sector may be in a buffer and on the disk, in
  up to seven FAT copies, and summarised in the unit descriptor (allocation
  hint, dirty disk flag), in the FAB of a file (cached cluster), or in another
  FAB of the same file.

**The programs in C** run one at a time on top of the kernel. They are hard in
their own ways:

* **a system call in the middle fails**, or CTRL-STOP or an aborted disk error ends the
  program there, after part of its work: with handles open, a system setting
  changed, a memory segment allocated, a half of a file or of a partition table
  written;
* **what a program has in memory and what is on the disk** must agree: FDISK's list of
  partitions, DISKCOPY's batch of sectors across a swap of the disks, the block of the
  persistent storage that two programs share;
* **numbers at their limits**: sizes in sectors, kilobytes and megabytes in 16 and 32
  bits, counts of clusters against those of a FAT type, the last bank of a ROM;
* **a source and a target that overlap**: XCOPY copying a tree into itself or several
  files to one name.

### 1.2 Components

| Component | State | Operations | Correct when |
|---|---|---|---|
| Sector buffers, `buf.mac` | chain `B_CHAIN`, cached buffer `B_CACHE`, descriptors `BD_*`, sector data | `BF_SECTOR`, `BF_FAT_SECTOR`, `BF_FLUSH`, `FL_*`, `INV_*`, `ASSIGN_*` | one value per sector; no write lost; every buffer stays on the chain; loops end |
| Error dialogue, `err.mac` | error flags, unit in error | `DISK_ERR`, `INV_UD` | after ABORT nothing computed from lost buffers is believed |
| Transfers, `rw.mac` | current drive, transfer address | `RW_SECTOR`, `RW_MANY`, `CORRECT_BUF`, `F_RDDRV`, `F_WRDRV` | direct and buffered transfers see the same sectors |
| FAT, `fat.mac` | FAT, `UD_ALLOCATION_CLUSTER`, `UD_DIRTY_DISK_FLAG` | `AL_CLUSTERS`, `FR_CHAIN`, `FAT_LOOKUP`, `FAT_?SET`, `CLEAN_DISK`, `DIRTY_DISK` | chains sound; disk full only when full; the dirty flag is true |
| Files, `files.mac` | FAB: position, size, first and cached cluster | `START_RW`, read, write, seek, truncate | reads return what was written at that position |
| Media, `val.mac` | unit descriptors, `UD_TIME`, file information blocks | `VAL_FIB`, `VAL_UPB`, `VAL_SAME`, `_NEW_UPB` | data of one disk never reaches another |
| Handles, `handles.mac` | tables of handles per process, FABs with use counts | open, close, `F_DUP`, `F_FORK`, `F_JOIN`, delete | a FAB lives exactly as long as a handle refers to it |
| Directories, `dir.mac` `find.mac` `path.mac` `del.mac` | directory entries | find, create, delete, rename, move | no two entries of one name; nothing open is deleted |
| Kernel memory, `kinit.mac` | list of blocks in the data segment | `ALL_P2`, `FR_P2` | blocks tile the memory |
| Mapper segments, `bank4/seg.mac` | table of segment owners | `ALLSEG`, `FRESEG`, `FREUSEG` | no segment has two owners |
| Partitions, `bank4/partit.mac` | drive table | `F_MAPDRV`, mounted files | no file mounted twice for writing |
| FDISK, `bank5/fdisk.c` | drivers and devices found, list of partitions, space left, tables and boot sectors on the device | select, search, add, undo, delete, format, commit, active flags | the list says what is on the device; partitions lie apart; each file system fits and is recognized |
| XCOPY, `xcopy.c` | calls of `xcopy()`, file handles, verify flag | copy, rename, prompt, stop | every file chosen has its copy, no copy is overwritten, nothing is left half done |
| DISKCOPY, `diskcopy.c` | batch of sectors, disk checking, error routine | passes with and without swaps, `/S` | target equals source; the system is as before |
| EMUFILE and NEXBOOT, `emufile.c` `nexboot.c`, `persistent_storage.c` | data file; block in the persistent storage | make, set, clear | the table says where the images are; each keeps to its part of the block |
| MKNEXROM, `mknexrom.c` | ROM file | make, modify | all banks complete and consistent |
| DRVROP, `drvrop.c` | mapper segments, registered drivers | install, remove | each segment has one owner |
| EPTCFT, VSFT, `eptcft.c` `vsft.c` | type codes, size of a volume | scan, fix, undo | nothing else is changed |
| Rest | | start-up, console, character devices, MSX-DOS 1 kernel, Disk BASIC, command interpreter, tools that only print | |

The sources of the last rows before "Rest" are in `src/source/tools/C`,
`src/sdk/C/code` and `src/buildtools/sources`.

### 1.3 How they interact

A file function validates the medium (`VAL_FIB`), works out clusters with
`FAT_LOOKUP` or `AL_CLUSTERS`, transfers part sectors through the buffers
(`RW_SECTOR` → `BF_SECTOR`) and runs of whole sectors past them (`RW_MANY`, which
then calls `CORRECT_BUF`). Every FAT access is a buffered sector
(`BF_FAT_SECTOR`), so reading the FAT may evict a dirty data sector and vice
versa. `BF_FLUSH` and `RW_MANY` call the unit handler, which first repeats the
media check, and `DISK_ERR` when it fails. Deletion calls `DIRTY_DISK`, which
freezes the last FAT copy for `UNDEL`; allocation calls `CLEAN_DISK`, which
brings it up to date.

FDISK is part of the kernel ROM but reads and writes whole sectors through the
device drivers; only its search asks the kernel (`F_GPART`), which reads the same
tables back. The file systems it creates must be ones that the kernel takes for
FAT12 or FAT16 volumes (`CHECK_FAT_BOOT`). XCOPY and the others are clients of the
function calls; EMUFILE and NEXBOOT meet in the persistent storage; EPTCFT and VSFT
repair what other systems, or FDISK, have written; the RAM drivers that DRVROP
installs live in segments of the mapper support.

The hazards list of `PROJECT.json` says, line by line, where this can go wrong
and which property watches over it.

## 2. The modules

| Module | Models | Extends |
|---|---|---|
| `SectorStore` | abstract: a disk with one current value per sector | |
| `BufferOrder` | order of re-use as a sequence: `MoveToStart`, `MoveToEnd`, and `AllToStart`, which gives each place of the old order its place in the new | |
| `BufferPool` | the buffers, flushing, eviction, direct transfers, error answers | `BufferOrder` |
| `BufferChain` | the linked list behind that order and the loops over it | `BufferOrder` |
| `FatAlloc` | allocation and freeing of cluster chains, the hint | |
| `FatCopies` | copies of the FAT and the dirty disk flag | |
| `Handles` | handles, FABs and processes, and the functions that respect open files | |
| `FatLayout` | the sizes of a FAT12 or FAT16 file system, from the size of its partition | |
| `Fdisk` | FDISK's list of partitions and what is written to the device | `FatLayout` |
| `FdiskDevices` | FDISK's selection of driver and device | |
| `Xcopy`, `Diskcopy`, `Emufile`, `Drvrop`, `Eptcft`, `Vsft`, `Mknexrom` | the program of that name | |
| `PersistentStorage` | the block in the persistent storage and the routines of the SDK | |
| `BootSettings` | EMUFILE `set`/`k` and NEXBOOT on that block | `PersistentStorage` |
| `Programs` | all these programs side by side, one of them running | `Fdisk`, instances of the others |
| `MCPrograms`, `MCProgramCases` | the instance for TLC, and what the programs are given in it | `Programs` |
| `ProofLemmas` | the least number principle, and lists that are re-ordered | `BufferOrder`, `TLAPS` |
| `BufferProofs`, `FatAllocProofs`, `FatCopiesProofs`, `HandlesProofs`, `XcopyProofs` | theorems | the module of that name (`BufferProofs`: `BufferPool` and `BufferChain`), `ProofLemmas` or `TLAPS` |
| `FdiskProofs` | theorems about `FatLayout` and `Fdisk` | `Fdisk`, `ProofLemmas` |
| `ProgramsProofs` | theorems about the tools, as parts of `Programs` | `Programs`, `FdiskProofs`, an instance of `XcopyProofs` |
| other `MC…` | instances for TLC | |

### BufferPool and SectorStore

`BufferPool` has the state of `buf.mac`: `chain` is the order of the linked list
from `B_CHAIN`, `cache` is `B_CACHE`, `buf` holds the descriptors (`unit` is
`BD_UD`/`BD_PHYS`, `Empty` for 0). A routine is an operator from the pool before
to the set of pools it may leave, one for each answer of the user, so that an
action is a whole kernel routine: `WriteSector` is the search, the eviction with
its flush, the pre-read, the store and `DIRT_CACHE`. RETRY is the branch in
which the transfer works. `BF_FLUSH` clears the dirty mark *before* it writes;
IGNORE leaves the medium as it was, and the history variable `waived` records
the sectors on which the user accepted that.

`SectorStore` is what the callers rely on: `current` is what a read returns,
`durable` what the medium holds. It allows a read to change no current value
outside `waived`, a flush to leave durable = current, an ABORT to put one unit
(not two) back to its medium. `BufferPool` implements it under the mapping
`current[x] <- contents of the buffer of x, or the medium`.

### BufferChain

In the code the chain is singly linked through `BD_NEXT`, with the head in
`B_CHAIN`. `BF_START` and `BF_END` search for the predecessor of a buffer and
relink; `FLG_NEXT` finds the first flagged buffer from the head. `BufferChain`
has the links themselves and shows that walking them (`Nth`, `Chain`) gives exactly the sequence
`BufferPool` uses. One iteration of the loops of `INV_*` and `FL_*` is one step.

### FatAlloc

`fat` is the FAT seen through the buffers, `medium` the one on the disk;
`WriteBack` copies one FAT sector from the one to the other at any moment, which
stands for every order of re-use of the buffers. Each FAT access of
`AL_CLUSTERS` and `FR_CHAIN` is a step of its own, because `Abort` (the FAT falls
back to the medium) may come between any two. `UF_DBD` tells units of a Nextor
driver from others: after ABORT `DISK_ERR` clears `UD_TIME` only for the
others, so that their descriptor, hint included, is computed again.

Abstractions: whole FAT entries are written at once (the 12 bit packing, with
entries across two sectors, is not modelled); the last accessed cluster cached
in the FAB is not modelled, `LOG_PHYS_CLU` always walks from the first cluster;
`CLEAN_DISK` at the end of an allocation is in `FatCopies`; directory entries and
the zeroing of new clusters are left out.

### FatCopies

`copy` is the FAT on the disk, one function per copy; `buf` the buffered FAT
sectors, each with the number of copies it was read for (`BD_NUMBER_OF_COPIES`);
`boot` and `bootbuf` the dirty disk flag on the disk and in its buffer;
`UD_DIRTY_DISK_FLAG` the one the kernel goes by. `DIRTY_DISK` and `CLEAN_DISK`
run one sector per step, with flushes of other buffers, aborts and resets in
between. A FAT sector holds the chain its clusters belong to, which is what
UNDEL needs to find.

Two facts of `buf.mac` are built in. The boot sector's buffer is put first in
the order of re-use (`BF_START` in `DIRTY_DISK`), so no FAT sector is written
while it is dirty: guard of `FlushFat`, whose removal is one of the mutants. And
`BF_FLUSH` reports an error only if *no* copy could be written: a sector some
copies of which were missed is recorded in `torn` and excused, since the code
accepts it by design.

The history variable `agreed` is true as long as the unit descriptor's flag was
never rebuilt from, or kept beside, a boot sector that says otherwise. The two
ways it becomes false are the two findings in 3.3.

### Handles

`vec` holds one handle vector per process, the last being the current one
(`HANDLES` is their number, in the code the head of a linked list); a handle is a
FAB or `Null`. `FAB_CHAIN` are the FABs that are allocated, `refs` their
`FAB_REFERENCE_COUNT`, `fab` their other fields: place and name of the directory
entry, the first cluster (`file`) that `ENSURE_FAB` puts into that entry, and the
flags `AC_INH`, `AC_MOD`, `AC_DEAD`. Both `vec` and `fab` keep what freed blocks
hold, since `F_JOIN` frees them all before it goes through them once more to
update the directory entries.

A function is one action, but `F_FORK`, `F_JOIN`, `OPEN_DEF_HAND` and the
`CLOSE_HANDLES` of `bank4/partit.mac` go handle by handle. ABORT may end
`F_CLOSE`, `F_ENSURE`, `F_HDELET`, `F_JOIN` and `CLOSE_HANDLES` at the access to the
directory; the history variable `waived` records the freed FABs that the user
thereby gave up. Memory for a FAB or for the vector of process 0 may be missing
at any time.

Abstractions: one drive with one directory of fixed size whose disk is never
changed; access modes and attributes, by which a function may refuse to work,
are left out, and so is `CHECK_REDIR`, which sets flags nothing here reads; a FAB of
a mounted file, which `FAB_SCAN` skips, does not occur; unmapping leaves the
directory as it is.

### FatLayout and Fdisk

`FatLayout` is the arithmetic of `CalculateFatFileSystemParametersFat12` and `…Fat16`: from
the size of a partition in kilobytes to sectors per cluster, sectors per FAT and
clusters, with the 16-bit casts of the code (`U16`), and the tests that FDISK and the
kernel later make on the boot sector (`GetBootSectorFatType`, `Recognized`).

`Fdisk` is the life of a session on one device. `partitions` is the list FDISK keeps,
`disk` the sectors of the device that hold a partition table, a boot sector or the start of a FAT,
`unpartitionnedSpaceInSectors` the space left. Operations are whole handlers: the
search, which follows what is on the device as `F_GPART` does; adding a partition
entered or automatic; undo; delete all; the active flag; the direct format; and writing, which is one
step per table and per part of a file system (boot sector, the sectors cleared, each FAT), so
that a device error may leave a part of them written. The screens and their wording are left out; what the user
may choose in each is the guard of an action. `FdiskDevices` is the part before that:
which driver and device can be selected, page by page, from what the drivers answer.

### The tools in C

Each is a module of its own, with one action per system call whose failure makes a
difference, `Abort` (or the failing call) in between, and history variables for what was
there when the program began.

* `Xcopy`: `tree` maps paths to entries. `stack` holds the recursive calls of
  `xcopy()` with the names each has already found (`find_first` and `find_next` while
  the directories are being changed); `job` is the file being copied, from the choice
  of what to do with a file in the way to setting its date and attributes; `opened`
  the handles. The options are those of the program but for `/W` and its messages.
* `Diskcopy`: `sectors` of source and target disk, `inserted` the one in the only drive
  of a single-drive copy, `batch` the copy buffer. `obeyed` records whether the user
  put in the disk that was asked for; later passes do not check it.
* `Emufile`: from the arguments to the table of (device, sector, size) of each image,
  with contiguity, several images in a file, and the file written at the end.
* `PersistentStorage` has the routines of the SDK (load, check, make, save, the sum over the
  bytes), a block being a function from offsets to bytes; `BootSettings` is `emufile set`,
  `emufile k` and `nexboot` on one storage, one after the other.
* `Mknexrom`: a ROM file is a function from positions to cells, nine to a bank, each
  standing for a part of the bank with a meaning of its own; every loop over the banks runs as in the
  program until a character past the end of the file is read.
* `Drvrop`: segments and registered drivers, with the program's page 1 switched to
  the segment for the copy and back.
* `Eptcft` and `Vsft`: a chain of partition tables, and a boot sector, with what the
  program believes of them from the system calls.

`Programs` puts FDISK and the tools side by side: `running` is the program that was
started, the variables of the others stay as they were at the start. They share no
state in the model, as one runs at a time; those that do share some, EMUFILE and NEXBOOT
in the persistent storage, are one module. FDISK is extended, the tools are instances
(`R!` is DRVROP, `D!` DISKCOPY, and so on), with variables whose first letters name the tool.
`MCPrograms` gives the constants their values, `MCProgramCases` lists command lines, disks
and files.

## 3. What TLC checks

### 3.1 Runs

| Run | Instance | Shows |
|---|---|---|
| `buffer_pool` | 2 buffers, 2 units, 2 sectors each, one of which may be ignored, 2 values; direct transfers of 1 or 2 sectors | `UniqueBuffer`, `DirectReadCoherent`, refinement `StoreSpec` |
| `buffer_chain` | 4 buffers | `ChainComplete`, `ChainIsOrder`, `LoopEnds` (liveness) |
| `fat_alloc` | clusters 2 to 4 in 2 FAT sectors, 2 files of at most 4 clusters, requests of up to 3, 1 ABORT, a Nextor driver | `HintSound`, `DiskFullTruthful`, `ChainsSound`, `RequestEnds` (liveness) |
| `fat_copies` | 3 copies of 2 FAT sectors, 2 chains, 1 torn sector, 1 ABORT, a Nextor driver | `DirtyFlagTruthful`, `CopiesCurrent`, `SnapshotKept`, `AllButLast` |
| `handles` | 2 processes, 2 handles each, 2 FABs, counts up to 3, 2 directory entries, 2 names, 4 files | `UseCounts`, `OpenFileThere`, `NoWriteForgotten` |
| `programs` | each program of `MCProgramCases` with the cases listed there | FDISK: `SpaceAccounted`, `WrittenAsListed`, `PartitionsApart`, `FormattedAsListed`, `ShownTruthful`; XCOPY: `CleanExit`, `CopiesKept`, `CopyComplete`, `NoRunaway`; DISKCOPY: `CopyExact`, `SystemRestored`; EMUFILE: `TableExact`; with NEXBOOT: `SettingsKept`; MKNEXROM: `RomComplete`; DRVROP: `SegmentsOwned`; EPTCFT and VSFT: `RepairsExact` |
| `fdisk_recognized` | FDISK on a device of 262400 sectors | the finding of 3.3 on new file systems |
| `fat_alloc_full`, `fat_copies_abort`, `fat_copies_recheck`, `handles_unmap`, `handles_scan` | the same instances | the findings of 3.3 |

Why these bounds are enough:

* *Buffers.* Two buffers make one evict the other, and the sector asked for be
  in either, both or none. Two units tell ABORT of one from the contents of the
  other; two sectors are needed for a run past the buffers of which one sector
  is buffered. The order of longer chains is the subject of `buffer_chain`, where
  the buffer that is moved can be first, last, next to the head or in between.
* *Clusters.* Three clusters over two FAT sectors give a chain that crosses FAT
  sectors, the last cluster of the disk, a request that fails half way and two
  files that compete. One ABORT, at any FAT access, makes the hint wrong and leaves
  broken chains behind for the requests that follow. The theorems of section 4
  hold for any number of clusters, files and ABORT answers.
* *Copies.* Three copies distinguish the first, the last, and the others. One
  sector may be missed by a write. Runs after the first disagreement between
  the flag on the disk and the one in memory are cut by the view
  `MCAgreedView`: the properties of `fat_copies` say nothing about them, and the two
  violation runs are about just that disagreement. The branch for a single copy
  is not taken in this instance.
* *Handles.* Two processes of two handles give four references, one more than
  the count can hold here, so that its limit is met in `F_DUP` and in `F_FORK`;
  `F_JOIN` with 0 frees two vectors at once. Four files leave one that no entry
  and no FAB refers to.

* *FDISK.* A device one sector too small, one that takes two partitions of 32000 KB and
  a rest, so that FAT12 and the smallest partitions at the end both occur, and one with foreign
  partitions, a primary one and two logical ones with a table each. `MAX_PARTITIONS_TO_HANDLE`
  is 3 instead of 256, so that it is reached; one device error (`MaxErrors`) and two
  rounds of writing (`MaxCommits`), so that a second one meets what a broken first one left. What
  depends on the size of a partition is proved for all sizes (section 4). The selection
  has three devices to a driver, two to a page and device numbers in 0..5 for a byte.
* *XCOPY.* Two trees: one with files and directories copied to a place where a newer
  hidden file and a read-only one are in the way, by each rule for duplicates; one
  that contains itself, copied in every direction between root, `s` and `s/s`. Four
  handles, so that they run out.
* *The others.* DISKCOPY has 5 sectors in a buffer of 2, so that the last pass is a
  partial one, and one sector error; EMUFILE up to 3 files, image sizes and sectors scaled down;
  the persistent storage blocks of 25 to 30 bytes in sectors of 16 and 30, 3
  commands in a row; MKNEXROM bases of 4 to 6 banks and drivers below, at and above the size
  of a bank; DRVROP two segments and 4 runs; EPTCFT chains of 4 tables and 2 failures of
  the driver; VSFT volumes around its three limits, scaled to 5, 7 and 8 clusters.

Buffers, units, FABs, names and file numbers are symmetric. The views leave out
history and the contents of freed blocks that no later step looks at. Every
constant that bounds a counter (`MaxRequest`, `MaxFileSize`, `MaxAborts`, `MaxTorn`,
`MaxProcesses`, `MaxReferences`, `MaxErrors`, `MaxCommits`, `MaxRequests`) is declared with its meaning in its module. Deadlock
is checked in every run.

Every property has at least one mutant in `PROJECT.json`, a plausible slip in the
code (a dropped guard, a missing flush, the first cluster in place of the
lowest) with which TLC finds the property violated.

### 3.2 Fairness

`LoopEnds` assumes weak fairness of the step of the loop, `RequestEnds` of the
steps of the running routine (`Running`). This is what the code guarantees: it is
the only thread, and it goes on until it returns or is aborted. Nothing is
assumed about the user, about aborts, write-backs or new requests.

### 3.3 Disagreements between the code and its documentation

* **Disk full with free clusters** (`fat_alloc_full`). `fat.mac` 542-545 say that
  `.DKFUL` is returned if insufficient free clusters can be found. `AL_CLUSTERS`
  sets the hint to the first cluster it allocated; an ABORT then forgets the FAT
  sectors that marked the clusters as used, and for units of Nextor drivers
  (`UF_DBD`) the unit descriptor stays valid. The clusters below the hint are
  free again but never looked at, and a later request fails with `.DKFUL`. That
  failure resets the hint, so the request after it succeeds.
* **Dirty disk flag lost by ABORT** (`fat_copies_abort`). `UNDEL.MAC` 745-748 rely
  on all FAT copies being identical unless the boot sector says dirty.
  `DIRTY_DISK` leaves the flag in a buffer; ABORT forgets it while, for Nextor
  drivers, `UD_DIRTY_DISK_FLAG` stays set, so that the next deletion does not
  write it again and FAT sectors are written without their last copy.
* **Dirty disk flag lost by a media check** (`fat_copies_recheck`). DOS2-FCS.TXT
  1577-1582 promise that the information for UNDEL is kept until the next
  allocation. When the driver answers "not sure" after the timeout and the disk
  is the same, `VAL_SAME` rebuilds the unit descriptor from the boot sector on
  the disk although the dirty one is still buffered; FAT sectors changed from
  then on are written to all copies.
* **Unmapping leaves files open** (`handles_unmap`). `bank4/partit.mac` 2846-2847
  promise that all file handles of a drive are closed before its mapping
  changes. `CLOSE_HANDLES` goes through the vector of the current process; a file
  that the parent has open and the child did not inherit stays open, with a
  pointer to the unit descriptor that `MAP_UNMAP` then frees.
* **A deleted file blocks its successor** (`handles_scan`). `FAB_SCAN` looks for FABs
  that "refer to the same file" (`handles.mac` 1732-1733) but does not skip those
  that are `AC_DEAD`. After a deletion through one of two duplicated handles, a
  file created in the same directory entry cannot be deleted, renamed or
  replaced (`.FOPEN`) until the other handle is closed.
* **A new partition that is not recognized** (`fdisk_recognized`). For 131087 to 131323 KB,
  just above 128 MB, `CalculateFatFileSystemParametersFat16` still has clusters of 2 KB and
  arrives at 257 sectors per FAT. `GetBootSectorFatType` (`bank5/fdisk.c` 875) and `CHECK_FAT_BOOT`
  (`bank4/partit.mac` 1693) accept 1 to 256, so neither FDISK nor the kernel takes
  the partition for the FAT16 volume that the user manual promises. Such a size cannot be entered, since
  FAT16 partitions are entered in megabytes, but is what is left on a device.

### 3.4 What the properties excuse

Some properties of `programs` hold only because they except a case in which the code
does something a user would hardly expect. Each exception is a history variable
or a condition in the property, or a case they do not speak of, so that it still happens in the model:

| Where | What happens | Excepted by |
|---|---|---|
| `bank5/fdisk.c` 462 | if a driver's last device number is 255 and its devices do not fill the list, the byte that counts them wraps to 0 and the scan goes on, so that devices are listed again | `wrapped` |
| `bank5/fdisk.c` 768, 1366 | a direct format while partitions are pending empties the list but leaves the space left as if they were there | `stale` |
| `bank5/fdisk.c` 1395 | after a direct format that failed, the old list is still shown as found on the device | `doubtful` |
| `xcopy.c` 929-938 | for a target without a directory part, the first entry of the current directory stands for the directory, and a source of that name is not copied | `case.first`; `CopyComplete` asks for copies only of trees apart from their target |
| `xcopy.c` 39-48, 1178-1192 | handles of finished copies are closed when none is free, and with them goes the protection against overwriting those copies | `joined` |
| `diskcopy.c` 783-801 | from the second pass on nobody checks which disk is in the drive | `obeyed` |
| `drvrop.c` 341-427 | CTRL-STOP between allocating and registering leaves a segment of the system allocated | `lost` |
| `eptcft.c` 387-398 | the driver's own error is ignored: after a failed first read the buffer holds anything | `blind` |

`MKNEXROM` gives a driver file of an exact multiple of 16 KB one bank too many
(`mknexrom.c` 433-450), which `RomComplete` allows for; a mapper code file shorter than
its area writes what the stack holds, and the low byte of an address taken from a header is
sign-extended (301), both of which it excepts; and a failure in modify mode leaves an
inconsistent file, of which it says nothing.


## 4. What is proved

TLAPS proves the following for every value of the constants that satisfies the
named assumptions. The assumptions say no more than what the
constants stand for, and where they ask for something to exist, the code does too:
`Units # {}`, a drive; `Descriptors # {}` in `ChainAssumption`, because `FLG_BUFS` and
`FLG_NEXT` look at the first descriptor before they look for the end of the
chain; marks such as `Empty`, `Null`, `None` and `Free` are not also what they mark the
absence of. TLC evaluates each assumption in the run of its module.

| Theorem | States | From |
|---|---|---|
| `BufferProofs!OneBufferPerSector` | `UniqueBuffer` | `PoolAssumption` |
| `BufferProofs!PoolTypeCorrect`, `DirectReadsAgree` | `BufferPool!TypeOK`, `DirectReadCoherent` | the same |
| `BufferProofs!BuffersImplementStore` | the refinement `StoreSpec` | the same |
| `BufferProofs!LinksTypeCorrect`, `NoBufferLost`, `LinksKeepOrder` | `BufferChain!TypeOK`, `ChainComplete`, `ChainIsOrder` | `ChainAssumption` |
| `FatAllocProofs!TypeCorrect`, `HintIsSound`, `DiskFullIsTruthful`, `ChainsAreSound` | `FatAlloc!TypeOK`, `HintSound`, `DiskFullTruthful`, `ChainsSound` | `FatAssumption` |
| `FatCopiesProofs!CopiesTypeCorrect`, `StaleCopyAnnounced`, `DeletedFilesFound`, `CopiesStayCurrent`, `LastCopyLeftOut` | `FatCopies!TypeOK`, `DirtyFlagTruthful`, `SnapshotKept`, `CopiesCurrent`, `AllButLast` | `CopiesAssumption` |
| `HandlesProofs!UseCountsAreRight`, `HandlesTypeCorrect`, `OpenFilesKept`, `WritesAreEntered` | `UseCounts`, `Handles!TypeOK`, `OpenFileThere`, `NoWriteForgotten` | `HandlesAssumption`, `FreeAssumption` |
| `FdiskProofs!FileSystemsFit`, `FatTypesAgree`, `WholeMegabytesRecognized` | every size of partition from 100 KB to 4 GB | none |
| `FdiskProofs!FdiskTypeCorrect`, `SpaceIsAccounted` | `Fdisk!TypeOK`, `SpaceAccounted` | `FdiskAssumption` |
| `FdiskProofs!WrittenIsFound`, `PartitionsAreApart`, `PartitionsAreFormatted` | `WrittenAsListed`, `PartitionsApart`, `FormattedAsListed` | the same |
| `FdiskProofs!ListIsTruthful` | `ListTruthful` | the same |
| `ProgramsProofs!WhatIsShownIsTrue` | `ShownTruthful` | `FdiskAssumption`, `FdevAssumption` |
| `ProgramsProofs!XcopyEndsClean`, `XcopyKeepsCopies`, `XcopyStops` | `CleanExit`, `CopiesKept`, `NoRunaway` | `XcAssumption` |
| `ProgramsProofs!DiskCopied`, `DiskcopyRestores` | `CopyExact`, `SystemRestored` | `DiskcopyAssumption` |
| `ProgramsProofs!DriverSegmentsOwned` | `SegmentsOwned` | `DrvropAssumption` |
| `ProgramsProofs!TableIsExact` | `TableExact` | `EmAssumption` |
| `ProgramsProofs!RomIsComplete` | `RomComplete` | `MkAssumption` |
| `ProgramsProofs!RepairsAreExact` | `RepairsExact` | `EptcftAssumption`, `VsftAssumption` |

### 4.1 The buffers

`UniqueBuffer` alone is not inductive, since it says nothing of what a buffer is; the invariant
`IInv == Sound(Now)` adds the shape of the pool, and `Sound` is a predicate on
pools, because `BF_SECTOR` works on the pool that a flush has left. The lemmas
say of each operator (`Invalidate`, `BF_FLUSH`, `TakeOver`, `FL`, `RW_MANY`, …) that
it takes a sound pool to sound pools. The heart is `TakeOver`: it runs only when
no buffer holds the sector, and neither a flush nor a re-ordering makes one
appear.

The refinement needs more. `Good(p, X)` says that the chain has every buffer, that
every field has its type, and that a buffer which is *not* dirty has what is on the
medium, but for sectors where the user ignored an error (`waived`) and for the sectors of `X`, those
whose buffer is between assignment and filling. Without that last part an eviction could
drop a write. What is seen of a sector is one function `See(p, x)`, the buffer's contents or the medium's;
`Kept(p, q, X)` says that from pool `p` to pool `q` it changes only on `X`, and
`Settled` that the medium gets nothing that was not seen before. Each operator
has a lemma in these terms (`FlushGood`, `TakeOverGood`, `SectorGood`, …), a request is their
composition, and a step of `BufferPool` maps to a step of `SectorStore` or to a stutter
by `StepStore`. `DirectReadCoherent` follows from the same invariant.

For `BufferChain` the invariant names the sequence that the links spell: some
sequence of all buffers, in which nothing occurs twice, starts at `B_CHAIN` and ends
with link 0. Between operations it is the order `BufferPool` has; inside the
invalidating loop, which restarts from `B_CHAIN` after each buffer, it is the one that *becomes* that order when the rest of
the flagged buffers are moved first (`AllToStart(s, flag)`). `AllToStartFirst` says that
taking the first flagged buffer leaves that unchanged. `StartSpells` and `EndSpells` show
that relinking by `BF_START` and `BF_END`, with the predecessor that `BF_FIND` finds,
changes the links as `MoveToStart` and `MoveToEnd` change the sequence; `Finds` follows
the search along the links (`Leads`).

### 4.2 The FAT

* Types: this is where the arithmetic of the hint is at stake: the hint stays in
  `1..UD_CLUSTER_COUNT` although `FR_CHAIN` subtracts one from a cluster number, because
  every cluster freed is at least 2.
* The hint is only sound as long as it is `trusted`, a history variable that is set
  when the hint is reset and cleared by an ABORT that keeps it, or by the
  truncation of a chain that an ABORT had cut short. In
  the middle of a request even that is not enough; `HintInv` adds that everything
  the search has passed is in use but for the cluster it took last, which is
  marked only when the next one is found (`Searched`), that the clusters taken lie
  between hint and search (`Taken`), and that while a chain is freed `FAT_CHAIN` is
  not above any cluster freed so far, so that the hint may be lowered to it at
  the end.
* The chains: `ChainsSound` counts the clusters of a file by walking the FAT; the invariant
  instead names the chains (`Accounted`): there are sequences `ch[f]` for the files and `x` for the
  running request such that the first `size[f]` clusters of `ch[f]` and the first `k` of `x` are
  linked in the FAT, are all different, and are all the clusters in use (`Tiled`). A file
  that is being shortened counts with what it will keep; what is still to be
  freed belongs to the request. The clusters the search has taken belong to it before
  they are linked to any file, which is why an error in between, `DiskFull`, can give back
  exactly those. The invariant holds as long as no access was aborted: after ABORT files point to clusters that
  the FAT calls free.
* The copies: one invariant, `Typed /\ (agreed => Told)`, gives all properties of
  `FatCopies`. `Told` says that the flag the kernel goes by is the one of the boot
  sector, buffered or not; that the routines run where they may and have left no buffer
  behind (`Routines`); that a buffered FAT sector is for the copies in use *now* (`Buffered`) and that
  these have what was last written (`Copied`); that only the last copy differs, and only on a
  disk that says so (`Alike`); and that on such a disk the last copy still has
  the snapshot (`Frozen`). The properties themselves are not inductive: a dirty buffer meant
  for all copies would overwrite the snapshot after the flag was set.

### 4.3 The handles

The references of a FAB are a set of pairs (process, handle); the lemmas `OneMore`
and `OneLess` tie adding or removing one pair to one step of the count, `Filled`
and `Cleared` say which pair a handle stands for. The strengthening `Loops` says
how far the loops have come: while `F_FORK` runs, the rest of the new vector is
empty; while `F_JOIN` counts down, the handles of the current vector it has
passed do not count any more (`Counted`), and the process to rejoin lies
below.

`OpenFileThere` and `NoWriteForgotten` need `FilesInv == IInv /\ Limits /\ FInv`. `FInv` says that names
in the directory are unique, so that the search of `FAB_SCAN` by name and by place
finds the same entry; that every FAB in use that is not dead has its own file in its place; that
the same still holds of the FABs that `F_JOIN` has *freed* but not yet brought up to date
(`FreedThere`); and that a freed FAB with an update owed is one of a handle that `F_JOIN` is still to
come to (`NoneOwed`).

### 4.4 The file systems

For every partition size from 100 KB to 4 GB, the new file system lies in its partition
with an entry in the FAT for each cluster; it is read with the kind of FAT it was
made with; and for sizes in whole megabytes the kernel recognizes it. (`fdisk_recognized`
shows that it does not for all sizes.) The argument is by the size of a cluster: `Clusters12Size`
and `Clusters16` say which sizes of partition go with each, and with the cluster a constant
the shifts of the code become linear arithmetic. For FAT12, where a limit may
cut the number of clusters, `Unlimited12` bounds everything before the limit, so that no 16-bit
value wraps (`Bounds12`); `Found12` says that clusters and FATs within these
bounds make a sound file system; and `Layout12` that the limit keeps them there.

### 4.5 FDISK

`FdiskAssumption` asks of a device that its sectors are on it, that what reads as a partition
table has entries with bytes for type and status, and that it has at least
`MIN_DEVICE_SIZE_IN_K`, which `partit.h` names although no code compares with it: only a device
of unknown size (0 sectors) is refused (`fdisk.c` 396). For a device of four or
fewer kilobytes the calculation of a file system would wrap. What the tables on a device say is free; they may point
anywhere, or in a circle. `MAX_PARTITIONS_TO_HANDLE` is any number.

`SafeInv` is the invariant under everything else. `SpaceAccounted` is a part of it, but needs two
more: `SpaceOK`, that a size which is offered automatically fits what is left with its table sector
(`Offer`), and `ListOK`, that a list made here has sizes for which there is a file system. `JobOK`
ties the registers of the writing loop, `nextDeviceSector` and the rest, to the list: the
table of partition `i` is at `Begin(partitions, i)`, the sum of what the partitions before it take. With it and
`RoomForAll` (a file system lies inside what is formatted) `FatTouches` shows that each write
stays inside its partition.

`ContentsOK` is the second invariant: while the list is written, the partitions before the
current one are whole (`There`), and the current one is as far as its stage says (`Laid`). It is
inductive because writes only touch sectors behind the partitions that are whole
(`EarlierAllStay`); it says nothing of what was on the device before, so it does not matter what an
earlier write that failed has left.

What `_GPART` finds is shown in `ListFound`: for a list that is wholly on the device the chain of
tables from the extended entry is `Begin(ps, e + 1)` for each partition `e + 1`, and ends there
(`ListChain`). For a sum (`Used`) or a chain (`ChainedSectors`), which are recursive functions, the proofs show a
function that satisfies the recursion, and that two such functions do not
differ at a least argument (`OneSum`, `OneChain`).

`ListTruthful` is about the active flags that are turned over in the tables on the device. Each
entry of the list found has a spot there, a table and a place in it, and the proof is that turning
over the flag in one spot changes what is found in just that entry (`TruthfulToggle`). It needs
that no two entries have the same spot: `OwnTables` says that the search meets no
table twice, and the property excepts devices whose tables point in a circle, where one
flag belongs to two entries of the list.

### 4.6 The tools

The theorems are about `AllSpec`, the program that was started being any of them.
`AllSteps` says once what a step of `Programs` is for each program: a step of its own or a
stutter. So each tool has three lemmas, its invariant at first (`DrvropInit`), after a step
(`DrvropStep`), and what it implies (`DrvropSafe`), and its theorem combines them.
XCOPY's are proved in `XcopyProofs` and used through an instance of it, `XP!`.

* **DRVROP** (`DrInv`): each segment is free, has a driver, was lost by CTRL-STOP, or is the
  one at work, and no two of these (`DrSegmentsInv`); page 1 is switched only around the
  copy (`DrPageInv`), which is why what is copied gets into the driver's segment and not
  into the program's own; a drive mapped has a driver with such a device.
* **DISKCOPY** (`DcInv`): `Cardinality(WrongSectors) <= e_count`, the sectors below `sect` that
  differ are no more than the errors counted. A pass adds a batch of sectors, and an error
  makes at most one of them wrong. While the user inserts what was asked for, the disk in the drive follows from
  the place in the program (`DcDisksInv`).
* **EPTCFT** (`EpInv`): the tables from the current one on are unchanged and those before
  have the wanted type; the buffer may be a stale one after an error, but only for a run
  that is `blind`. **VSFT** (`VsInv`): the excess of sectors is computed once and
  subtracted once; the division by the sectors per cluster is a lemma of its own.
* **FDISK's devices** (`FdevInv`): what is listed is in the order of the driver's numbers, and
  the next one to ask for lies above them all, unless a byte has `wrapped`
  (`FdListInv`). Whether it has or not, the array, which is never cleared, says of each device
  listed what the driver answers (`FdFoundInv`, `FdShownInv` with `AsAnswered`), since a
  device is asked again when it is listed; and the page shown has as selectable those that are usable.
* **EMUFILE** (`EmInv`): the table written so far has the images of the files before `from`,
  each at the sum of the sizes of the images before it in its file and with its size; the
  file to mount is one of them.
* **MKNEXROM** (`MkInv`): for every step there is a closed form of the file, its length (`MkAppended`,
  `MkBegun`, `MkWhole`) and what each cell has (`MkCells0` to `MkCells6`, each the one before with the
  cells of one step laid over it). The lemmas show that each of the loops over banks, which end by comparing
  positions with the length of the file, reaches just the banks that its form says.
* **XCOPY** (`XcAllInv`): `XcDepthInv` shows that it ends: the levels of the recursion go down by one
  name each, and where the target lies deeper than the source the program never goes
  into the target, because the name it would go in by was made after the search, or is
  refused. `XcPathInv` and `XcCopyInv` say where on the levels the file at work is.
  `CopiesKept` is about what is *not* going to be copied any more: `Settled(p, d)` says
  that the levels still to come will not put anything at `p`, for the different positions of
  source and target to each other, and `XcKeptInv` that the data of every file copied
  is at such a place. For `CleanExit` it is enough that no handle
  is open while a level is entered or goes through its subdirectories (`XcPathInv`).

The assumptions say what command lines, disks and files are. Those that are more than a type:
`DrvropAssumption` has the program's own segment outside those that may be
allocated; `DiskcopyAssumption` a disk of at least one sector; `EmAssumption` that a
file has clusters for all its bytes and that device numbers begin with 1; `XcAssumption` two
handles, since a copy needs two open files, and the depth of the tree limited; `VsftAssumption` a boot
sector with at least one sector per cluster.

### 4.7 How induction is done, and what is left to TLC

A walk along a chain is a recursive function, and what it returns needs induction on its length. The
provers cannot use an induction rule over a formula, so `ProofLemmas` has a least number
principle instead: a nonempty set of natural numbers has a least element (`LeastNatural`), which
follows from the strict subset order on a finite set being well-founded
(`SmallestSubset`). A proof takes the set of places where the claim fails and its least
element, and shows that the place before it fails too. `ProofLemmas` also has what the
chain proofs share about `BufferOrder`: moving one element, or all of a set, keeps a list of
all buffers one.

Only model-checked:

* liveness (`LoopEnds`, `RequestEnds`), which the provers cannot reach at all;
* `CopyComplete`, that XCOPY, when it ends by itself with `/S /H` and the trees are apart, has
  a copy of each file that the pattern matches: which those are is defined by walking the source tree, so the proof is an induction over trees that
  change under the walk;
* `SettingsKept`, that EMUFILE and NEXBOOT keep each other's settings: the checksum of the
  block is a fold over a set of positions, and the provers know nothing of the order in which
  a fold takes them;
* `ProgramsTypeOK`, for the same block: the other programs' types are part of their invariants.

## 5. What is not modelled

`PROJECT.json` lists every component with its reason. In short: the MSX-DOS 1
kernel and Disk BASIC are systems of their own; start-up, console, the
command interpreter and the tools in assembler are input and output with little state of their
own. Of the programs in C, XDIR, DRVTEST, DSKCHK and the small tools only read and
print, or set one switch by one call. `bank5/mkdosfs.c` is the program of another
system from which FDISK's calculation was taken; the makefile does not build it. Of FDISK, the screens
and the formatting of floppy disks by the driver are left out. Inside the modelled parts,
memory segments and slots (but for DRVROP), the translation of error codes and the text of
messages are left out.

Within what is modelled, some steps are coarser than the code, or a rare case is left out; the
comment at each definition says so:

* `BufferPool!AbsoluteWrite` has one flush where `rw.mac` has a second one after the transfer (148);
* `FatAlloc!EndChain` takes the link, the cleaning of the disk and the hint as one step;
* `Fdisk!FoundUnder` lists a logical partition that is itself of an extended type, where the
  code begins again with the first one (`fdisk.c` 810), and takes a first sector of 0 for none;
* `Eptcft!F_GPART` leaves out the kernel's own read errors, which end the program;
* `FdiskDevices`: no driver answers that its last device is number 0;
* `Emufile`: the data file itself is never among the images that a pattern matches;
* `Mknexrom`: an empty mapper file is not told from none;
* `Vsft`: no volume has so many clusters that `_ALLOC` wraps in 16 bits;
* `Xcopy!set_time` sets attributes and time in one step, and the archive attribute that a write sets is
  not followed;
* `BootSettings!PsSave`: a save writes all its sectors or none.

## 6. Plan

Modules still to write, the most important first:

1. **MediaCheck**: `VAL_FIB`, `VAL_UPB`, `VAL_SAME` (`val.mac`) with timeouts, volume-ids and
   the dialogue about a wrong disk. Abstract specification: data written for one
   disk only reaches that disk. To look at first: `VAL_SAME` rebuilds the unit
   descriptor (366-368, 408) before it compares the volume-id in it (403-417), and
   `F_CLOSE` drops the error of an entry it could not find (`handles.mac` 275).
2. **FileRW**: positions, the cached cluster of a FAB and the loop over contiguous
   clusters (`files.mac`), on top of the chains of `FatAlloc`; reads return what was
   last written, also through two FABs of one file.
3. **DirEntries**: search, creation, growth of directories, `F_MOVE`, `ZAP_CD`, with the
   removal of a directory that is some process' current one; composes with
   `Handles`, whose directory it refines.
4. **KernelMemory**: `ALL_P2` and `FR_P2` (`kinit.mac`), first fit with coalescing; blocks
   tile the memory. `F_JOIN` relies on freed blocks keeping their contents.
5. **Segments** (`bank4/seg.mac`) and **DriveMapping** (`bank4/partit.mac`).
6. Arithmetic as operators: sectors and offsets of FAT entries (`FIND_FAT_ENTRY`,
   FAT12 entries across sectors, 256 sectors per FAT) against a reference over
   bounded inputs.

Theorems still to prove: `SettingsKept`, with the checksum written as a recursive function in
the order of the loop and a lemma on changing one byte of the sum; `CopyComplete`, by the
least path of the source that has no copy.
