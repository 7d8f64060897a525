------------------------------ MODULE FatCopies ------------------------------
(***************************************************************************)
(* The copies of the FAT and the dirty disk flag (kernel/bank2/fat.mac     *)
(* DIRTY_DISK and CLEAN_DISK, buf.mac BF_FAT_SECTOR and BF_FLUSH).         *)
(*                                                                         *)
(* Deleting a file freezes the last copy of the FAT, so that UNDEL finds   *)
(* the chains of the deleted files in it; the flag in the boot sector says *)
(* that the last copy is stale.  The next allocation of disk space brings  *)
(* the last copy up to date again.                                         *)
(*                                                                         *)
(* A FAT sector holds the one thing the properties tell apart: the chain   *)
(* its clusters belong to, 0 if they are free.  One action is one sector   *)
(* brought into a buffer, changed or written, because the computer may be  *)
(* switched off, or the user may abort, between any two of them.  Which    *)
(* buffer is re-used next is left open, but for the boot sector's: it is   *)
(* put first, so no FAT sector is written to make room, or by a flush,     *)
(* while it is dirty.                                                      *)
(***************************************************************************)
EXTENDS Naturals, FiniteSets

CONSTANTS UD_NUMBER_OF_FATS,
          UD_SECTORS_PER_FAT,
          Owners,        \* cluster chains
          UF_DBD,        \* does a Nextor driver control the unit?
          Rechecks,      \* can the driver answer "not sure" to a media check?
          None,          \* not buffered
          MaxTorn,       \* bound: sectors with a write that fails on some copies
          MaxAborts      \* bound: aborts and resets

ASSUME CopiesAssumption ==
    /\ UD_NUMBER_OF_FATS \in Nat \ {0} /\ UD_SECTORS_PER_FAT \in Nat \ {0}
    /\ 0 \notin Owners
    /\ None \notin [data : Owners \cup {0}, dirty : BOOLEAN, copies : 1..UD_NUMBER_OF_FATS]
    /\ None \notin [flag : {0, 1}, dirty : BOOLEAN]
    /\ UF_DBD \in BOOLEAN /\ Rechecks \in BOOLEAN
    /\ MaxTorn \in Nat /\ MaxAborts \in Nat

VARIABLES copy,     \* the copies of the FAT on the disk
          boot,     \* the dirty disk flag in the boot sector on the disk
          buf,      \* the buffered FAT sectors: contents, dirty, BD_NUMBER_OF_COPIES
          bootbuf,  \* the buffered boot sector: dirty disk flag, dirty
          UD_DIRTY_DISK_FLAG,
          pc,       \* what the running routine does next
          todo,     \* the sector DIRTY_DISK or CLEAN_DISK does next
          taken,    \* sectors changed by an allocation that is not finished
          current,  \* history: the contents last given to each sector
          snapshot, \* history: the FAT when the disk was last made dirty
          kept,     \* history: sectors of the snapshot CLEAN_DISK has not reached
          torn,     \* history: sectors some copies of which were not written
          agreed,   \* history: no step rebuilt or kept a unit descriptor whose flag
                    \* is not that of the boot sector
          aborts    \* history: aborts and resets

vars == <<copy, boot, buf, bootbuf, UD_DIRTY_DISK_FLAG, pc, todo, taken,
          current, snapshot, kept, torn, agreed, aborts>>

N == UD_NUMBER_OF_FATS
S == 1..UD_SECTORS_PER_FAT
Contents == Owners \cup {0}
Last == N

disk == <<copy, torn>>
bootsector == <<boot, bootbuf>>
routine == <<pc, todo, taken>>
promise == <<snapshot, kept>>
log == <<agreed, aborts>>

TypeOK == /\ copy \in [1..N -> [S -> Contents]] /\ boot \in {0, 1}
          /\ \A s \in S : buf[s] # None =>
                buf[s] \in [data : Contents, dirty : BOOLEAN, copies : 1..N]
          /\ bootbuf # None => bootbuf \in [flag : {0, 1}, dirty : BOOLEAN]
          /\ UD_DIRTY_DISK_FLAG \in {0, 1}
          /\ pc \in {"idle", "alloc", "full", "dirtying", "mark", "cleaning", "last", "unmark"}
          /\ todo \in S /\ taken \subseteq S
          /\ current \in [S -> Contents] /\ snapshot \in [S -> Contents]
          /\ kept \subseteq S /\ torn \subseteq S
          /\ agreed \in BOOLEAN /\ aborts \in Nat

Init == /\ current \in [S -> Contents] /\ snapshot = current
        /\ copy = [k \in 1..N |-> current] /\ boot = 0
        /\ buf = [s \in S |-> None] /\ bootbuf = None
        /\ UD_DIRTY_DISK_FLAG = 0
        /\ pc = "idle" /\ todo = 1 /\ taken = {}
        /\ kept = {} /\ torn = {} /\ agreed = TRUE /\ aborts = 0

-----------------------------------------------------------------------------
(* Sector buffers. *)

\* How many copies BF_FAT_SECTOR tries to read, and has BF_FLUSH write.
READ_COPIES == IF UD_DIRTY_DISK_FLAG = 0 \/ N = 1 THEN N ELSE N - 1

\* A missing sector is read from the first copy that can be read.
Fetched(s) == {[data |-> copy[k][s], dirty |-> FALSE, copies |-> READ_COPIES] :
                   k \in 1..READ_COPIES}

\* The buffers BF_FAT_SECTOR may return with: the one there is, or a new one.
BF_FAT_SECTOR(s) == IF buf[s] = None THEN Fetched(s) ELSE {buf[s]}

\* Copies ks of s receive d; an error is reported only if no copy got it.
WriteCopies(s, d, ks) == \E ok \in SUBSET ks \ {{}} :
    /\ copy' = [k \in 1..N |-> IF k \in ok THEN [copy[k] EXCEPT ![s] = d] ELSE copy[k]]
    /\ torn' = IF ok = ks THEN torn ELSE torn \cup {s}
    /\ ok # ks => Cardinality(torn') <= MaxTorn

BF_FLUSH(s, b) == IF b.dirty THEN WriteCopies(s, b.data, 1..b.copies)
                  ELSE UNCHANGED disk

\* Mutant: the boot sector is written in its turn.
FlushFat_AnyOrder == \E s \in S :
    /\ buf[s] # None /\ pc # "last"
    /\ BF_FLUSH(s, buf[s])
    /\ \E b \in {None, [buf[s] EXCEPT !.dirty = FALSE]} : buf' = [buf EXCEPT ![s] = b]
    /\ UNCHANGED <<bootsector, UD_DIRTY_DISK_FLAG, routine, current, promise, log>>

\* A buffer that another sector takes over, or that FL_UD flushes.
FlushFat == \E s \in S :
    /\ buf[s] # None /\ pc # "last"
    /\ bootbuf # None => ~bootbuf.dirty
    /\ BF_FLUSH(s, buf[s])
    /\ \E b \in {None, [buf[s] EXCEPT !.dirty = FALSE]} : buf' = [buf EXCEPT ![s] = b]
    /\ UNCHANGED <<bootsector, UD_DIRTY_DISK_FLAG, routine, current, promise, log>>

FlushBoot ==
    /\ bootbuf # None /\ pc # "last"
    /\ boot' = IF bootbuf.dirty THEN bootbuf.flag ELSE boot
    /\ bootbuf' \in {None, [bootbuf EXCEPT !.dirty = FALSE]}
    /\ UNCHANGED <<disk, buf, UD_DIRTY_DISK_FLAG, routine, current, promise, log>>

-----------------------------------------------------------------------------
(* FAT_LOOKUP and FAT_?SET. *)

Load == \E s \in S, b \in UNION {Fetched(t) : t \in S} :
    /\ buf[s] = None /\ b \in Fetched(s) /\ pc \in {"idle", "alloc", "full"}
    /\ buf' = [buf EXCEPT ![s] = b]
    /\ UNCHANGED <<disk, bootsector, UD_DIRTY_DISK_FLAG, routine, current, promise, log>>

FAT_SET(s, d) == /\ buf' = [buf EXCEPT ![s].data = d, ![s].dirty = TRUE]
                 /\ current' = [current EXCEPT ![s] = d]
                 /\ UNCHANGED <<disk, bootsector, UD_DIRTY_DISK_FLAG, promise, log>>

\* FR_CHAIN, after DIRTY_DISK or without it (truncation).
Free == \E s \in S :
    /\ pc = "idle" /\ buf[s] # None /\ buf[s].data # 0
    /\ FAT_SET(s, 0)
    /\ UNCHANGED routine

\* AL_CLUSTERS finds a free cluster; the disk is not cleaned yet.
Take == \E s \in S, o \in Owners :
    /\ pc \in {"idle", "alloc"} /\ buf[s] # None /\ buf[s].data = 0
    /\ FAT_SET(s, o)
    /\ pc' = "alloc" /\ taken' = taken \cup {s}
    /\ UNCHANGED todo

\* disk_full: the clusters are given back and the disk stays as it is.
GiveBack == \E s \in taken :
    /\ pc \in {"alloc", "full"} /\ buf[s] # None
    /\ FAT_SET(s, 0)
    /\ taken' = taken \ {s} /\ pc' = IF taken = {s} THEN "idle" ELSE "full"
    /\ UNCHANGED todo

-----------------------------------------------------------------------------
(* DIRTY_DISK and CLEAN_DISK. *)

\* Mutant: one sector more than the FAT has.
NextSector_OneMore(again, then) ==
    IF todo > UD_SECTORS_PER_FAT THEN pc' = then /\ todo' = 1
                                 ELSE pc' = again /\ todo' = todo + 1

NextSector(again, then) ==
    IF todo = UD_SECTORS_PER_FAT THEN pc' = then /\ todo' = 1
                                 ELSE pc' = again /\ todo' = todo + 1

DIRTY_DISK ==
    /\ pc = "idle" /\ UD_DIRTY_DISK_FLAG = 0
    /\ pc' = IF N = 1 THEN "mark" ELSE "dirtying"
    /\ UNCHANGED <<disk, bootsector, buf, UD_DIRTY_DISK_FLAG, todo, taken, current, promise, log>>

\* Mutant: the buffers are forgotten without being flushed.
DirtySector_NoFlush ==
    /\ pc = "dirtying"
    /\ buf' = [buf EXCEPT ![todo] = None]
    /\ NextSector("dirtying", "mark")
    /\ UNCHANGED <<disk, bootsector, UD_DIRTY_DISK_FLAG, taken, current, promise, log>>

\* Mutant: the buffers are flushed and stay valid.
DirtySector_Keeps == LET s == todo IN
    /\ pc = "dirtying"
    /\ IF buf[s] = None THEN UNCHANGED <<disk, buf>>
       ELSE BF_FLUSH(s, buf[s]) /\ buf' = [buf EXCEPT ![s].dirty = FALSE]
    /\ NextSector("dirtying", "mark")
    /\ UNCHANGED <<bootsector, UD_DIRTY_DISK_FLAG, taken, current, promise, log>>

\* Every FAT sector that is buffered is flushed and forgotten.
DirtySector == LET s == todo IN
    /\ pc = "dirtying"
    /\ IF buf[s] = None THEN UNCHANGED disk ELSE BF_FLUSH(s, buf[s])
    /\ buf' = [buf EXCEPT ![s] = None]
    /\ NextSector("dirtying", "mark")
    /\ UNCHANGED <<bootsector, UD_DIRTY_DISK_FLAG, taken, current, promise, log>>

\* set_dirt_flag: in the buffered boot sector and in the unit descriptor.
SetDirtFlag(f) == /\ bootbuf' = [flag |-> f, dirty |-> TRUE]
                  /\ UD_DIRTY_DISK_FLAG' = f
                  /\ pc' = "idle"
                  /\ UNCHANGED <<disk, boot, buf, todo, current, log>>

MarkDirty == /\ pc = "mark"
             /\ SetDirtFlag(1)
             /\ snapshot' = current /\ kept' = IF N = 1 THEN {} ELSE S
             /\ UNCHANGED taken

\* Mutant: an allocation leaves the disk dirty.
CLEAN_DISK_Never ==
    /\ pc = "alloc" /\ pc' = "idle" /\ taken' = {}
    /\ UNCHANGED <<disk, bootsector, buf, UD_DIRTY_DISK_FLAG, todo, current, promise, log>>

\* At the end of an allocation, or called by FAT_ASET.
CLEAN_DISK ==
    /\ pc \in {"idle", "alloc"}
    /\ IF UD_DIRTY_DISK_FLAG = 0
       THEN pc = "alloc" /\ pc' = "idle" /\ taken' = {}
       ELSE pc' = (IF N = 1 THEN "unmark" ELSE "cleaning") /\ UNCHANGED taken
    /\ UNCHANGED <<disk, bootsector, buf, UD_DIRTY_DISK_FLAG, todo, current, promise, log>>

\* cleaning_disk: the sector is buffered and flushed to the copies in use ...
CleanSector == LET s == todo IN
    /\ pc = "cleaning"
    /\ \E b \in BF_FAT_SECTOR(s) :
          /\ BF_FLUSH(s, b)
          /\ buf' = [buf EXCEPT ![s] = [b EXCEPT !.dirty = FALSE]]
    /\ pc' = "last"
    /\ UNCHANGED <<bootsector, UD_DIRTY_DISK_FLAG, todo, taken, current, promise, log>>

\* ... then to the copy after them, and forgotten.
CleanLast == LET s == todo IN
    /\ pc = "last"
    /\ WriteCopies(s, buf[s].data, {buf[s].copies + 1})
    /\ buf' = [buf EXCEPT ![s] = None]
    /\ kept' = kept \ {s}
    /\ NextSector("cleaning", "unmark")
    /\ UNCHANGED <<bootsector, UD_DIRTY_DISK_FLAG, taken, current, snapshot, log>>

MarkClean == /\ pc = "unmark"
             /\ SetDirtFlag(0)
             /\ taken' = {} /\ kept' = {}
             /\ UNCHANGED snapshot

-----------------------------------------------------------------------------
(* Failures. *)

\* The snapshot is void where an allocation that was cut short is on the disk.
StillKept == {s \in kept : copy[1][s] \in {snapshot[s], 0}}

\* Everything buffered is lost.  A sector between the flush and the write of
\* its last copy is one whose copies were not all written.
Forget == /\ aborts < MaxAborts /\ aborts' = aborts + 1
          /\ buf' = [s \in S |-> None] /\ bootbuf' = None
          /\ pc' = "idle" /\ todo' = 1 /\ taken' = {}
          /\ current' = copy[1]
          /\ torn' = IF pc = "last" THEN torn \cup {todo} ELSE torn
          /\ UNCHANGED <<copy, boot, snapshot>>

\* A reset, or ABORT without a Nextor driver: the unit descriptor is built again.
Reset == /\ Forget
         /\ UD_DIRTY_DISK_FLAG' = boot
         /\ UNCHANGED agreed
         /\ kept' = IF boot = 0 THEN {} ELSE StillKept

\* ABORT with a Nextor driver: the unit descriptor stays.
Abort == /\ UF_DBD
         /\ Forget
         /\ UNCHANGED UD_DIRTY_DISK_FLAG
         /\ agreed' = IF UD_DIRTY_DISK_FLAG = boot THEN agreed ELSE FALSE
         /\ kept' = StillKept

\* VAL_SAME, before any transfer once the media check has timed out: the unit
\* descriptor is built again from the same disk although buffers are dirty.
VAL_SAME ==
    /\ Rechecks
    /\ UD_DIRTY_DISK_FLAG' = boot
    /\ agreed' = IF UD_DIRTY_DISK_FLAG = boot THEN agreed ELSE FALSE
    /\ UNCHANGED <<disk, bootsector, buf, routine, current, promise, aborts>>

Next == \/ FlushFat \/ FlushBoot \/ Load \/ Free \/ Take \/ GiveBack
        \/ DIRTY_DISK \/ DirtySector \/ MarkDirty
        \/ CLEAN_DISK \/ CleanSector \/ CleanLast \/ MarkClean
        \/ Reset \/ Abort \/ VAL_SAME

Spec == Init /\ [][Next]_vars

-----------------------------------------------------------------------------
(* Properties. *)

\* The sectors on which the user accepted, or a reset left, copies that differ,
\* and the one whose copies are being written.
Unsettled == torn \cup (IF pc = "last" THEN {todo} ELSE {})

\* A disk whose last copy of the FAT differs from the first says so in its boot
\* sector, wherever the computer is switched off (UNDEL.MAC 745-748: "if the
\* disk is not dirty then all the FAT copies are identical").
UndelSeesDirt == \A s \in S \ Unsettled : copy[Last][s] # copy[1][s] => boot = 1

\* "Enough information is retained on the disk to allow UNDEL ... only retained
\* until the next disk space allocation" (DOS2-FCS.TXT 1577-1582): the last copy
\* stays as it was, and the clusters freed since are given to nobody else.
UndelFindsFiles == \A s \in kept \ Unsettled :
    /\ copy[Last][s] = snapshot[s]
    /\ s \notin taken => current[s] \in {snapshot[s], 0}

\* Both hold at every moment, on every path through deletions, allocations, disk
\* full, write errors and resets on which the unit descriptor agrees with the disk.
DirtyFlagTruthful == agreed => UndelSeesDirt

SnapshotKept == agreed => UndelFindsFiles

\* Every copy that BF_FAT_SECTOR may read in place of another has the contents
\* last given to the sector, unless they are still in its buffer.
CopiesCurrent == agreed => \A s \in S \ Unsettled :
    IF buf[s] = None \/ ~buf[s].dirty
    THEN \A k \in 1..READ_COPIES : copy[k][s] = current[s]
    ELSE buf[s].data = current[s]

\* While the disk is dirty a buffered FAT sector is for all copies but the last
\* (buf.mac 683-685), so that what CLEAN_DISK writes goes to the last one.
AllButLast == UD_DIRTY_DISK_FLAG = 1 /\ N > 1 /\ agreed =>
    \A s \in S : buf[s] # None => buf[s].copies = N - 1
=============================================================================
