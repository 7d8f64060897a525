------------------------------- MODULE Diskcopy -------------------------------
(***************************************************************************)
(* DISKCOPY (tools/C/diskcopy.c): a floppy disk, or the image of one, is   *)
(* copied sector by sector to another drive, or in passes to another disk  *)
(* in the same drive, for which the user is told to swap the disks.  A     *)
(* disk error at a known sector is counted and ignored; any other, and     *)
(* CTRL-STOP, ends the program wherever it is (Abort).                     *)
(*                                                                         *)
(* A sector holds <<disk, number>>; a boot sector also tells what is in    *)
(* its volume id and its dirty disk flag.                                  *)
(***************************************************************************)
EXTENDS Integers, Sequences, FiniteSets, Functions

CONSTANTS Cases,       \* [line, current, nextor, dskchk, params]: the command line,
                       \* a sequence of drives and options, the current drive, the
                       \* flag found, and the parameters of the disks
          DriveInfo,   \* by drive: [status, host, readOnly, msxdos, floppy]
          NumSects,    \* sectors of a disk
          NumBuffers,  \* sectors in the copy buffer
          MaxErrors    \* bound: number of sector errors

Source == "source"     \* the disks
Target == "target"
Disks == {Source, Target}

VARIABLES request,  \* one of Cases
          sectors,  \* by disk and sector: what is there
          inserted, \* the disk in the only drive of a single-drive copy
          boot_sector, batch, \* the two buffers; the batch is a function
          sect,     \* first sector of the batch
          dskchk, o_chk, \* disk checking in the system, and as it was found
          error_routine, \* is defer_handler set?
          e_count,
          at,       \* where the program is
          obeyed,   \* history: did the user do as told?
          copied    \* history: what sectors was when this copy began

vars == <<request, sectors, inserted, boot_sector, batch, sect, dskchk, o_chk,
          error_routine, e_count, at, obeyed, copied>>
system == <<dskchk, o_chk, error_routine>>
buffers == <<boot_sector, batch, sect>>
user == <<request, inserted, obeyed>>

Unread == "unread"
NotRead == -1
NotNeeded == "none"
Boot(disk) == [of |-> disk, id |-> disk, dirty |-> disk]
Content(disk) == [s \in 0..NumSects - 1 |-> IF s = 0 THEN Boot(disk) ELSE <<disk, s>>]
Nothing == [s \in {} |-> Unread]
Fresh == [d \in Disks |-> Content(d)]
Sectors == 1..NumSects - 1
Batch(from) == {s \in Sectors : s >= from /\ s < from + NumBuffers}

----------------------------------------------------------------------------
(* The command line. *)

line == request.line
source_drive == line[1]
TargetGiven == Len(line) > 1 /\ line[2] \in DOMAIN DriveInfo
target_drive == IF TargetGiven THEN line[2] ELSE request.current
Flags == Range(SubSeq(line, IF TargetGiven THEN 3 ELSE 2, Len(line)))
single_mode == source_drive = target_drive

\* parse_flags: /S and /X, in any order and number.
cpboot_flag == "/S" \in Flags
prompt_flag == "/X" \notin Flags
parse_flags == Flags \subseteq {"/S", "/X"}

\* The disk that is read as the source or written as the target.
In(side) == IF single_mode THEN inserted ELSE side

---------------------------------------------------------------------------
(* Before the copy. *)

Info(drive) == DriveInfo[drive]
base_drive(drive) == IF Info(drive).status = 5 THEN Info(drive).host ELSE drive

\* May the drive be used at all?
check_drive_supported(drive) ==
    \/ request.nextor = 0
    \/ Info(drive).status = 5
    \/ request.nextor >= 3 /\ Info(drive).status = 3
    \/ /\ Info(drive).status = 1
       /\ Info(drive).msxdos \/ (request.nextor >= 3 /\ Info(drive).floppy)

Host(drive) ==
    IF request.nextor # 0 /\ Info(drive).status = 3 THEN Info(drive).host ELSE NotNeeded

\* An image cannot be copied from or to the drive that holds its file.
check_mounted_files ==
    LET source_host == Host(source_drive)
        target_host == Host(target_drive)
    IN /\ target_host # NotNeeded => ~Info(target_drive).readOnly
       /\ source_host # NotNeeded =>
            ~single_mode /\ base_drive(source_host) # base_drive(target_drive)
       /\ target_host # NotNeeded =>
            ~single_mode /\ base_drive(target_host) # base_drive(source_drive)

\* The command line and the drives are accepted, or the program ends.
get_drives ==
    /\ at = "start"
    /\ at' = IF /\ line # <<>> /\ line[1] \in DOMAIN DriveInfo /\ parse_flags
                /\ check_drive_supported(source_drive)
                /\ check_drive_supported(target_drive)
                /\ check_mounted_files
             THEN "dskchk" ELSE "end"
    /\ UNCHANGED <<user, sectors, buffers, system, e_count, copied>>

\* The flag is read before the abort routine that restores it is registered, and
\* set after.
set_chk ==
    /\ at = "dskchk"
    /\ o_chk' = dskchk /\ dskchk' = 255
    /\ at' = "copy"
    /\ UNCHANGED <<user, sectors, buffers, error_routine, e_count, copied>>

\* chk_drives and check_compatible: the parameters of both disks.
Compatible(params) == params.geometry /\ params.sector512
NoVolumeId(params) == params.sourceId /\ ~params.targetId

---------------------------------------------------------------------------
(* Sectors.  A batch is transferred with one system call. *)

\* The errors of one transfer: the sectors that fail, each counted and ignored.
Errors(bad) == e_count + Cardinality(bad) <= MaxErrors /\ e_count' = e_count + Cardinality(bad)

Readable(disk, s, bad) == IF s \in bad THEN Content(Unread)[s] ELSE sectors[disk][s]

\* Mutant: with /S the volume id is copied too.
patch_boot_NoId(boot) ==
    IF ~request.params.sourceId \/ cpboot_flag \/ boot.of = Unread THEN boot
    ELSE [boot EXCEPT !.dirty = Source]

\* patch_boot: the dirty flag of the source, or with /S the id of the target.
patch_boot(boot) ==
    IF ~request.params.sourceId THEN boot
    ELSE IF cpboot_flag THEN [boot EXCEPT !.id = Target]
    ELSE IF boot.of = Unread THEN boot ELSE [boot EXCEPT !.dirty = Source]

ReadBatch(disk, from, bad) ==
    /\ bad \subseteq Batch(from) /\ Errors(bad)
    /\ batch' = [s \in Batch(from) |-> Readable(disk, s, bad)]

Written(disk, content, bad) ==
    [sectors EXCEPT ![disk] =
        [s \in DOMAIN @ |-> IF s \in DOMAIN content \ bad THEN content[s] ELSE @[s]]]

\* One pass of the program begins, after the key that wait_for_ready waits for or,
\* in a single-drive copy, with the source in the drive.
Begin(disk) ==
    /\ at = "copy"
    /\ single_mode \/ disk = Source
    /\ inserted' = disk /\ obeyed' = (disk = Source)
    /\ e_count' = 0 /\ sect' = 1
    /\ copied' = sectors
    /\ boot_sector' = Content(Unread)[0] /\ batch' = Nothing
    /\ IF ~request.params.sector512 \/ (~single_mode /\
             (~Compatible(request.params) \/ request.params.samePhysical
               \/ NoVolumeId(request.params)))
       THEN at' = "error" /\ error_routine' = single_mode
       ELSE at' = "boot" /\ error_routine' = TRUE
    /\ UNCHANGED <<request, sectors, dskchk, o_chk>>

\* The boot sector is read first, that of the source (with /S) or of the target;
\* that of the target in the same drive only when the target is there.
ReadBoot(bad) ==
    /\ at = "boot" /\ bad \subseteq {0} /\ Errors(bad)
    /\ boot_sector' = IF cpboot_flag THEN Readable(In(Source), 0, bad)
                      ELSE IF single_mode THEN boot_sector
                      ELSE Readable(Target, 0, bad)
    /\ single_mode /\ ~cpboot_flag => bad = {}
    /\ at' = "read"
    /\ UNCHANGED <<user, sectors, batch, sect, system, copied>>

ReadSource(bad) ==
    /\ at = "read"
    /\ ReadBatch(In(Source), sect, bad)
    /\ at' = IF single_mode THEN "swap" ELSE IF sect = 1 THEN "writeboot" ELSE "write"
    /\ UNCHANGED <<user, sectors, boot_sector, sect, system, copied>>

\* "Insert the target disk": any disk may be in the drive when the key is pressed.
\* The first time its parameters are checked.
SwapToTarget(disk) ==
    /\ at = "swap"
    /\ inserted' = disk /\ obeyed' = (obeyed /\ disk = Target)
    /\ at' = IF sect > 1 THEN "write"
             ELSE IF ~Compatible(request.params) \/ NoVolumeId(request.params) THEN "error"
             ELSE "targetboot"
    /\ UNCHANGED <<request, sectors, buffers, system, e_count, copied>>

ReadTargetBoot(bad) ==
    /\ at = "targetboot" /\ bad \subseteq {0} /\ Errors(bad)
    /\ IF cpboot_flag THEN bad = {} /\ UNCHANGED boot_sector
       ELSE boot_sector' = Readable(inserted, 0, bad)
    /\ at' = "writeboot"
    /\ UNCHANGED <<user, sectors, batch, sect, system, copied>>

WriteBoot(bad) ==
    /\ at = "writeboot" /\ bad \subseteq {0} /\ Errors(bad)
    /\ sectors' = Written(In(Target), [s \in {0} |-> patch_boot(boot_sector)], bad)
    /\ at' = "write"
    /\ UNCHANGED <<user, buffers, system, copied>>

\* After the last batch the error routine is taken away again.
WriteTarget(bad) ==
    /\ at = "write" /\ bad \subseteq DOMAIN batch /\ Errors(bad)
    /\ sectors' = Written(In(Target), batch, bad)
    /\ sect' = sect + NumBuffers
    /\ IF sect' >= NumSects
       THEN at' = "finished" /\ error_routine' = FALSE
       ELSE at' = (IF single_mode THEN "swapback" ELSE "read") /\ UNCHANGED error_routine
    /\ UNCHANGED <<user, boot_sector, batch, dskchk, o_chk, copied>>

SwapToSource(disk) ==
    /\ at = "swapback"
    /\ inserted' = disk /\ obeyed' = (obeyed /\ disk = Source)
    /\ at' = "read"
    /\ UNCHANGED <<request, sectors, buffers, system, e_count, copied>>

\* "Copy another disk?", unless /X was given: other disks are in the drives then.
More ==
    /\ at = "finished" /\ prompt_flag
    /\ sectors' = Fresh
    /\ at' = "copy"
    /\ UNCHANGED <<user, buffers, system, e_count, copied>>

\* Mutant: the flag is only restored when disk checking was off.
Terminate_On ==
    /\ dskchk' = IF o_chk \in {NotRead, 0} THEN dskchk ELSE o_chk
    /\ error_routine' = FALSE
    /\ at' = "end"
    /\ UNCHANGED <<user, sectors, buffers, o_chk, e_count, copied>>

\* The end, normal or not: abort_handler restores the flag once it is registered,
\* and the system forgets the error routine.
Terminate ==
    /\ dskchk' = IF o_chk = NotRead THEN dskchk ELSE o_chk
    /\ error_routine' = FALSE
    /\ at' = "end"
    /\ UNCHANGED <<user, sectors, buffers, o_chk, e_count, copied>>

Finish == at \in {"finished", "error"} /\ Terminate

Abort == at \notin {"start", "finished", "error", "end"} /\ Terminate

Ended == at = "end" /\ UNCHANGED vars

Init ==
    /\ request \in Cases
    /\ sectors = Fresh /\ inserted = Source
    /\ boot_sector = Content(Unread)[0] /\ batch = Nothing /\ sect = 1
    /\ dskchk = request.dskchk /\ o_chk = NotRead /\ error_routine = FALSE
    /\ e_count = 0 /\ at = "start"
    /\ obeyed = TRUE /\ copied = Fresh

Next ==
    \/ get_drives
    \/ set_chk
    \/ \E disk \in Disks : Begin(disk) \/ SwapToTarget(disk) \/ SwapToSource(disk)
    \/ \E bad \in SUBSET (0..NumSects - 1) :
         \/ ReadBoot(bad) \/ ReadSource(bad) \/ ReadTargetBoot(bad)
         \/ WriteBoot(bad) \/ WriteTarget(bad)
    \/ More
    \/ Finish
    \/ Abort
    \/ Ended

Spec == Init /\ [][Next]_vars

---------------------------------------------------------------------------
(* Properties. *)

TypeOK ==
    /\ request \in Cases /\ inserted \in Disks
    /\ \A d \in Disks : DOMAIN sectors[d] = 0..NumSects - 1
    /\ DOMAIN batch \subseteq Sectors /\ sect \in 1..NumSects + NumBuffers
    /\ dskchk \in 0..255 /\ o_chk \in -1..255
    /\ {error_routine, obeyed} \subseteq BOOLEAN
    /\ e_count \in 0..MaxErrors

\* With the disks swapped as told, the source is never written to, and when the
\* copy is finished the target differs from it in no more sectors than errors were
\* reported: in several batches or passes, with and without /S, whose boot sector
\* keeps the volume id of the target, while the other keeps all of the target's
\* but the dirty flag (diskcopy.c 669-801).
CopyExact ==
    LET boot == IF cpboot_flag THEN Boot(Source) ELSE Boot(Target)
        patched == IF ~request.params.sourceId THEN boot
                   ELSE IF cpboot_flag THEN [boot EXCEPT !.id = Target]
                   ELSE [boot EXCEPT !.dirty = Source]
        wrong == {s \in Sectors : sectors[Target][s] # copied[Source][s]}
                   \cup (IF sectors[Target][0] # patched THEN {0} ELSE {})
    IN obeyed => /\ sectors[Source] = copied[Source]
                 /\ at = "finished" => Cardinality(wrong) <= e_count

\* Disk checking is off, and disk errors are counted, whenever sectors are read or
\* written, and both are as they were at the end, also when the drives are refused
\* or the program is stopped at any point (diskcopy.c 865-911, 981-1028).
SystemRestored ==
    /\ at \in {"read", "swap", "targetboot", "writeboot", "write", "swapback"} =>
           dskchk = 255 /\ error_routine
    /\ at \in {"copy", "finished", "end"} => ~error_routine
    /\ at = "end" => dskchk = request.dskchk

=============================================================================
