--------------------------------- MODULE Drvrop ---------------------------------
(***************************************************************************)
(* DRVROP (tools/C/drvrop.c) run again and again: it loads a driver into a *)
(* segment of RAM that it allocates for the system, so that the segment    *)
(* outlives the program, and registers it; or it shuts a driver down and   *)
(* frees its segment.  To fill the segment it is switched into page 1 of   *)
(* the program's own memory for a moment.  The kernel's register of        *)
(* drivers and its mapper support are as the program sees them.            *)
(***************************************************************************)
EXTENDS Integers, Sequences, FiniteSets, FiniteSetsExt

CONSTANTS Segments,   \* <<slot, segment>> of each mapper segment not in use at first
          Primary,    \* slot of the primary mapper
          HomePage1,  \* the program's own segment in page 1
          Requests,   \* [op, file, data, autoMap] or [op, target]: command lines
          Files,      \* by name: [opens, bytes, signature, devices, max]; devices are
                      \* [block, sector512]
          Letters,    \* drive letters in order
          MAX_FILE_SIZE, MAX_INIT_DATA, DEFAULT_MAX_DEVICE_NUMBER,
          MaxRequests \* bound: runs of the program

VARIABLES free,      \* segments the mapper support has to give
          drivers,   \* registered drivers: segment -> file
          content,   \* what was loaded in a segment: [data, file, bytes]
          drives,    \* by letter: [at, device], or NoDrive
          page1,     \* the segment in page 1 of the program
          request, alloc, savedP1Segment,
          loaded,    \* [file, bytes]: the buffer at 8000h
          foundDevice,
          at, count,
          lost       \* history: segments a program that was aborted had allocated

vars == <<free, drivers, content, drives, page1, request, alloc, savedP1Segment,
          loaded, foundDevice, at, count, lost>>
system == <<free, drivers, drives>>
program == <<request, alloc, savedP1Segment, loaded, foundDevice>>

NoSegment == <<-1, -1>>
NoDrive == [at |-> NoSegment, device |-> 0]
Blank == [data |-> <<>>, file |-> "", bytes |-> 0]
NoBuffer == [file |-> "", bytes |-> 0]
TheFile == Files[request.file]

---------------------------------------------------------------------------
(* The command line. *)

\* A value that does not fit in a byte is two of them, the lowest first, as long as
\* there is room; those from -256 on count as one.
BytesOf(value) ==
    IF value \in -256..255 THEN <<value % 256>> ELSE <<value % 256, (value \div 256) % 256>>

InitDataAt[i \in 0..Len(request.data)] ==
    IF i = 0 THEN <<>>
    ELSE LET both == InitDataAt[i - 1] \o BytesOf(request.data[i])
         IN SubSeq(both, 1, IF Len(both) <= MAX_INIT_DATA THEN Len(both) ELSE MAX_INIT_DATA)

ParseInitData == InitDataAt[Len(request.data)]

Start(r) ==
    /\ at = "idle" /\ count < MaxRequests
    /\ request' = r /\ count' = count + 1
    /\ alloc' = NoSegment /\ savedP1Segment' = NoSegment
    /\ loaded' = NoBuffer /\ foundDevice' = 0
    /\ at' = IF r.op = "i" THEN "allocate" ELSE "shutdown"
    /\ UNCHANGED <<system, content, page1, lost>>

---------------------------------------------------------------------------
(* Installation. *)

\* A segment of another mapper than the primary one, if there is any.
Allocate(segment) ==
    /\ at = "allocate"
    /\ IF free = {} THEN at' = "idle" /\ UNCHANGED <<free, alloc>>
       ELSE /\ segment \in free
            /\ segment[1] = Primary => \A other \in free : other[1] = Primary
            /\ free' = free \ {segment} /\ alloc' = segment
            /\ at' = "open"
    /\ UNCHANGED <<drivers, drives, content, page1, request, savedP1Segment, loaded, foundDevice, count, lost>>

FreeAllocatedSegment(segment) == free' = free \cup {segment}

\* Mutant: the segment stays allocated.
OpenFile_Keeps ==
    /\ at = "open"
    /\ IF TheFile.opens THEN at' = "read" ELSE at' = "idle"
    /\ UNCHANGED <<system, content, page1, program, count, lost>>

OpenFile ==
    /\ at = "open"
    /\ IF TheFile.opens THEN at' = "read" /\ UNCHANGED free
       ELSE at' = "idle" /\ FreeAllocatedSegment(alloc)
    /\ UNCHANGED <<drivers, drives, content, page1, program, count, lost>>

\* What does not fit in the segment is not read.
ReadFile ==
    /\ at = "read"
    /\ \/ /\ TheFile.bytes > 0
          /\ loaded' = [file |-> request.file,
                        bytes |-> IF TheFile.bytes > MAX_FILE_SIZE THEN MAX_FILE_SIZE ELSE TheFile.bytes]
          /\ at' = "switch" /\ UNCHANGED free
       \/ at' = "idle" /\ FreeAllocatedSegment(alloc) /\ UNCHANGED loaded
    /\ UNCHANGED <<drivers, drives, content, page1, request, alloc, savedP1Segment, foundDevice, count, lost>>

SwitchPage1 ==
    /\ at = "switch" /\ at' = "copy"
    /\ savedP1Segment' = page1 /\ page1' = alloc
    /\ UNCHANGED <<system, content, request, alloc, loaded, foundDevice, count, lost>>

\* The copy goes to whatever is in page 1.
CopyDriver ==
    /\ at = "copy" /\ at' = "restore"
    /\ content' = [content EXCEPT ![page1] =
                     [data |-> ParseInitData, file |-> loaded.file, bytes |-> loaded.bytes]]
    /\ UNCHANGED <<system, page1, program, count, lost>>

\* The slot is the one of the RAM (RAMAD1), that of the primary mapper.
RestorePage1 ==
    /\ at = "restore" /\ at' = "init"
    /\ page1' = <<Primary, savedP1Segment[2]>>
    /\ UNCHANGED <<system, content, program, count, lost>>

\* _DRVRO refuses a segment without a driver, and the driver may report an error.
InitDriver ==
    /\ at = "init"
    /\ \/ /\ TheFile.signature
          /\ drivers' = [s \in DOMAIN drivers \cup {alloc} |->
                           IF s = alloc THEN content[alloc].file ELSE drivers[s]]
          /\ at' = IF request.autoMap THEN "devices" ELSE "idle"
          /\ UNCHANGED free
       \/ at' = "idle" /\ FreeAllocatedSegment(alloc) /\ UNCHANGED drivers
    /\ UNCHANGED <<drives, content, page1, program, count, lost>>

\* DoAutoMap: the first block device with sectors of 512 bytes, to the first free
\* letter.  A driver that does not tell how many devices it has, or tells 0, is asked
\* for the default number; one that cannot be asked gets no drive.
MaxDevice == IF TheFile.max = 0 THEN DEFAULT_MAX_DEVICE_NUMBER ELSE TheFile.max

Suitable == {d \in DOMAIN TheFile.devices :
               d <= MaxDevice /\ TheFile.devices[d].block /\ TheFile.devices[d].sector512}

FindDevice ==
    /\ at = "devices"
    /\ IF Suitable = {} THEN at' = "idle" /\ UNCHANGED foundDevice
       ELSE foundDevice' = Min(Suitable) /\ at' = "map"
    /\ UNCHANGED <<system, content, page1, request, alloc, savedP1Segment, loaded, count, lost>>

FreeLetters == {l \in DOMAIN Letters : drives[Letters[l]] = NoDrive}

MapDrive ==
    /\ at = "map" /\ at' = "idle"
    /\ \/ /\ FreeLetters # {}
          /\ drives' = [drives EXCEPT ![Letters[Min(FreeLetters)]] =
                          [at |-> alloc, device |-> foundDevice]]
       \/ UNCHANGED drives
    /\ UNCHANGED <<free, drivers, content, page1, program, count, lost>>

---------------------------------------------------------------------------
(* Removal. *)

\* _DRVRO unmaps the drives of the driver; it knows no other error than that there
\* is no such driver.
ShutdownDriver ==
    /\ at = "shutdown"
    /\ IF request.target \in DOMAIN drivers
       THEN /\ drivers' = [s \in DOMAIN drivers \ {request.target} |-> drivers[s]]
            /\ drives' = [l \in DOMAIN drives |->
                            IF drives[l].at = request.target THEN NoDrive ELSE drives[l]]
            /\ alloc' = request.target /\ at' = "free"
       ELSE at' = "idle" /\ UNCHANGED <<drivers, drives, alloc>>
    /\ UNCHANGED <<free, content, page1, request, savedP1Segment, loaded, foundDevice, count, lost>>

FreeSegment ==
    /\ at = "free" /\ at' = "idle"
    /\ FreeAllocatedSegment(alloc)
    /\ UNCHANGED <<drivers, drives, content, page1, program, count, lost>>

\* CTRL-STOP, or a disk error that the user aborts, in a system call: there is no
\* abort routine, and a segment of the system is not freed at the end of a program.
Abort ==
    /\ at \in {"open", "read", "devices", "map"} /\ at' = "idle"
    /\ lost' = IF alloc \in DOMAIN drivers THEN lost ELSE lost \cup {alloc}
    /\ UNCHANGED <<system, content, page1, program, count>>

Ended == at = "idle" /\ count = MaxRequests /\ UNCHANGED vars

Init ==
    /\ free = Segments /\ drivers = [s \in {} |-> ""]
    /\ content = [s \in Segments \cup {HomePage1} |-> Blank]
    /\ drives = [l \in {Letters[i] : i \in DOMAIN Letters} |-> NoDrive]
    /\ page1 = HomePage1
    /\ request = CHOOSE r \in Requests : TRUE
    /\ alloc = NoSegment /\ savedP1Segment = NoSegment /\ loaded = NoBuffer
    /\ foundDevice = 0 /\ at = "idle" /\ count = 0 /\ lost = {}

Next ==
    \/ \E r \in Requests : Start(r)
    \/ \E s \in Segments : Allocate(s)
    \/ OpenFile \/ ReadFile \/ SwitchPage1 \/ CopyDriver \/ RestorePage1 \/ InitDriver
    \/ FindDevice \/ MapDrive
    \/ ShutdownDriver \/ FreeSegment
    \/ Abort
    \/ Ended

Spec == Init /\ [][Next]_vars

---------------------------------------------------------------------------
(* Properties. *)

TypeOK ==
    /\ free \subseteq Segments /\ DOMAIN drivers \subseteq Segments
    /\ alloc \in Segments \cup {NoSegment} /\ page1 \in Segments \cup {HomePage1}
    /\ count \in 0..MaxRequests

\* Between two runs of the program every segment is either free or that of exactly
\* one registered driver, whose file it still holds (only as much of it as a segment
\* takes) behind the data of the command line; the drives lead to registered
\* drivers; and the program's own memory is back in page 1, never written to.  Not
\* so, and stated: a run that is aborted with a disk error loses its segment
\* (drvrop.c 287-492).
SegmentsOwned ==
    /\ content[HomePage1] = Blank
    /\ free \cap DOMAIN drivers = {}
    /\ at = "idle" =>
         /\ page1 = HomePage1
         /\ Segments = free \cup DOMAIN drivers \cup lost /\ lost \cap free = {}
         /\ \A s \in DOMAIN drivers :
              /\ content[s].file = drivers[s] /\ content[s].bytes \in 1..MAX_FILE_SIZE
              /\ Len(content[s].data) <= MAX_INIT_DATA
         /\ \A l \in DOMAIN drives :
              drives[l] # NoDrive =>
                /\ drives[l].at \in DOMAIN drivers
                /\ Files[drivers[drives[l].at]].devices[drives[l].device].block

=============================================================================
