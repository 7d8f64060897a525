--------------------------- MODULE FatCopiesProofs ---------------------------
(* The copies of the FAT and the dirty disk flag, for every number of copies *)
(* and sectors, chains, write errors and aborts.  All that is claimed as     *)
(* long as the unit descriptor has not disagreed with the boot sector is     *)
(* proved with one invariant, Told.                                          *)
EXTENDS FatCopies, TLAPS

Buffer == [data : Contents, dirty : BOOLEAN, copies : 1..N]

\* The types, with what is held of buffers at any time.
Typed ==
  /\ TypeOK
  /\ buf = [s \in S |-> buf[s]]
  /\ pc = "last" => buf[todo] \in Buffer /\ ~buf[todo].dirty
  /\ bootbuf # None /\ ~bootbuf.dirty => bootbuf.flag = boot

\* The flag of the unit descriptor is the one in the boot sector, buffered or not.
Flags == UD_DIRTY_DISK_FLAG = IF bootbuf = None THEN boot ELSE bootbuf.flag

\* DIRTY_DISK runs on a clean disk and CLEAN_DISK on a dirty one; what they have
\* passed is not buffered any more.
Routines ==
  /\ pc \notin {"dirtying", "cleaning", "last"} => todo = 1
  /\ pc \in {"dirtying", "mark"} => UD_DIRTY_DISK_FLAG = 0
  /\ pc \in {"cleaning", "last", "unmark"} => UD_DIRTY_DISK_FLAG = 1
  /\ pc \in {"dirtying", "cleaning", "last"} => N > 1
  /\ pc \in {"dirtying", "cleaning", "last"} => \A s \in S : s < todo => buf[s] = None
  /\ pc \in {"mark", "unmark"} /\ N > 1 => \A s \in S : buf[s] = None

\* A buffer is for the copies that are in use now, and has what was last given
\* to the sector.
Buffered == \A s \in S : buf[s] # None =>
  /\ buf[s].copies = READ_COPIES
  /\ s \notin torn => buf[s].data = current[s]

\* The copies in use have it, unless it is still in the buffer.
Copied == \A s \in S \ torn : buf[s] = None \/ ~buf[s].dirty =>
  \A k \in 1..READ_COPIES : copy[k][s] = current[s]

\* Only the last copy differs, and only on a disk that is dirty and says so.
Alike == \A s \in S \ torn : \A k \in 1..N : copy[k][s] # copy[1][s] =>
  /\ k = Last
  /\ (pc = "last" /\ s = todo) \/ (boot = 1 /\ UD_DIRTY_DISK_FLAG = 1)

\* CLEAN_DISK has brought the last copy up to date as far as it has come.
Cleaned == \A s \in S \ torn :
  (pc \in {"cleaning", "last"} /\ s < todo) \/ (pc = "unmark" /\ N > 1) =>
      copy[Last][s] = current[s]

\* The snapshot is in the last copy.
Frozen == \A s \in kept :
  /\ UD_DIRTY_DISK_FLAG = 1 /\ N > 1
  /\ s \notin torn => copy[Last][s] = snapshot[s]
  /\ s \notin taken => current[s] \in {snapshot[s], 0}

Told == /\ Flags /\ Routines /\ Buffered /\ Copied
        /\ Alike /\ Cleaned /\ Frozen

IInv == Typed /\ (agreed => Told)

-----------------------------------------------------------------------------
(* What the operators of the model do. *)

\* What a write leaves: nothing but sector s on copies ks has changed, and unless
\* the user accepted an error those copies of it are d.
Written(s, d, ks) ==
  /\ copy' \in [1..N -> [S -> Contents]]
  /\ torn \subseteq torn' /\ torn' \subseteq torn \cup {s}
  /\ \A k \in 1..N, t \in S : k \notin ks \/ t # s => copy'[k][t] = copy[k][t]
  /\ s \notin torn' => \A k \in ks \cap (1..N) : copy'[k][s] = d

\* A write is what Written says of it (buf.mac BF_WRITE).
LEMMA WriteCopiesWrites ==
  ASSUME TypeOK, NEW s \in S, NEW d \in Contents, NEW ks, WriteCopies(s, d, ks)
  PROVE  Written(s, d, ks)
<1>1. PICK ok \in SUBSET ks \ {{}} :
        /\ copy' = [k \in 1..N |-> IF k \in ok THEN [copy[k] EXCEPT ![s] = d] ELSE copy[k]]
        /\ torn' = IF ok = ks THEN torn ELSE torn \cup {s}
  BY DEF WriteCopies
<1>2. copy \in [1..N -> [S -> Contents]]
  BY DEF TypeOK
<1>3. \A k \in 1..N : [copy[k] EXCEPT ![s] = d] \in [S -> Contents]
  BY <1>2
<1>4. \A k \in 1..N : copy'[k] = IF k \in ok THEN [copy[k] EXCEPT ![s] = d] ELSE copy[k]
  BY <1>1
<1>5. copy' \in [1..N -> [S -> Contents]]
  BY <1>1, <1>2, <1>3
<1>6. torn \subseteq torn' /\ torn' \subseteq torn \cup {s}
  BY <1>1
<1>7. \A k \in 1..N, t \in S : k \notin ks \/ t # s => copy'[k][t] = copy[k][t]
  BY <1>1, <1>2, <1>4
<1>8. s \notin torn' => \A k \in ks \cap (1..N) : copy'[k][s] = d
  BY <1>1, <1>2, <1>4
<1> QED
  BY <1>5, <1>6, <1>7, <1>8 DEF Written

\* A buffer is written to its copies if it is dirty, else nothing is.
LEMMA FlushWrites ==
  ASSUME TypeOK, NEW s \in S, NEW b \in Buffer, BF_FLUSH(s, b)
  PROVE  IF b.dirty THEN Written(s, b.data, 1..b.copies)
         ELSE copy' = copy /\ torn' = torn
<1>1. b.data \in Contents
  BY DEF Buffer
<1> QED
  BY <1>1, WriteCopiesWrites DEF BF_FLUSH, disk

\* DIRTY_DISK and CLEAN_DISK go from sector to sector.
LEMMA NextSectorGoesOn ==
  ASSUME todo \in S, NEW again, NEW then, NextSector(again, then)
  PROVE  /\ todo' \in S
         /\ \/ pc' = again /\ \A s \in S : s < todo' => s < todo \/ s = todo
            \/ pc' = then /\ todo' = 1 /\ \A s \in S : s < todo \/ s = todo
  BY CopiesAssumption DEF NextSector, S

\* BF_FAT_SECTOR reads all copies, or all but the last on a dirty disk.
LEMMA ReadCopies ==
  ASSUME TypeOK
  PROVE  /\ N \in Nat /\ N >= 1
         /\ READ_COPIES \in 1..N
         /\ 1 \in 1..READ_COPIES
         /\ READ_COPIES = N \/ (UD_DIRTY_DISK_FLAG = 1 /\ N > 1 /\ READ_COPIES = N - 1)
  BY CopiesAssumption DEF TypeOK, READ_COPIES, N

\* It never returns with the value that stands for no buffer.
LEMMA BufferThere == None \notin Buffer
  BY CopiesAssumption DEF Buffer, Contents, N

\* A sector is read as it is on a copy in use.
LEMMA FetchedThere ==
  ASSUME TypeOK, NEW s \in S, NEW b \in Fetched(s)
  PROVE  /\ b \in Buffer /\ b # None /\ ~b.dirty /\ b.copies = READ_COPIES
         /\ \E k \in 1..READ_COPIES : b.data = copy[k][s]
<1>1. PICK k \in 1..READ_COPIES : b = [data |-> copy[k][s], dirty |-> FALSE, copies |-> READ_COPIES]
  BY DEF Fetched
<1>2. k \in 1..N
  BY ReadCopies
<1>3. copy[k][s] \in Contents
  BY <1>2 DEF TypeOK
<1>4. b \in Buffer
  BY <1>1, <1>3, ReadCopies DEF Buffer
<1> QED
  BY <1>1, <1>4, BufferThere

-----------------------------------------------------------------------------
(* One lemma for each action: it keeps the invariant. *)

LEMMA FlushFatKeeps == IInv /\ FlushFat => IInv'
<1> SUFFICES ASSUME IInv, FlushFat PROVE IInv'
  OBVIOUS
<1>1. PICK s \in S :
        /\ buf[s] # None /\ pc # "last"
        /\ bootbuf # None => ~bootbuf.dirty
        /\ BF_FLUSH(s, buf[s])
        /\ \E b \in {None, [buf[s] EXCEPT !.dirty = FALSE]} : buf' = [buf EXCEPT ![s] = b]
        /\ UNCHANGED <<boot, bootbuf, UD_DIRTY_DISK_FLAG, pc, todo, taken, current,
                       snapshot, kept, agreed, aborts>>
  BY DEF FlushFat, bootsector, routine, promise, log
<1>2. TypeOK /\ Typed
  BY DEF IInv, Typed
<1>3. buf[s] \in Buffer
  BY <1>1, <1>2 DEF TypeOK, Buffer
<1>4. IF buf[s].dirty THEN Written(s, buf[s].data, 1..buf[s].copies)
      ELSE copy' = copy /\ torn' = torn
  BY <1>1, <1>2, <1>3, FlushWrites
<1>5. PICK b \in {None, [buf[s] EXCEPT !.dirty = FALSE]} : buf' = [buf EXCEPT ![s] = b]
  BY <1>1
<1>6. /\ \A u \in S \ {s} : buf'[u] = buf[u]
      /\ buf'[s] = b
      /\ buf' = [u \in S |-> buf'[u]]
  BY <1>2, <1>5 DEF Typed
<1>7. b = None \/ (b \in Buffer /\ ~b.dirty /\ b.copies = buf[s].copies /\ b.data = buf[s].data)
  BY <1>3, <1>5 DEF Buffer
<1>8. /\ copy' \in [1..N -> [S -> Contents]]
      /\ torn \subseteq torn' /\ torn' \subseteq torn \cup {s}
      /\ \A k \in 1..N, u \in S \ {s} : copy'[k][u] = copy[k][u]
  <2>1. CASE buf[s].dirty
    BY <1>4, <2>1 DEF Written
  <2>2. CASE ~buf[s].dirty
    BY <1>2, <1>4, <2>2 DEF TypeOK
  <2> QED
    BY <2>1, <2>2
<1>9. Typed'
  BY <1>1, <1>2, <1>6, <1>7, <1>8 DEF Typed, TypeOK, Buffer
<1>10. SUFFICES ASSUME agreed' PROVE Told'
  BY <1>9 DEF IInv
<1>11. Told
  BY <1>1, <1>10 DEF IInv
<1>12. READ_COPIES' = READ_COPIES
  BY <1>1 DEF READ_COPIES
<1>13. Flags' /\ Routines'
  BY <1>1, <1>6, <1>11 DEF Told, Flags, Routines
<1>14. Buffered'
  BY <1>1, <1>6, <1>7, <1>8, <1>11, <1>12 DEF Told, Buffered
<1>15. /\ buf[s].copies = READ_COPIES
       /\ s \notin torn' => buf[s].data = current[s]
  BY <1>1, <1>8, <1>11 DEF Told, Buffered
<1>16. Copied'
  <2> SUFFICES ASSUME NEW u \in S \ torn', buf'[u] = None \/ ~buf'[u].dirty,
                      NEW k \in 1..READ_COPIES
               PROVE  copy'[k][u] = current[u]
    BY <1>1, <1>12 DEF Copied
  <2>1. k \in 1..N
    BY <1>2, ReadCopies
  <2>2. CASE u # s
    BY <1>6, <1>8, <1>11, <2>1, <2>2 DEF Told, Copied
  <2>3. CASE u = s
    BY <1>4, <1>8, <1>11, <1>15, <2>1, <2>3 DEF Told, Copied, Written
  <2> QED
    BY <2>2, <2>3
<1>17. Alike'
  <2> SUFFICES ASSUME NEW u \in S \ torn', NEW k \in 1..N, copy'[k][u] # copy'[1][u]
               PROVE  /\ k = Last
                      /\ boot = 1 /\ UD_DIRTY_DISK_FLAG = 1
    BY <1>1 DEF Alike
  <2>1. 1 \in 1..N
    BY <1>2, ReadCopies
  <2>2. CASE u # s \/ ~buf[s].dirty
    <3>1. copy'[k][u] = copy[k][u] /\ copy'[1][u] = copy[1][u]
      BY <1>4, <1>8, <2>1, <2>2
    <3> QED
      BY <1>1, <1>8, <1>11, <3>1 DEF Told, Alike
  <2>3. CASE u = s /\ buf[s].dirty
    <3>1. k \notin 1..READ_COPIES
      BY <1>2, <1>4, <1>15, <2>1, <2>3, ReadCopies DEF Written
    <3>2. k = N /\ UD_DIRTY_DISK_FLAG = 1
      BY <1>2, <3>1, ReadCopies
    <3>3. boot = 1
      BY <1>1, <1>2, <1>11, <3>2 DEF Told, Flags, Typed
    <3> QED
      BY <3>2, <3>3 DEF Last
  <2> QED
    BY <2>2, <2>3
<1>18. Cleaned'
  <2>1. ~(pc \in {"cleaning", "last"} /\ s < todo) /\ ~(pc = "unmark" /\ N > 1)
    BY <1>1, <1>11 DEF Told, Routines
  <2>2. N \in 1..N
    BY <1>2, ReadCopies
  <2> QED
    BY <1>1, <1>8, <1>11, <2>1, <2>2 DEF Told, Cleaned, Last
<1>19. Frozen'
  <2>1. kept # {} => N \notin 1..READ_COPIES /\ N \in 1..N
    BY <1>2, <1>11, ReadCopies DEF Told, Frozen, READ_COPIES
  <2>2. \A u \in kept : copy'[N][u] = copy[N][u]
    BY <1>1, <1>2, <1>4, <1>15, <2>1 DEF Written, TypeOK
  <2> QED
    BY <1>1, <1>8, <1>11, <2>2 DEF Told, Frozen, Last
<1> QED
  BY <1>13, <1>14, <1>16, <1>17, <1>18, <1>19 DEF Told

LEMMA FlushBootKeeps == IInv /\ FlushBoot => IInv'
<1> SUFFICES ASSUME IInv, FlushBoot PROVE IInv'
  OBVIOUS
<1>1. /\ bootbuf # None /\ pc # "last"
      /\ boot' = IF bootbuf.dirty THEN bootbuf.flag ELSE boot
      /\ bootbuf' \in {None, [bootbuf EXCEPT !.dirty = FALSE]}
      /\ UNCHANGED <<copy, torn, buf, UD_DIRTY_DISK_FLAG, pc, todo, taken, current,
                     snapshot, kept, agreed, aborts>>
  BY DEF FlushBoot, disk, routine, promise, log
<1>2. TypeOK /\ Typed
  BY DEF IInv, Typed
<1>3. bootbuf \in [flag : {0, 1}, dirty : BOOLEAN] /\ boot' = bootbuf.flag
  BY <1>1, <1>2 DEF Typed, TypeOK
<1>4. bootbuf' # None =>
        bootbuf' \in [flag : {0, 1}, dirty : BOOLEAN] /\ bootbuf'.flag = bootbuf.flag
  BY <1>1, <1>3
<1>5. Typed'
  BY <1>1, <1>2, <1>3, <1>4 DEF Typed, TypeOK
<1>6. SUFFICES ASSUME agreed' PROVE Told'
  BY <1>5 DEF IInv
<1>7. Told
  BY <1>1, <1>6 DEF IInv
<1>8. boot' = UD_DIRTY_DISK_FLAG /\ Flags'
  BY <1>1, <1>3, <1>4, <1>7 DEF Told, Flags
<1>9. Alike'
  BY <1>1, <1>7, <1>8 DEF Told, Alike
<1> QED
  BY <1>1, <1>7, <1>8, <1>9 DEF Told, Routines, Buffered, Copied, Cleaned, Frozen, READ_COPIES

LEMMA LoadKeeps == IInv /\ Load => IInv'
<1> SUFFICES ASSUME IInv, Load PROVE IInv'
  OBVIOUS
<1>1. PICK s \in S, b \in UNION {Fetched(u) : u \in S} :
        /\ b \in Fetched(s) /\ buf[s] = None /\ pc \in {"idle", "alloc", "full"}
        /\ buf' = [buf EXCEPT ![s] = b]
        /\ UNCHANGED <<copy, torn, boot, bootbuf, UD_DIRTY_DISK_FLAG, pc, todo, taken,
                       current, snapshot, kept, agreed, aborts>>
  BY DEF Load, disk, bootsector, routine, promise, log
<1>2. TypeOK /\ Typed
  BY DEF IInv, Typed
<1>3. /\ b \in Buffer /\ b # None /\ ~b.dirty /\ b.copies = READ_COPIES
      /\ \E k \in 1..READ_COPIES : b.data = copy[k][s]
  BY <1>1, <1>2, FetchedThere
<1>4. /\ \A u \in S \ {s} : buf'[u] = buf[u]
      /\ buf'[s] = b
      /\ buf' = [u \in S |-> buf'[u]]
  BY <1>1, <1>2 DEF Typed
<1>5. Typed'
  BY <1>1, <1>2, <1>3, <1>4 DEF Typed, TypeOK, Buffer
<1>6. SUFFICES ASSUME agreed' PROVE Told'
  BY <1>5 DEF IInv
<1>7. Told
  BY <1>1, <1>6 DEF IInv
<1>8. READ_COPIES' = READ_COPIES
  BY <1>1 DEF READ_COPIES
<1>9. s \notin torn => b.data = current[s]
  BY <1>1, <1>3, <1>7 DEF Told, Copied
<1>10. Routines'
  BY <1>1, <1>7 DEF Told, Routines
<1>11. Buffered'
  BY <1>1, <1>3, <1>4, <1>7, <1>8, <1>9 DEF Told, Buffered
<1>12. Copied'
  BY <1>1, <1>4, <1>7, <1>8 DEF Told, Copied
<1> QED
  BY <1>1, <1>7, <1>10, <1>11, <1>12 DEF Told, Flags, Alike, Cleaned, Frozen

\* What FAT_SET leaves as it was, for the three actions that use it.
SetFrame ==
  UNCHANGED <<copy, torn, boot, bootbuf, UD_DIRTY_DISK_FLAG, snapshot, kept, agreed, aborts>>

\* FAT_SET changes the buffer and the contents of the sector together.
LEMMA FatSetBuffered ==
  ASSUME Typed, NEW s \in S, NEW d \in Contents, buf[s] # None, FAT_SET(s, d)
  PROVE  /\ SetFrame
         /\ buf' = [u \in S |-> buf'[u]]
         /\ \A u \in S \ {s} : buf'[u] = buf[u] /\ current'[u] = current[u]
         /\ buf'[s] \in Buffer /\ buf'[s].dirty /\ buf'[s].data = d
         /\ buf'[s].copies = buf[s].copies
         /\ current' \in [S -> Contents] /\ current'[s] = d
<1>1. /\ buf' = [buf EXCEPT ![s].data = d, ![s].dirty = TRUE]
      /\ current' = [current EXCEPT ![s] = d]
      /\ SetFrame
  BY DEF FAT_SET, SetFrame, disk, bootsector, promise, log
<1>2. buf[s] \in Buffer
  BY DEF Typed, TypeOK, Buffer
<1>3. /\ buf' = [u \in S |-> buf'[u]]
      /\ \A u \in S \ {s} : buf'[u] = buf[u]
      /\ buf'[s] = [[buf[s] EXCEPT !.data = d] EXCEPT !.dirty = TRUE]
  BY <1>1 DEF Typed
<1>4. /\ current' \in [S -> Contents] /\ current'[s] = d
      /\ \A u \in S \ {s} : current'[u] = current[u]
  BY <1>1 DEF Typed, TypeOK
<1>5. /\ buf'[s] \in Buffer /\ buf'[s].dirty /\ buf'[s].data = d
      /\ buf'[s].copies = buf[s].copies
  BY <1>2, <1>3 DEF Buffer
<1> QED
  BY <1>1, <1>3, <1>4, <1>5

\* What Free, Take and GiveBack have in common: the contents of a buffered sector
\* are changed outside of DIRTY_DISK and CLEAN_DISK.
LEMMA SetKeepsTyped ==
  ASSUME Typed, NEW s \in S, NEW d \in Contents, buf[s] # None, FAT_SET(s, d),
         pc' \in {"idle", "alloc", "full"}, todo' = todo, taken' \subseteq S
  PROVE  Typed'
<1>1. /\ SetFrame
      /\ buf' = [u \in S |-> buf'[u]]
      /\ \A u \in S \ {s} : buf'[u] = buf[u]
      /\ buf'[s] \in Buffer
      /\ current' \in [S -> Contents]
  BY FatSetBuffered
<1> QED
  BY <1>1 DEF Typed, TypeOK, Buffer, SetFrame

LEMMA SetKeepsTold ==
  ASSUME Typed, Told, NEW s \in S, NEW d \in Contents, buf[s] # None, FAT_SET(s, d),
         pc \in {"idle", "alloc", "full"}, pc' \in {"idle", "alloc", "full"}, todo' = todo,
         \/ taken' = taken \cup {s}
         \/ d = 0 /\ taken \ {s} \subseteq taken'
  PROVE  Told'
<1>1. /\ SetFrame
      /\ \A u \in S \ {s} : buf'[u] = buf[u] /\ current'[u] = current[u]
      /\ buf'[s] \in Buffer /\ buf'[s].dirty /\ buf'[s].data = d
      /\ buf'[s].copies = buf[s].copies
      /\ current'[s] = d
  BY FatSetBuffered
<1>2. READ_COPIES' = READ_COPIES
  BY <1>1 DEF READ_COPIES, SetFrame
<1>3. buf'[s] # None
  BY <1>1, BufferThere
<1>4. Flags' /\ Routines' /\ Alike' /\ Cleaned'
  BY <1>1 DEF Told, Flags, Routines, Alike, Cleaned, SetFrame
<1>5. Buffered'
  BY <1>1, <1>2 DEF Told, Buffered, SetFrame
<1>6. Copied'
  BY <1>1, <1>2, <1>3 DEF Told, Copied, SetFrame
<1>7. Frozen'
  <2> SUFFICES ASSUME NEW u \in kept, u \notin taken'
               PROVE  current'[u] \in {snapshot[u], 0}
    BY <1>1 DEF Told, Frozen, SetFrame
  <2>1. u \in S
    BY DEF Typed, TypeOK
  <2>2. CASE u = s
    BY <1>1, <2>2
  <2>3. CASE u # s
    BY <1>1, <2>1, <2>3 DEF Told, Frozen
  <2> QED
    BY <2>2, <2>3
<1> QED
  BY <1>4, <1>5, <1>6, <1>7 DEF Told

LEMMA FreeKeeps == IInv /\ Free => IInv'
<1> SUFFICES ASSUME IInv, Free PROVE IInv'
  OBVIOUS
<1>1. PICK s \in S :
        /\ pc = "idle" /\ buf[s] # None
        /\ FAT_SET(s, 0)
        /\ UNCHANGED <<pc, todo, taken>>
  BY DEF Free, routine
<1>2. Typed /\ taken \subseteq S /\ 0 \in Contents
  BY DEF IInv, Typed, TypeOK, Contents
<1>3. Typed'
  BY <1>1, <1>2, SetKeepsTyped
<1>4. agreed' = agreed
  BY <1>1 DEF FAT_SET, log
<1>5. Told => Told'
  BY <1>1, <1>2, SetKeepsTold
<1> QED
  BY <1>3, <1>4, <1>5 DEF IInv

LEMMA TakeKeeps == IInv /\ Take => IInv'
<1> SUFFICES ASSUME IInv, Take PROVE IInv'
  OBVIOUS
<1>1. PICK s \in S, o \in Owners :
        /\ pc \in {"idle", "alloc"} /\ buf[s] # None
        /\ FAT_SET(s, o)
        /\ pc' = "alloc" /\ taken' = taken \cup {s} /\ UNCHANGED todo
  BY DEF Take
<1>2. Typed /\ taken \subseteq S /\ o \in Contents
  BY DEF IInv, Typed, TypeOK, Contents
<1>3. Typed'
  BY <1>1, <1>2, SetKeepsTyped
<1>4. agreed' = agreed
  BY <1>1 DEF FAT_SET, log
<1>5. Told => Told'
  BY <1>1, <1>2, SetKeepsTold
<1> QED
  BY <1>3, <1>4, <1>5 DEF IInv

LEMMA GiveBackKeeps == IInv /\ GiveBack => IInv'
<1> SUFFICES ASSUME IInv, GiveBack PROVE IInv'
  OBVIOUS
<1>1. PICK s \in taken :
        /\ pc \in {"alloc", "full"} /\ buf[s] # None
        /\ FAT_SET(s, 0)
        /\ taken' = taken \ {s} /\ pc' = (IF taken = {s} THEN "idle" ELSE "full")
        /\ UNCHANGED todo
  BY DEF GiveBack
<1>2. Typed /\ taken \subseteq S /\ s \in S /\ 0 \in Contents
  BY DEF IInv, Typed, TypeOK, Contents
<1>3. Typed'
  BY <1>1, <1>2, SetKeepsTyped
<1>4. agreed' = agreed
  BY <1>1 DEF FAT_SET, log
<1>5. Told => Told'
  BY <1>1, <1>2, SetKeepsTold
<1> QED
  BY <1>3, <1>4, <1>5 DEF IInv

LEMMA DirtyDiskKeeps == IInv /\ DIRTY_DISK => IInv'
<1> SUFFICES ASSUME IInv, DIRTY_DISK PROVE IInv'
  OBVIOUS
<1>1. /\ pc = "idle" /\ UD_DIRTY_DISK_FLAG = 0
      /\ pc' = (IF N = 1 THEN "mark" ELSE "dirtying")
      /\ UNCHANGED <<copy, torn, boot, bootbuf, buf, UD_DIRTY_DISK_FLAG, todo, taken,
                     current, snapshot, kept, agreed, aborts>>
  BY DEF DIRTY_DISK, disk, bootsector, promise, log
<1>2. Typed'
  BY <1>1 DEF IInv, Typed, TypeOK
<1>3. SUFFICES ASSUME agreed' PROVE Told'
  BY <1>2 DEF IInv
<1>4. Told /\ Typed
  BY <1>1, <1>3 DEF IInv
<1>5. N > 1 \/ N = 1
  BY <1>4, ReadCopies DEF Typed
<1>6. Routines'
  BY <1>1, <1>4, <1>5 DEF Told, Routines, S
<1>7. Alike' /\ Cleaned'
  BY <1>1, <1>4, <1>6 DEF Told, Alike, Cleaned, Routines, S
<1> QED
  BY <1>1, <1>4, <1>6, <1>7 DEF Told, Flags, Buffered, Copied, Frozen, READ_COPIES

LEMMA DirtySectorKeeps == IInv /\ DirtySector => IInv'
<1> SUFFICES ASSUME IInv, DirtySector PROVE IInv'
  OBVIOUS
<1> DEFINE s == todo
<1>1. /\ pc = "dirtying"
      /\ IF buf[s] = None THEN copy' = copy /\ torn' = torn ELSE BF_FLUSH(s, buf[s])
      /\ buf' = [buf EXCEPT ![s] = None]
      /\ NextSector("dirtying", "mark")
      /\ UNCHANGED <<boot, bootbuf, UD_DIRTY_DISK_FLAG, taken, current, snapshot, kept,
                     agreed, aborts>>
  BY DEF DirtySector, disk, bootsector, promise, log
<1>2. TypeOK /\ Typed /\ s \in S
  BY DEF IInv, Typed, TypeOK
<1>3. /\ todo' \in S
      /\ \/ pc' = "dirtying" /\ \A u \in S : u < todo' => u < s \/ u = s
         \/ pc' = "mark" /\ todo' = 1 /\ \A u \in S : u < s \/ u = s
  BY <1>1, <1>2, NextSectorGoesOn
<1>4. IF buf[s] # None /\ buf[s].dirty THEN Written(s, buf[s].data, 1..buf[s].copies)
      ELSE copy' = copy /\ torn' = torn
  BY <1>1, <1>2, FlushWrites DEF TypeOK, Buffer
<1>5. /\ \A u \in S \ {s} : buf'[u] = buf[u]
      /\ buf'[s] = None
      /\ buf' = [u \in S |-> buf'[u]]
  BY <1>1, <1>2 DEF Typed
<1>6. /\ copy' \in [1..N -> [S -> Contents]]
      /\ torn \subseteq torn' /\ torn' \subseteq torn \cup {s}
      /\ \A k \in 1..N, u \in S \ {s} : copy'[k][u] = copy[k][u]
  BY <1>2, <1>4 DEF Written, TypeOK
<1>7. Typed'
  BY <1>1, <1>2, <1>3, <1>5, <1>6 DEF Typed, TypeOK
<1> HIDE DEF s
<1>8. SUFFICES ASSUME agreed' PROVE Told'
  BY <1>7 DEF IInv
<1>9. Told
  BY <1>1, <1>8 DEF IInv
<1>10. UD_DIRTY_DISK_FLAG = 0 /\ READ_COPIES = N /\ READ_COPIES' = N
  BY <1>1, <1>9 DEF Told, Routines, READ_COPIES
<1>11. N \in 1..N /\ 1 \in 1..N
  BY <1>2, ReadCopies
<1>12. s \notin torn' => \A k \in 1..N : copy'[k][s] = current[s]
  <2>1. CASE buf[s] # None /\ buf[s].dirty
    BY <1>2, <1>4, <1>6, <1>9, <1>10, <2>1 DEF Told, Buffered, Written
  <2>2. CASE ~(buf[s] # None /\ buf[s].dirty)
    BY <1>2, <1>4, <1>9, <1>10, <2>2 DEF Told, Copied
  <2> QED
    BY <2>1, <2>2
<1>13. Flags'
  BY <1>1, <1>9 DEF Told, Flags
<1>14. Routines'
  <2>1. \A u \in S : u < s => buf'[u] = None
    BY <1>1, <1>5, <1>9 DEF Told, Routines, s
  <2>2. N > 1
    BY <1>1, <1>9 DEF Told, Routines
  <2> QED
    BY <1>1, <1>3, <1>5, <1>10, <2>1, <2>2 DEF Routines
<1>15. Buffered' /\ Copied'
  BY <1>1, <1>5, <1>6, <1>9, <1>10, <1>12 DEF Told, Buffered, Copied
<1>16. Alike'
  BY <1>1, <1>6, <1>9, <1>10, <1>11, <1>12 DEF Told, Alike
<1>17. Cleaned' /\ Frozen'
  BY <1>1, <1>3, <1>9, <1>10 DEF Told, Cleaned, Frozen
<1> QED
  BY <1>13, <1>14, <1>15, <1>16, <1>17 DEF Told

LEMMA MarkDirtyKeeps == IInv /\ MarkDirty => IInv'
<1> SUFFICES ASSUME IInv, MarkDirty PROVE IInv'
  OBVIOUS
<1>1. /\ pc = "mark" /\ pc' = "idle"
      /\ bootbuf' = [flag |-> 1, dirty |-> TRUE] /\ UD_DIRTY_DISK_FLAG' = 1
      /\ snapshot' = current /\ kept' = (IF N = 1 THEN {} ELSE S)
      /\ UNCHANGED <<copy, torn, boot, buf, todo, taken, current, agreed, aborts>>
  BY DEF MarkDirty, SetDirtFlag, disk, log
<1>2. Typed
  BY DEF IInv
<1>3. Typed'
  BY <1>1, <1>2 DEF Typed, TypeOK
<1>4. SUFFICES ASSUME agreed' PROVE Told'
  BY <1>3 DEF IInv
<1>5. Told
  BY <1>1, <1>4 DEF IInv
<1>6. /\ UD_DIRTY_DISK_FLAG = 0 /\ READ_COPIES = N
      /\ N > 1 => \A s \in S : buf[s] = None
      /\ READ_COPIES' \in 1..N /\ (N = 1 => READ_COPIES' = N)
      /\ N \in 1..N /\ (N = 1 \/ N > 1)
  BY <1>1, <1>2, <1>3, <1>5, ReadCopies DEF Told, Routines, READ_COPIES, Typed
<1>7. bootbuf' # None
  <2>1. [flag |-> 1, dirty |-> TRUE] \in [flag : {0, 1}, dirty : BOOLEAN]
    OBVIOUS
  <2> QED
    BY <1>1, <2>1, CopiesAssumption
<1>8. Flags' /\ Routines'
  BY <1>1, <1>5, <1>7 DEF Told, Flags, Routines
<1>9. Buffered'
  BY <1>1, <1>5, <1>6 DEF Told, Buffered
<1>10. Copied'
  <2>1. \A k \in 1..READ_COPIES' : k \in 1..N
    BY <1>6
  <2> QED
    BY <1>1, <1>5, <1>6, <2>1 DEF Told, Copied
<1>11. Alike' /\ Cleaned'
  BY <1>1, <1>5, <1>6 DEF Told, Alike, Cleaned
<1>12. Frozen'
  BY <1>1, <1>5, <1>6 DEF Told, Copied, Frozen, Last
<1> QED
  BY <1>8, <1>9, <1>10, <1>11, <1>12 DEF Told

LEMMA CleanDiskKeeps == IInv /\ CLEAN_DISK => IInv'
<1> SUFFICES ASSUME IInv, CLEAN_DISK PROVE IInv'
  OBVIOUS
<1>1. /\ pc \in {"idle", "alloc"}
      /\ IF UD_DIRTY_DISK_FLAG = 0 THEN pc' = "idle" /\ taken' = {}
         ELSE pc' = (IF N = 1 THEN "unmark" ELSE "cleaning") /\ taken' = taken
      /\ UNCHANGED <<copy, torn, boot, bootbuf, buf, UD_DIRTY_DISK_FLAG, todo,
                     current, snapshot, kept, agreed, aborts>>
  BY DEF CLEAN_DISK, disk, bootsector, promise, log
<1>2. Typed
  BY DEF IInv
<1>3. Typed'
  BY <1>1, <1>2 DEF Typed, TypeOK
<1>4. SUFFICES ASSUME agreed' PROVE Told'
  BY <1>3 DEF IInv
<1>5. Told
  BY <1>1, <1>4 DEF IInv
<1>6. N > 1 \/ N = 1
  BY <1>2, ReadCopies DEF Typed
<1>7. UD_DIRTY_DISK_FLAG \in {0, 1} /\ todo = 1
  BY <1>1, <1>2, <1>5 DEF Told, Routines, Typed, TypeOK
<1>8. Routines'
  BY <1>1, <1>6, <1>7 DEF Routines, S
<1>9. Alike' /\ Cleaned' /\ Frozen'
  BY <1>1, <1>5, <1>6, <1>7 DEF Told, Alike, Cleaned, Frozen, S
<1> QED
  BY <1>1, <1>5, <1>8, <1>9 DEF Told, Flags, Buffered, Copied, READ_COPIES

LEMMA CleanSectorKeeps == IInv /\ CleanSector => IInv'
<1> SUFFICES ASSUME IInv, CleanSector PROVE IInv'
  OBVIOUS
<1> DEFINE s == todo
<1>1. PICK b \in BF_FAT_SECTOR(s) :
        /\ BF_FLUSH(s, b)
        /\ buf' = [buf EXCEPT ![s] = [b EXCEPT !.dirty = FALSE]]
        /\ pc = "cleaning" /\ pc' = "last"
        /\ UNCHANGED <<boot, bootbuf, UD_DIRTY_DISK_FLAG, todo, taken, current, snapshot,
                       kept, agreed, aborts>>
  BY DEF CleanSector, bootsector, promise, log
<1>2. TypeOK /\ Typed /\ s \in S
  BY DEF IInv, Typed, TypeOK
<1>3. \/ buf[s] # None /\ b = buf[s] /\ b \in Buffer
      \/ buf[s] = None /\ b \in Fetched(s)
  BY <1>1, <1>2 DEF BF_FAT_SECTOR, TypeOK, Buffer
<1>4. b \in Buffer
  BY <1>2, <1>3, FetchedThere
<1>5. IF b.dirty THEN Written(s, b.data, 1..b.copies) ELSE copy' = copy /\ torn' = torn
  BY <1>1, <1>2, <1>4, FlushWrites
<1>6. /\ \A u \in S \ {s} : buf'[u] = buf[u]
      /\ buf' = [u \in S |-> buf'[u]]
      /\ buf'[s] \in Buffer /\ ~buf'[s].dirty
      /\ buf'[s].copies = b.copies /\ buf'[s].data = b.data
  <2>1. /\ \A u \in S \ {s} : buf'[u] = buf[u]
        /\ buf' = [u \in S |-> buf'[u]]
        /\ buf'[s] = [b EXCEPT !.dirty = FALSE]
    BY <1>1, <1>2 DEF Typed
  <2> QED
    BY <1>4, <2>1 DEF Buffer
<1>7. /\ copy' \in [1..N -> [S -> Contents]]
      /\ torn \subseteq torn' /\ torn' \subseteq torn \cup {s}
      /\ \A k \in 1..N, u \in S \ {s} : copy'[k][u] = copy[k][u]
  <2>1. CASE b.dirty
    BY <1>5, <2>1 DEF Written
  <2>2. CASE ~b.dirty
    BY <1>2, <1>5, <2>2 DEF TypeOK
  <2> QED
    BY <2>1, <2>2
<1>8. Typed'
  BY <1>1, <1>2, <1>6, <1>7 DEF Typed, TypeOK, Buffer
<1> HIDE DEF s
<1>9. SUFFICES ASSUME agreed' PROVE Told'
  BY <1>8 DEF IInv
<1>10. Told
  BY <1>1, <1>9 DEF IInv
<1>11. /\ UD_DIRTY_DISK_FLAG = 1 /\ N > 1
       /\ READ_COPIES = N - 1 /\ READ_COPIES' = N - 1
       /\ N \in 1..N /\ 1 \in 1..N /\ N \notin 1..(N - 1)
       /\ \A k \in 1..N : k = N \/ k \in 1..(N - 1)
       /\ \A k \in 1..(N - 1) : k \in 1..N
       /\ 1 \in 1..(N - 1)
  BY <1>1, <1>2, <1>10, ReadCopies DEF Told, Routines, READ_COPIES
<1>12. /\ b.copies = N - 1
       /\ s \notin torn => b.data = current[s]
  <2>1. CASE buf[s] # None
    BY <1>2, <1>3, <1>10, <1>11, <2>1 DEF Told, Buffered
  <2>2. CASE buf[s] = None
    <3>1. b.copies = READ_COPIES /\ \E k \in 1..READ_COPIES : b.data = copy[k][s]
      BY <1>2, <1>3, <2>2, FetchedThere
    <3> QED
      BY <1>2, <1>10, <1>11, <2>2, <3>1 DEF Told, Copied
  <2> QED
    BY <2>1, <2>2
<1>13. /\ s \notin torn' => \A k \in 1..(N - 1) : copy'[k][s] = current[s]
       /\ copy'[N][s] = copy[N][s]
  <2>1. CASE b.dirty
    BY <1>2, <1>5, <1>7, <1>11, <1>12, <2>1 DEF Written
  <2>2. CASE ~b.dirty
    <3>1. buf[s] = None \/ ~buf[s].dirty
      BY <1>3, <2>2
    <3> QED
      BY <1>2, <1>5, <1>10, <1>11, <2>2, <3>1 DEF Told, Copied
  <2> QED
    BY <2>1, <2>2
<1>14. Flags'
  BY <1>1, <1>10 DEF Told, Flags
<1>15. Routines'
  <2>1. \A u \in S : u < s => buf'[u] = None
    <3> SUFFICES ASSUME NEW u \in S, u < s PROVE buf'[u] = None
      OBVIOUS
    <3>1. u # s
      BY <1>2 DEF S
    <3> QED
      BY <1>1, <1>6, <1>10, <3>1 DEF Told, Routines, s
  <2> QED
    BY <1>1, <1>11, <2>1 DEF Routines, s
<1>16. Buffered'
  BY <1>1, <1>6, <1>7, <1>10, <1>11, <1>12 DEF Told, Buffered
<1>17. Copied'
  BY <1>1, <1>6, <1>7, <1>10, <1>11, <1>13 DEF Told, Copied
<1>18. Alike'
  <2> SUFFICES ASSUME NEW u \in S \ torn', NEW k \in 1..N, copy'[k][u] # copy'[1][u]
               PROVE  k = N /\ (u = s \/ (boot = 1 /\ UD_DIRTY_DISK_FLAG = 1))
    BY <1>1 DEF Alike, Last, s
  <2>1. CASE u = s
    BY <1>11, <1>13, <2>1
  <2>2. CASE u # s
    BY <1>1, <1>7, <1>10, <1>11, <2>2 DEF Told, Alike, Last
  <2> QED
    BY <2>1, <2>2
<1>19. Cleaned'
  <2> SUFFICES ASSUME NEW u \in S \ torn', u < s PROVE copy'[N][u] = current[u]
    BY <1>1 DEF Cleaned, Last, s
  <2>1. u # s
    BY <1>2 DEF S
  <2> QED
    BY <1>1, <1>7, <1>10, <1>11, <2>1 DEF Told, Cleaned, Last, s
<1>20. Frozen'
  <2>1. \A u \in kept : copy'[N][u] = copy[N][u]
    BY <1>1, <1>2, <1>7, <1>11, <1>13 DEF TypeOK
  <2> QED
    BY <1>1, <1>7, <1>10, <2>1 DEF Told, Frozen, Last
<1> QED
  BY <1>14, <1>15, <1>16, <1>17, <1>18, <1>19, <1>20 DEF Told

LEMMA CleanLastKeeps == IInv /\ CleanLast => IInv'
<1> SUFFICES ASSUME IInv, CleanLast PROVE IInv'
  OBVIOUS
<1> DEFINE s == todo
<1>1. /\ pc = "last"
      /\ WriteCopies(s, buf[s].data, {buf[s].copies + 1})
      /\ buf' = [buf EXCEPT ![s] = None]
      /\ kept' = kept \ {s}
      /\ NextSector("cleaning", "unmark")
      /\ UNCHANGED <<boot, bootbuf, UD_DIRTY_DISK_FLAG, taken, current, snapshot,
                     agreed, aborts>>
  BY DEF CleanLast, bootsector, log
<1>2. /\ TypeOK /\ Typed /\ s \in S
      /\ buf[s] \in Buffer /\ buf[s] # None /\ ~buf[s].dirty
  BY <1>1, BufferThere DEF IInv, Typed, TypeOK
<1>3. /\ todo' \in S
      /\ \/ pc' = "cleaning" /\ \A u \in S : u < todo' => u < s \/ u = s
         \/ pc' = "unmark" /\ todo' = 1 /\ \A u \in S : u < s \/ u = s
  BY <1>1, <1>2, NextSectorGoesOn
<1>4. Written(s, buf[s].data, {buf[s].copies + 1})
  BY <1>1, <1>2, WriteCopiesWrites DEF Buffer
<1>5. /\ \A u \in S \ {s} : buf'[u] = buf[u]
      /\ buf'[s] = None
      /\ buf' = [u \in S |-> buf'[u]]
  BY <1>1, <1>2 DEF Typed
<1>6. /\ copy' \in [1..N -> [S -> Contents]]
      /\ torn \subseteq torn' /\ torn' \subseteq torn \cup {s}
      /\ \A k \in 1..N, u \in S \ {s} : copy'[k][u] = copy[k][u]
  BY <1>4 DEF Written
<1>7. Typed'
  BY <1>1, <1>2, <1>3, <1>5, <1>6 DEF Typed, TypeOK
<1> HIDE DEF s
<1>8. SUFFICES ASSUME agreed' PROVE Told'
  BY <1>7 DEF IInv
<1>9. Told
  BY <1>1, <1>8 DEF IInv
<1>10. /\ UD_DIRTY_DISK_FLAG = 1 /\ N > 1
       /\ READ_COPIES = N - 1 /\ READ_COPIES' = N - 1
       /\ N \in 1..N /\ 1 \in 1..N /\ N \notin 1..(N - 1)
       /\ \A k \in 1..N : k = N \/ k \in 1..(N - 1)
       /\ \A k \in 1..(N - 1) : k \in 1..N /\ k # N
       /\ 1 \in 1..(N - 1)
  BY <1>1, <1>2, <1>9, ReadCopies DEF Told, Routines, READ_COPIES
<1>11. buf[s].copies + 1 = N /\ (s \notin torn => buf[s].data = current[s])
  BY <1>2, <1>9, <1>10 DEF Told, Buffered
<1>12. /\ s \notin torn' => copy'[N][s] = current[s]
       /\ \A k \in 1..(N - 1) : copy'[k][s] = copy[k][s]
  BY <1>2, <1>4, <1>6, <1>10, <1>11 DEF Written
<1>13. s \notin torn' => \A k \in 1..N : copy'[k][s] = current[s]
  BY <1>2, <1>6, <1>9, <1>10, <1>12 DEF Told, Copied
<1>14. Flags'
  BY <1>1, <1>9 DEF Told, Flags
<1>15. Routines'
  <2>1. \A u \in S : u < s => buf'[u] = None
    BY <1>1, <1>5, <1>9 DEF Told, Routines, s
  <2> QED
    BY <1>1, <1>3, <1>5, <1>10, <2>1 DEF Routines
<1>16. Buffered' /\ Copied'
  BY <1>1, <1>5, <1>6, <1>9, <1>10, <1>13 DEF Told, Buffered, Copied
<1>17. Alike'
  <2> SUFFICES ASSUME NEW u \in S \ torn', NEW k \in 1..N, copy'[k][u] # copy'[1][u]
               PROVE  k = Last /\ boot = 1 /\ UD_DIRTY_DISK_FLAG = 1
    BY <1>1 DEF Alike
  <2>1. u # s
    BY <1>10, <1>13
  <2>2. copy[k][u] # copy[1][u]
    BY <1>6, <1>10, <2>1
  <2> QED
    BY <1>6, <1>9, <2>1, <2>2 DEF Told, Alike, s
<1>18. Cleaned'
  <2>1. \A u \in S : u < s => u \in torn' \/ copy'[N][u] = current[u]
    BY <1>1, <1>6, <1>9, <1>10, <1>13 DEF Told, Cleaned, Last, s
  <2> QED
    BY <1>1, <1>3, <1>10, <1>13, <2>1 DEF Cleaned, Last
<1>19. Frozen'
  BY <1>1, <1>2, <1>6, <1>9, <1>10 DEF Told, Frozen, Last, TypeOK
<1> QED
  BY <1>14, <1>15, <1>16, <1>17, <1>18, <1>19 DEF Told

LEMMA MarkCleanKeeps == IInv /\ MarkClean => IInv'
<1> SUFFICES ASSUME IInv, MarkClean PROVE IInv'
  OBVIOUS
<1>1. /\ pc = "unmark" /\ pc' = "idle"
      /\ bootbuf' = [flag |-> 0, dirty |-> TRUE] /\ UD_DIRTY_DISK_FLAG' = 0
      /\ taken' = {} /\ kept' = {}
      /\ UNCHANGED <<copy, torn, boot, buf, todo, current, snapshot, agreed, aborts>>
  BY DEF MarkClean, SetDirtFlag, disk, log
<1>2. Typed
  BY DEF IInv
<1>3. Typed'
  BY <1>1, <1>2 DEF Typed, TypeOK
<1>4. SUFFICES ASSUME agreed' PROVE Told'
  BY <1>3 DEF IInv
<1>5. Told
  BY <1>1, <1>4 DEF IInv
<1>6. /\ UD_DIRTY_DISK_FLAG = 1 /\ READ_COPIES' = N
      /\ N > 1 => READ_COPIES = N - 1 /\ \A s \in S : buf[s] = None
      /\ N = 1 => READ_COPIES = N
      /\ N \in 1..N /\ 1 \in 1..N /\ (N = 1 \/ N > 1)
      /\ \A k \in 1..N : k = N \/ k \in 1..(N - 1)
  BY <1>1, <1>2, <1>5, ReadCopies DEF Told, Routines, READ_COPIES, Typed
<1>7. bootbuf' # None
  <2>1. [flag |-> 0, dirty |-> TRUE] \in [flag : {0, 1}, dirty : BOOLEAN]
    OBVIOUS
  <2> QED
    BY <1>1, <2>1, CopiesAssumption
<1>8. Flags' /\ Routines'
  BY <1>1, <1>5, <1>7 DEF Told, Flags, Routines
<1>9. Buffered'
  BY <1>1, <1>5, <1>6 DEF Told, Buffered
<1>10. Copied'
  BY <1>1, <1>5, <1>6 DEF Told, Copied, Cleaned, Last
<1>11. Alike'
  <2>1. CASE N = 1
    BY <1>1, <2>1 DEF Alike
  <2>2. CASE N > 1
    <3>1. \A s \in S \ torn, k \in 1..N : copy[k][s] = current[s]
      BY <1>1, <1>6, <1>10, <2>2 DEF Copied
    <3> QED
      BY <1>1, <1>6, <3>1 DEF Alike
  <2> QED
    BY <1>6, <2>1, <2>2
<1>12. Cleaned' /\ Frozen'
  BY <1>1 DEF Cleaned, Frozen
<1> QED
  BY <1>8, <1>9, <1>10, <1>11, <1>12 DEF Told

\* Everything buffered is lost; the unit descriptor agrees with the disk afterwards.
LEMMA ForgetKeeps ==
  ASSUME Typed, Told, Forget, UD_DIRTY_DISK_FLAG' = boot,
         kept' \subseteq StillKept, boot = 0 => kept' = {}
  PROVE  Told'
<1>1. /\ buf' = [s \in S |-> None] /\ bootbuf' = None
      /\ pc' = "idle" /\ todo' = 1 /\ taken' = {}
      /\ current' = copy[1]
      /\ torn' = (IF pc = "last" THEN torn \cup {todo} ELSE torn)
      /\ copy' = copy /\ boot' = boot /\ snapshot' = snapshot
  BY DEF Forget
<1>2. /\ TypeOK /\ boot \in {0, 1}
      /\ N \in 1..N /\ 1 \in 1..N /\ (N = 1 \/ N > 1)
      /\ READ_COPIES' = (IF boot = 0 \/ N = 1 THEN N ELSE N - 1)
      /\ \A k \in 1..(N - 1) : k \in 1..N /\ k # N
  BY ReadCopies DEF Typed, TypeOK, READ_COPIES
<1>3. \A s \in S \ torn', k \in 1..N : copy[k][s] # copy[1][s] => k = N /\ boot = 1
  BY <1>1 DEF Told, Alike, Last
<1>4. Flags' /\ Routines' /\ Buffered' /\ Cleaned'
  BY <1>1 DEF Flags, Routines, Buffered, Cleaned
<1>5. Copied'
  BY <1>1, <1>2, <1>3 DEF Copied
<1>6. Alike'
  BY <1>1, <1>2, <1>3 DEF Alike, Last
<1>7. Frozen'
  <2> SUFFICES ASSUME NEW s \in kept'
               PROVE  /\ boot = 1 /\ N > 1
                      /\ s \notin torn' => copy[N][s] = snapshot[s]
                      /\ copy[1][s] \in {snapshot[s], 0}
    BY <1>1 DEF Frozen, Last
  <2>1. s \in kept /\ copy[1][s] \in {snapshot[s], 0}
    BY DEF StillKept
  <2> QED
    BY <1>1, <1>2, <2>1 DEF Told, Frozen, Last
<1> QED
  BY <1>4, <1>5, <1>6, <1>7 DEF Told

\* The types after it.
LEMMA ForgetTyped ==
  ASSUME Typed, Forget, UD_DIRTY_DISK_FLAG' \in {0, 1}, kept' \subseteq kept, agreed' \in BOOLEAN
  PROVE  Typed'
<1>1. /\ buf' = [s \in S |-> None] /\ bootbuf' = None
      /\ pc' = "idle" /\ todo' = 1 /\ taken' = {} /\ aborts' = aborts + 1
      /\ current' = copy[1]
      /\ torn' = (IF pc = "last" THEN torn \cup {todo} ELSE torn)
      /\ copy' = copy /\ boot' = boot /\ snapshot' = snapshot
  BY DEF Forget
<1>2. 1 \in 1..N /\ 1 \in S
  BY CopiesAssumption DEF N, S
<1>3. current' \in [S -> Contents] /\ torn' \subseteq S
  BY <1>1, <1>2 DEF Typed, TypeOK
<1> QED
  BY <1>1, <1>2, <1>3 DEF Typed, TypeOK

LEMMA ResetKeeps == IInv /\ Reset => IInv'
<1> SUFFICES ASSUME IInv, Reset PROVE IInv'
  OBVIOUS
<1>1. /\ Forget /\ UD_DIRTY_DISK_FLAG' = boot /\ agreed' = agreed
      /\ kept' = (IF boot = 0 THEN {} ELSE StillKept)
  BY DEF Reset
<1>2. Typed /\ boot \in {0, 1} /\ agreed \in BOOLEAN
  BY DEF IInv, Typed, TypeOK
<1>3. kept' \subseteq StillKept /\ kept' \subseteq kept /\ (boot = 0 => kept' = {})
  BY <1>1 DEF StillKept
<1>4. Typed'
  BY <1>1, <1>2, <1>3, ForgetTyped
<1>5. Told => Told'
  BY <1>1, <1>2, <1>3, ForgetKeeps
<1> QED
  BY <1>1, <1>4, <1>5 DEF IInv

LEMMA AbortKeeps == IInv /\ Abort => IInv'
<1> SUFFICES ASSUME IInv, Abort PROVE IInv'
  OBVIOUS
<1>1. /\ Forget /\ UD_DIRTY_DISK_FLAG' = UD_DIRTY_DISK_FLAG
      /\ agreed' = (IF UD_DIRTY_DISK_FLAG = boot THEN agreed ELSE FALSE)
      /\ kept' = StillKept
  BY DEF Abort
<1>2. Typed /\ UD_DIRTY_DISK_FLAG \in {0, 1} /\ agreed' \in BOOLEAN
  BY <1>1 DEF IInv, Typed, TypeOK
<1>3. kept' \subseteq StillKept /\ kept' \subseteq kept
  BY <1>1 DEF StillKept
<1>4. Typed'
  BY <1>1, <1>2, <1>3, ForgetTyped
<1>5. SUFFICES ASSUME agreed' PROVE Told'
  BY <1>4 DEF IInv
<1>6. Told /\ UD_DIRTY_DISK_FLAG = boot
  BY <1>1, <1>5 DEF IInv
<1>7. boot = 0 => kept' = {}
  BY <1>3, <1>6 DEF Told, Frozen
<1> QED
  BY <1>1, <1>2, <1>3, <1>6, <1>7, ForgetKeeps

LEMMA ValSameKeeps == IInv /\ VAL_SAME => IInv'
<1> SUFFICES ASSUME IInv, VAL_SAME PROVE IInv'
  OBVIOUS
<1>1. /\ UD_DIRTY_DISK_FLAG' = boot
      /\ agreed' = (IF UD_DIRTY_DISK_FLAG = boot THEN agreed ELSE FALSE)
      /\ UNCHANGED <<copy, torn, boot, bootbuf, buf, pc, todo, taken, current,
                     snapshot, kept, aborts>>
  BY DEF VAL_SAME, disk, bootsector, routine, promise
<1>2. Typed'
  BY <1>1 DEF IInv, Typed, TypeOK
<1>3. SUFFICES ASSUME agreed' PROVE Told'
  BY <1>2 DEF IInv
<1>4. Told /\ UD_DIRTY_DISK_FLAG' = UD_DIRTY_DISK_FLAG
  BY <1>1, <1>3 DEF IInv
<1> QED
  BY <1>1, <1>4 DEF Told, Flags, Routines, Buffered, Copied, Alike, Cleaned, Frozen, READ_COPIES

-----------------------------------------------------------------------------
(* The invariant, and what follows from it. *)

\* The invariant holds on a disk that is clean and not buffered.
LEMMA InitTold == Init => IInv
<1> SUFFICES ASSUME Init PROVE IInv
  OBVIOUS
<1>1. 1 \in S /\ 0 \in Nat
  BY CopiesAssumption DEF S
<1>2. TypeOK
  BY <1>1 DEF Init, TypeOK
<1>3. Typed
  BY <1>2 DEF Init, Typed
<1>4. \A k \in 1..READ_COPIES : k \in 1..N
  BY <1>2, ReadCopies
<1>5. 1 \in 1..N
  BY <1>2, ReadCopies
<1>6. Told
  BY <1>4, <1>5 DEF Init, Told, Flags, Routines, Buffered, Copied, Alike, Cleaned, Frozen
<1> QED
  BY <1>3, <1>6 DEF IInv

\* Every step of the code keeps it.
LEMMA NextKeeps == IInv /\ [Next]_vars => IInv'
<1> SUFFICES ASSUME IInv, [Next]_vars PROVE IInv'
  OBVIOUS
<1>1. CASE Next
  BY <1>1, FlushFatKeeps, FlushBootKeeps, LoadKeeps, FreeKeeps, TakeKeeps, GiveBackKeeps,
     DirtyDiskKeeps, DirtySectorKeeps, MarkDirtyKeeps, CleanDiskKeeps, CleanSectorKeeps,
     CleanLastKeeps, MarkCleanKeeps, ResetKeeps, AbortKeeps, ValSameKeeps DEF Next
<1>2. CASE UNCHANGED vars
  BY <1>2 DEF vars, IInv, Typed, TypeOK, Told, Flags, Routines, Buffered, Copied, Alike,
     Cleaned, Frozen, READ_COPIES
<1> QED
  BY <1>1, <1>2

LEMMA InvariantHolds == Spec => []IInv
<1>1. Init => IInv
  BY InitTold
<1>2. IInv /\ [Next]_vars => IInv'
  BY NextKeeps
<1> QED
  BY <1>1, <1>2, PTL DEF Spec

\* Every variable keeps its type, the one sector a routine is about and the
\* buffers included.
THEOREM CopiesTypeCorrect == Spec => []TypeOK
<1>1. IInv => TypeOK
  BY DEF IInv, Typed
<1> QED
  BY <1>1, InvariantHolds, PTL

\* The copies that may be read in place of one another have what was last given
\* to the sector, or its buffer does (buf.mac BF_FAT_SECTOR).
THEOREM CopiesStayCurrent == Spec => []CopiesCurrent
<1>1. IInv => CopiesCurrent
  <2> SUFFICES ASSUME IInv, agreed, NEW s \in S \ Unsettled
               PROVE  IF buf[s] = None \/ ~buf[s].dirty
                      THEN \A k \in 1..READ_COPIES : copy[k][s] = current[s]
                      ELSE buf[s].data = current[s]
    BY DEF CopiesCurrent
  <2>1. s \notin torn
    BY DEF Unsettled
  <2> QED
    BY <2>1 DEF IInv, Told, Buffered, Copied
<1> QED
  BY <1>1, InvariantHolds, PTL

\* What CLEAN_DISK writes after the copies in use is the last copy (buf.mac 683-685).
THEOREM LastCopyLeftOut == Spec => []AllButLast
<1>1. IInv => AllButLast
  BY DEF IInv, Told, Buffered, READ_COPIES, AllButLast
<1> QED
  BY <1>1, InvariantHolds, PTL

\* A stale last copy is announced by the boot sector on the disk, wherever the
\* computer is switched off (fat.mac DIRTY_DISK, CLEAN_DISK; UNDEL.MAC 745-748).
THEOREM StaleCopyAnnounced == Spec => []DirtyFlagTruthful
<1>1. IInv => DirtyFlagTruthful
  <2> SUFFICES ASSUME IInv, agreed, NEW s \in S \ Unsettled, copy[Last][s] # copy[1][s]
               PROVE  boot = 1
    BY DEF DirtyFlagTruthful, UndelSeesDirt
  <2>1. N \in 1..N
    BY ReadCopies DEF IInv, Typed
  <2>2. s \notin torn /\ ~(pc = "last" /\ s = todo)
    BY DEF Unsettled
  <2> QED
    BY <2>1, <2>2 DEF IInv, Told, Alike, Last
<1> QED
  BY <1>1, InvariantHolds, PTL

\* Until the next allocation of disk space the last copy has the chains of the
\* files that were deleted, and their clusters are free (DOS2-FCS.TXT 1577-1582).
THEOREM DeletedFilesFound == Spec => []SnapshotKept
<1>1. IInv => SnapshotKept
  <2> SUFFICES ASSUME IInv, agreed, NEW s \in kept \ Unsettled
               PROVE  /\ copy[Last][s] = snapshot[s]
                      /\ s \notin taken => current[s] \in {snapshot[s], 0}
    BY DEF SnapshotKept, UndelFindsFiles
  <2>1. s \notin torn
    BY DEF Unsettled
  <2> QED
    BY <2>1 DEF IInv, Told, Frozen
<1> QED
  BY <1>1, InvariantHolds, PTL
=============================================================================
