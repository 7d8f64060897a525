------------------------------- MODULE Handles -------------------------------
(***************************************************************************)
(* File handles, file access blocks (FABs) and processes                   *)
(* (kernel/bank2/handles.mac), with the functions of find.mac and del.mac  *)
(* that must respect open files, and CLOSE_HANDLES of F_MAPDRV             *)
(* (kernel/bank4/partit.mac).                                              *)
(*                                                                         *)
(* Every process has a vector of handles; handles that were duplicated or  *)
(* inherited share a FAB, which lives as long as its use count.  One       *)
(* action is one function, but F_FORK, F_JOIN and CLOSE_HANDLES go handle  *)
(* by handle, since the user may abort an access to the disk between any   *)
(* two.  There is one drive with one directory.  What ABORT does to the    *)
(* sectors of the directory is the business of BufferPool: here it only    *)
(* leaves the function.                                                    *)
(***************************************************************************)
EXTENDS Naturals, FiniteSets

CONSTANTS MAX_FILE_HANDLES,
          MaxProcesses,   \* most handle vectors the kernel memory has room for
          MaxReferences,  \* 0FFh: the highest use count
          DefaultHandles, \* number of handles OPEN_DEF_HAND opens
          Fabs,           \* places for FABs in the kernel memory
          Slots,          \* entries of the directory
          Names, Numbers, \* names of files, and the files themselves
          Null,           \* no FAB
          Free,           \* a free or deleted directory entry
          Device          \* in place of the directory entry of a device

Handle == 0..(MAX_FILE_HANDLES - 1)
Process == 1..MaxProcesses

ASSUME HandlesAssumption ==
    /\ MAX_FILE_HANDLES \in Nat \ {0} /\ MaxProcesses \in Nat \ {0}
    /\ MaxReferences \in Nat \ {0} /\ DefaultHandles \in Nat
    /\ IsFiniteSet(Fabs) /\ Null \notin Fabs
    /\ Slots \subseteq Nat /\ Device \notin Slots
    /\ Device \notin Names /\ Device \notin Numbers

ASSUME FreeAssumption == Free \notin [name : Names, file : Numbers]

VARIABLES HANDLES,    \* number of handle vectors; the last is the current one
          PROC_ID,
          vec,        \* the handle vectors, freed ones included
          FAB_CHAIN,  \* the FABs that are allocated
          refs,       \* FAB_REFERENCE_COUNT
          fab,        \* the other fields of the FABs, freed ones included
          dir,        \* the directory
          pc,         \* what the running function does next
          want,       \* F_JOIN: the process to rejoin
          v, b,       \* the vector and handle it has come to
          waived      \* history: freed FABs whose update the user aborted

vars == <<HANDLES, PROC_ID, vec, FAB_CHAIN, refs, fab, dir, pc, want, v, b, waived>>

processes == <<HANDLES, PROC_ID>>
counts == <<FAB_CHAIN, refs>>
files == <<fab, dir>>
loop == <<pc, want, v, b>>

Entry == [name : Names, file : Numbers]

Fab == [slot : Slots \cup {Device}, name : Names \cup {Device}, file : Numbers \cup {Device},
        inherit : BOOLEAN, modified : BOOLEAN, dead : BOOLEAN]

DeviceFab == [slot |-> Device, name |-> Device, file |-> Device,
              inherit |-> TRUE, modified |-> FALSE, dead |-> FALSE]

TypeOK == /\ HANDLES \in 0..MaxProcesses /\ PROC_ID \in 0..MaxProcesses
          /\ vec \in [Process -> [Handle -> Fabs \cup {Null}]]
          /\ FAB_CHAIN \subseteq Fabs
          /\ refs \in [Fabs -> 0..MaxReferences]
          /\ fab \in [Fabs -> Fab]
          /\ dir \in [Slots -> Entry \cup {Free}]
          /\ pc \in {"idle", "fork", "dec", "ensure", "defaults", "unmap", "unmapped"}
          /\ want \in 0..MaxProcesses /\ v \in 0..MaxProcesses
          /\ b \in 0..(MAX_FILE_HANDLES + DefaultHandles)
          /\ waived \subseteq Fabs

\* The kernel is being initialised: F_JOIN has made the first handle vector.
Init == /\ HANDLES = 1 /\ PROC_ID = 1
        /\ vec = [p \in Process |-> [g \in Handle |-> Null]]
        /\ FAB_CHAIN = {} /\ refs = [f \in Fabs |-> 0]
        /\ fab = [f \in Fabs |-> DeviceFab]
        /\ dir = [s \in Slots |-> Free]
        /\ pc = "defaults" /\ want = 0 /\ v = 0 /\ b = 0
        /\ waived = {}

-----------------------------------------------------------------------------
(* Handles and use counts. *)

\* FIND_HANDLE_B: the handles of the current process that are open.
Open(g) == HANDLES > 0 /\ vec[HANDLES][g] # Null

\* FIND_NEW_HANDLE: the lowest one that is not.
FIND_NEW_HANDLE(g) == /\ HANDLES > 0 /\ vec[HANDLES][g] = Null
                      /\ \A i \in Handle : i < g => vec[HANDLES][i] # Null

SetHandle(p, g, f) == vec' = [vec EXCEPT ![p][g] = f]

\* Mutant: the count may go round to zero.
INC_FAB_REF_NoLimit(f) == refs' = [refs EXCEPT ![f] = (@ + 1) % (MaxReferences + 1)]

\* The count is raised, but never past its limit.
INC_FAB_REF(f) == /\ refs[f] < MaxReferences
                  /\ refs' = [refs EXCEPT ![f] = @ + 1]

\* The last user frees the FAB and takes it off the chain.
DEC_FAB_REF(f) ==
    /\ refs' = [refs EXCEPT ![f] = @ - 1]
    /\ FAB_CHAIN' = IF refs[f] = 1 THEN FAB_CHAIN \ {f} ELSE FAB_CHAIN

\* CLOSE_FAB for handle g of the current process.
CLOSE_FAB(g) == DEC_FAB_REF(vec[HANDLES][g]) /\ SetHandle(HANDLES, g, Null)

\* A new FAB with contents r behind a new handle (f_create_open).  There may be
\* no memory for it at any time, since other things are kept there as well.
OpenFab(r) == \E g \in Handle, f \in Fabs \ FAB_CHAIN :
    /\ FIND_NEW_HANDLE(g)
    /\ SetHandle(HANDLES, g, f)
    /\ FAB_CHAIN' = FAB_CHAIN \cup {f}
    /\ refs' = [refs EXCEPT ![f] = 1]
    /\ fab' = [fab EXCEPT ![f] = r]
    /\ waived' = waived \ {f}

-----------------------------------------------------------------------------
(* The directory. *)

\* OLD_FAB, LOC_FIB: the entry of that name.
Located(n) == {s \in Slots : dir[s] # Free /\ dir[s].name = n}

\* The entry that a new file gets: the first free one (SV_ENTRY).
FirstFree(s) == dir[s] = Free /\ \A t \in Slots : t < s => dir[t] # Free

\* A file that no entry and no FAB refers to.
New(x) == /\ \A s \in Slots : dir[s] # Free => dir[s].file # x
          /\ \A f \in Fabs : fab[f].file # x

\* Mutant: only the handles of the current process are compared.
FAB_SCAN_Process(f, s) ==
    HANDLES > 0 /\ \E g \in FAB_CHAIN \ {f} :
        fab[g].slot = s /\ \E i \in Handle : vec[HANDLES][i] = g

\* FAB_SCAN, CMP_FAB: is entry s that of a FAB other than f?
FAB_SCAN(f, s) == \E g \in FAB_CHAIN \ {f} : fab[g].slot = s

\* Does ENSURE_FAB have an entry to bring up to date?
ENSURE_FAB(f) == fab[f].modified /\ ~fab[f].dead /\ Located(fab[f].name) # {}

\* The directory with the entry of FAB f brought up to date.
EntryOf(f) == CHOOSE s \in Located(fab[f].name) : TRUE
Updated(f) == IF fab[f].modified THEN [dir EXCEPT ![EntryOf(f)].file = fab[f].file] ELSE dir

\* ENSURE_FAB and REOPEN_FAB.
Ensured(f) == IF ENSURE_FAB(f)
              THEN /\ dir' = Updated(f)
                   /\ fab' = [fab EXCEPT ![f].modified = FALSE, ![f].slot = EntryOf(f)]
              ELSE UNCHANGED files

\* ABORT: no freed FAB will be brought up to date any more.
Aborted == waived' = waived \cup {f \in Fabs \ FAB_CHAIN' : fab[f].modified}

EnsuredOrAborted(f) == \/ Ensured(f) /\ UNCHANGED waived
                       \/ Aborted /\ UNCHANGED files

-----------------------------------------------------------------------------
(* Functions on handles. *)

OpenFile(s, n, x, i) == OpenFab([slot |-> s, name |-> n, file |-> x, inherit |-> i,
                                 modified |-> FALSE, dead |-> FALSE])

OpenDevice(i) == OpenFab([DeviceFab EXCEPT !.inherit = i])

F_OPEN == \E i \in BOOLEAN :
    /\ pc = "idle"
    /\ \/ \E s \in Slots : dir[s] # Free /\ OpenFile(s, dir[s].name, dir[s].file, i)
       \/ OpenDevice(i)
    /\ UNCHANGED <<processes, dir, loop>>

\* A file is created in the first free entry, or in place of one of that name
\* that is not open.  It stays if it cannot be opened.
F_CREATE == \E n \in Names, x \in Numbers, s \in Slots, i \in BOOLEAN :
    /\ pc = "idle" /\ New(x)
    /\ \/ Located(n) = {} /\ FirstFree(s)
       \/ s \in Located(n) /\ ~FAB_SCAN(Null, s)
    /\ dir' = [dir EXCEPT ![s] = [name |-> n, file |-> x]]
    /\ \/ OpenFile(s, n, x, i)
       \/ UNCHANGED <<vec, counts, fab, waived>>
    /\ UNCHANGED <<processes, loop>>

\* WR_FAB: the size, and for an empty file the first cluster, change in the FAB.
F_WRITE == \E g \in Handle :
    LET f == vec[HANDLES][g] IN
    /\ pc = "idle" /\ Open(g)
    /\ fab[f].slot # Device /\ ~fab[f].dead
    /\ fab' = [fab EXCEPT ![f].modified = TRUE]
    /\ UNCHANGED <<processes, vec, counts, dir, loop, waived>>

F_ENSURE == \E g \in Handle :
    /\ pc = "idle" /\ Open(g)
    /\ UNCHANGED <<processes, vec, counts, loop>>
    /\ EnsuredOrAborted(vec[HANDLES][g])

\* The handle is released before the disk is accessed.
F_CLOSE == \E g \in Handle :
    /\ pc = "idle" /\ Open(g)
    /\ CLOSE_FAB(g)
    /\ EnsuredOrAborted(vec[HANDLES][g])
    /\ UNCHANGED <<processes, loop>>

F_DUP == \E g, i \in Handle :
    LET f == vec[HANDLES][g] IN
    /\ pc = "idle" /\ Open(g) /\ FIND_NEW_HANDLE(i)
    /\ INC_FAB_REF(f)
    /\ SetHandle(HANDLES, i, f)
    /\ UNCHANGED <<processes, FAB_CHAIN, files, loop, waived>>

\* The file is deleted, or not if it is read only, open elsewhere or an access
\* is aborted; the duplicates of the handle are dead in any case.
HDeleted(f) ==
    IF fab[f].dead \/ Located(fab[f].name) = {}
    THEN fab' = [fab EXCEPT ![f].dead = TRUE] /\ dir' = dir
    ELSE /\ fab' = [fab EXCEPT ![f].dead = TRUE, ![f].modified = FALSE]
         /\ \/ dir' = Updated(f)
            \/ ~FAB_SCAN(f, EntryOf(f)) /\ dir' = [dir EXCEPT ![EntryOf(f)] = Free]

F_HDELET == \E g \in Handle :
    LET f == vec[HANDLES][g] IN
    /\ pc = "idle" /\ Open(g)
    /\ CLOSE_FAB(g)
    /\ \/ HDeleted(f) /\ UNCHANGED waived
       \/ Aborted /\ UNCHANGED files
    /\ UNCHANGED <<processes, loop>>

\* REN_FIB: may entry s, of FAB f or of none, get the name n?
REN_FIB(f, s, n) == Located(n) = {} /\ ~FAB_SCAN(f, s)

\* If it may not, the file is ensured all the same: F_ENSURE.
F_HRENAM == \E g \in Handle, n \in Names :
    LET f == vec[HANDLES][g] IN
    /\ pc = "idle" /\ Open(g)
    /\ ~fab[f].dead /\ Located(fab[f].name) # {}
    /\ REN_FIB(f, EntryOf(f), n)
    /\ dir' = [Updated(f) EXCEPT ![EntryOf(f)].name = n]
    /\ fab' = [fab EXCEPT ![f].name = n, ![f].modified = FALSE, ![f].slot = EntryOf(f)]
    /\ UNCHANGED <<processes, vec, counts, loop, waived>>

\* F_DELETE and F_RENAME by name: refused while any FAB is open to the file.
F_DELETE == \E s \in Slots :
    /\ pc = "idle" /\ dir[s] # Free /\ ~FAB_SCAN(Null, s)
    /\ dir' = [dir EXCEPT ![s] = Free]
    /\ UNCHANGED <<processes, vec, counts, fab, loop, waived>>

F_RENAME == \E s \in Slots, n \in Names :
    /\ pc = "idle" /\ dir[s] # Free /\ REN_FIB(Null, s, n)
    /\ dir' = [dir EXCEPT ![s].name = n]
    /\ UNCHANGED <<processes, vec, counts, fab, loop, waived>>

-----------------------------------------------------------------------------
(* F_FORK: a new vector, into which handles are copied one by one. *)

F_FORK ==
    /\ pc = "idle" /\ HANDLES < MaxProcesses
    /\ HANDLES' = HANDLES + 1
    /\ vec' = [vec EXCEPT ![HANDLES + 1] = [g \in Handle |-> Null]]
    /\ IF HANDLES = 0 THEN PROC_ID' = PROC_ID + 1 /\ UNCHANGED pc
                      ELSE pc' = "fork" /\ UNCHANGED PROC_ID
    /\ b' = 0
    /\ UNCHANGED <<counts, files, want, v, waived>>

\* Mutant: the use count is not raised.
Inherit_NoCount ==
    LET f == vec[HANDLES - 1][b] IN
    /\ pc = "fork" /\ b < MAX_FILE_HANDLES
    /\ IF f # Null /\ fab[f].inherit THEN SetHandle(HANDLES, b, f) ELSE UNCHANGED vec
    /\ b' = b + 1
    /\ UNCHANGED <<processes, counts, files, pc, want, v, waived>>

Inherit ==
    LET f == vec[HANDLES - 1][b] IN
    /\ pc = "fork" /\ b < MAX_FILE_HANDLES
    /\ IF f # Null /\ fab[f].inherit /\ refs[f] < MaxReferences
       THEN INC_FAB_REF(f) /\ SetHandle(HANDLES, b, f)
       ELSE UNCHANGED <<refs, vec>>
    /\ b' = b + 1
    /\ UNCHANGED <<processes, FAB_CHAIN, files, pc, want, v, waived>>

ForkDone ==
    /\ pc = "fork" /\ b = MAX_FILE_HANDLES
    /\ PROC_ID' = PROC_ID + 1
    /\ pc' = "idle"
    /\ UNCHANGED <<HANDLES, vec, counts, files, want, v, b, waived>>

-----------------------------------------------------------------------------
(* F_JOIN: memory and process number first, then the disk. *)

F_JOIN == \E p \in 0..MaxProcesses :
    /\ pc = "idle" /\ (p = 0 \/ p < PROC_ID)
    /\ want' = p /\ v' = HANDLES /\ b' = 0
    /\ pc' = IF HANDLES = 0 THEN "ensure" ELSE "dec"
    /\ UNCHANGED <<processes, vec, counts, files, waived>>

\* dec_ref_loop, over the vector that was just freed.
Dereference ==
    LET f == vec[HANDLES][b] IN
    /\ pc = "dec" /\ b < MAX_FILE_HANDLES
    /\ IF f = Null THEN UNCHANGED counts ELSE DEC_FAB_REF(f)
    /\ b' = b + 1
    /\ UNCHANGED <<processes, vec, files, pc, want, v, waived>>

\* dec_proc_loop: until the process, or with 0 the last vector, is reached.
NextProcess ==
    /\ pc = "dec" /\ b = MAX_FILE_HANDLES
    /\ HANDLES' = HANDLES - 1
    /\ IF HANDLES = 1 \/ (want # 0 /\ PROC_ID - 1 = want)
       THEN PROC_ID' = want /\ pc' = "ensure"
       ELSE PROC_ID' = PROC_ID - 1 /\ pc' = pc
    /\ b' = 0
    /\ UNCHANGED <<vec, counts, files, want, v, waived>>

\* Mutant: only the vector of the process that ends is looked at.
EnsureFreed_OneVector ==
    /\ pc = "ensure" /\ v > HANDLES
    /\ LET f == vec[v][b] IN
       IF f = Null THEN UNCHANGED files ELSE Ensured(f)
    /\ IF b + 1 < MAX_FILE_HANDLES THEN b' = b + 1 /\ v' = v ELSE b' = 0 /\ v' = HANDLES
    /\ UNCHANGED <<processes, vec, counts, pc, want, waived>>

\* close_hand_lp2: the FABs of the freed vectors, freed or not.
EnsureFreed ==
    /\ pc = "ensure" /\ v > HANDLES
    /\ LET f == vec[v][b] IN
       IF f = Null THEN UNCHANGED files ELSE Ensured(f)
    /\ IF b + 1 < MAX_FILE_HANDLES THEN b' = b + 1 /\ v' = v ELSE b' = 0 /\ v' = v - 1
    /\ UNCHANGED <<processes, vec, counts, pc, want, waived>>

\* An access to the disk is aborted: for a directory entry, or in FL_PHYS.
JoinAborted ==
    /\ pc = "ensure" /\ FAB_CHAIN' = FAB_CHAIN
    /\ v > HANDLES => vec[v][b] # Null /\ ENSURE_FAB(vec[v][b])
    /\ Aborted
    /\ pc' = "idle"
    /\ UNCHANGED <<processes, vec, refs, files, want, v, b>>

\* close_hand_done: process 0 is given a vector, if there is memory for it, and
\* the default handles.
JoinDone ==
    /\ pc = "ensure" /\ v = HANDLES
    /\ b' = 0
    /\ IF PROC_ID = 0
       THEN /\ pc' = "defaults"
            /\ \/ /\ HANDLES' = 1 /\ PROC_ID' = 1
                  /\ vec' = [vec EXCEPT ![1] = [g \in Handle |-> Null]]
               \/ UNCHANGED <<processes, vec>>
       ELSE pc' = "idle" /\ UNCHANGED <<processes, vec>>
    /\ UNCHANGED <<counts, files, want, v, waived>>

\* OPEN_DEF_HAND, one device after the other.
OpenDefault ==
    /\ pc = "defaults" /\ b < DefaultHandles
    /\ \/ OpenDevice(TRUE)
       \/ UNCHANGED <<vec, counts, fab, waived>>
    /\ b' = b + 1
    /\ UNCHANGED <<processes, dir, pc, want, v>>

DefaultsDone ==
    /\ pc = "defaults" /\ b = DefaultHandles
    /\ pc' = "idle"
    /\ UNCHANGED <<processes, vec, counts, files, want, v, b, waived>>

-----------------------------------------------------------------------------
(* F_MAPDRV, as far as it closes files; the drive is then mapped again. *)

\* Without a handle vector there is nothing to close.
MAP_UNMAP ==
    /\ pc = "idle" /\ HANDLES > 0
    /\ pc' = "unmap" /\ b' = 0
    /\ UNCHANGED <<processes, vec, counts, files, want, v, waived>>

CLOSE_HANDLES ==
    LET f == vec[HANDLES][b] IN
    /\ pc = "unmap" /\ b < MAX_FILE_HANDLES
    /\ IF f # Null /\ fab[f].slot # Device
       THEN /\ CLOSE_FAB(b)
            /\ \/ Ensured(f) /\ UNCHANGED <<pc, waived>>
               \/ Aborted /\ pc' = "idle" /\ UNCHANGED files
       ELSE UNCHANGED <<vec, counts, files, pc, waived>>
    /\ b' = b + 1
    /\ UNCHANGED <<processes, want, v>>

HandlesClosed ==
    /\ pc = "unmap" /\ b = MAX_FILE_HANDLES
    /\ pc' = "unmapped"
    /\ UNCHANGED <<processes, vec, counts, files, want, v, b, waived>>

Remap ==
    /\ pc = "unmapped"
    /\ pc' = "idle"
    /\ UNCHANGED <<processes, vec, counts, files, want, v, b, waived>>

Next == \/ F_OPEN \/ F_CREATE \/ F_WRITE \/ F_ENSURE \/ F_CLOSE \/ F_DUP
        \/ F_HDELET \/ F_HRENAM \/ F_DELETE \/ F_RENAME
        \/ F_FORK \/ F_JOIN \/ MAP_UNMAP
        \/ Inherit \/ ForkDone
        \/ Dereference \/ NextProcess \/ EnsureFreed \/ JoinAborted \/ JoinDone
        \/ OpenDefault \/ DefaultsDone
        \/ CLOSE_HANDLES \/ HandlesClosed \/ Remap

Spec == Init /\ [][Next]_vars

-----------------------------------------------------------------------------
(* Properties. *)

\* The handles that count: those of the processes there are, but for the part
\* of the current vector that F_JOIN has gone through.
Counted(p, g) == p <= HANDLES /\ (pc = "dec" /\ p = HANDLES => g >= b)

References(f) == {x \in Process \X Handle : Counted(x[1], x[2]) /\ vec[x[1]][x[2]] = f}

\* A FAB is allocated exactly as long as handles refer to it, and its count is
\* their number, through duplication, inheritance, closing, F_JOIN over several
\* processes and ABORT anywhere: none is freed under a handle, none leaks.
UseCounts == \A f \in Fabs : /\ refs[f] = Cardinality(References(f))
                             /\ f \in FAB_CHAIN <=> refs[f] > 0

\* A FAB that can still be used finds its own file, by place and by name: no
\* other function deletes, renames or replaces a file under an open handle.
OpenFileThere == \A f \in FAB_CHAIN :
    fab[f].slot # Device /\ ~fab[f].dead =>
        dir[fab[f].slot] = [name |-> fab[f].name, file |-> fab[f].file]

\* When a function has ended, no file that was written to has lost its last
\* handle without its directory entry having been brought up to date, unless the
\* user aborted just that or the file was deleted.
NoWriteForgotten == pc = "idle" => \A f \in Fabs \ FAB_CHAIN :
    fab[f].modified /\ ~fab[f].dead => f \in waived

\* "All file handles related to a given drive are closed prior to changing the
\* mapping state of that drive" (partit.mac 2846-2847).
UnmapClosesAll == pc = "unmapped" => \A f \in FAB_CHAIN : fab[f].slot = Device

\* FAB_SCAN tells "if any of them refer to the same file" (handles.mac 1732-1733):
\* F_DELETE, F_RENAME and F_CREATE are refused a file with .FOPEN only if there
\* is a FAB of that file.
RefusedOnlyIfOpen == \A s \in Slots : dir[s] # Free /\ FAB_SCAN(Null, s) =>
    \E f \in FAB_CHAIN : fab[f].file = dir[s].file
=============================================================================
