------------------------------ MODULE BufferPool ------------------------------
(***************************************************************************)
(* The sector buffers of the kernel (kernel/bank2/buf.mac), with the error *)
(* dialogue of err.mac and the transfers of rw.mac that bypass the buffers *)
(* and must stay coherent with them.                                       *)
(*                                                                         *)
(* One action is one kernel routine with every answer the user can give    *)
(* when the unit handler reports an error: RETRY is the choice of the      *)
(* branch where the transfer works, IGNORE and ABORT are branches of their *)
(* own.  A transfer that fails leaves the medium as it was.  The sectors   *)
(* have one copy on the medium (FAT copies belong to FatCopies).           *)
(***************************************************************************)
EXTENDS Naturals, FiniteSets, BufferOrder

CONSTANTS Units, Sectors, Values, Buffers,
          Empty,          \* physical unit number 0: the buffer is free
          Zero,           \* a sector of zeroes
          IgnoreSectors,  \* sectors fetched with "ignore allowed" (file data)
          Runs            \* the runs of sectors transferred past the buffers

ASSUME PoolAssumption ==
    /\ Units # {} /\ Empty \notin Units
    /\ Zero \in Values
    /\ IgnoreSectors \subseteq Sectors
    /\ Sectors \subseteq Nat /\ Sectors # {}
    /\ Runs \subseteq SUBSET Sectors
    /\ IsFiniteSet(Buffers) /\ Buffers # {}

Blocks == Units \X Sectors

VARIABLES chain,   \* the buffer chain from B_CHAIN: first to be re-used first
          cache,   \* B_CACHE: the buffer returned last
          buf,     \* the buffer descriptors
          disk,    \* the medium
          waived,  \* history: blocks on which the user ignored an error
          result   \* history: how the last operation ended

vars == <<chain, cache, buf, disk, waived, result>>

Descriptor == [unit : Units \cup {Empty}, sector : Sectors, dirty : BOOLEAN,
               ignore : BOOLEAN, data : Values]

TypeOK == /\ chain \in [1..Cardinality(Buffers) -> Buffers]
          /\ {chain[i] : i \in DOMAIN chain} = Buffers
          /\ cache \in Buffers
          /\ buf \in [Buffers -> Descriptor]
          /\ disk \in [Blocks -> Values]
          /\ waived \subseteq Blocks
          /\ result \in {"ok", "flushed", "abort"}

-----------------------------------------------------------------------------
(* The state a routine works on, and what it leaves behind. *)

Now == [chain |-> chain, cache |-> cache, buf |-> buf, disk |-> disk, waived |-> waived]

Becomes(p, r) == /\ chain' = p.chain /\ cache' = p.cache /\ buf' = p.buf
                 /\ disk' = p.disk /\ waived' = p.waived
                 /\ result' = r

Block(d) == <<d.unit, d.sector>>
Valid(d) == d.unit # Empty
Dirty(d) == Valid(d) /\ d.dirty

\* BF_CMP: does this descriptor hold the sector?
BF_CMP(d, x) == Block(d) = x

\* Mark the buffers of S free and have them re-used first.
Invalidate(p, S) ==
    [p EXCEPT !.chain = AllToStart(p.chain, S),
              !.buf = [b \in Buffers |-> IF b \in S THEN [p.buf[b] EXCEPT !.unit = Empty]
                                                    ELSE p.buf[b]]]

UnitBuffers(p, u) == {b \in Buffers : p.buf[b].unit = u}

\* INV_UD: forget everything buffered for a unit, dirty or not.
INV_UD(p, u) == Invalidate(p, UnitBuffers(p, u))

-----------------------------------------------------------------------------
(* BF_FLUSH: the dirty mark is cleared before the write is tried, and stays *)
(* cleared whatever the user answers.                                       *)

Cleaned(p, b) == [p EXCEPT !.buf[b].dirty = FALSE]

FlushWrites(p, b) == [Cleaned(p, b) EXCEPT !.disk[Block(p.buf[b])] = p.buf[b].data]

FlushIgnored(p, b) == [Cleaned(p, b) EXCEPT !.waived = @ \cup {Block(p.buf[b])}]

BF_FLUSH(p, b) ==
    IF ~Dirty(p.buf[b]) THEN {p}
    ELSE {FlushWrites(p, b)} \cup (IF p.buf[b].ignore THEN {FlushIgnored(p, b)} ELSE {})

\* DISK_ERR answered with ABORT: INV_UD for the unit in error, no return.
FlushAborted(p, b) == INV_UD(Cleaned(p, b), p.buf[b].unit)

-----------------------------------------------------------------------------
(* BF_SECTOR. *)

Hits(p, x) == {b \in Buffers : BF_CMP(p.buf[b], x)}

\* Mutant: the buffer is put at the end without being taken out.
Returned_Twice(p, b) == [p EXCEPT !.cache = b, !.chain = Append(p.chain, b)]

\* The buffer returned is cached and will be re-used as late as possible.
Returned(p, b) == [p EXCEPT !.cache = b, !.chain = MoveToEnd(p.chain, b)]

\* The first buffer of the chain is taken over for sector x.
TakeOver(p, b, x) ==
    [p EXCEPT !.buf[b] = [unit |-> x[1], sector |-> x[2], dirty |-> FALSE,
                          ignore |-> x[2] \in IgnoreSectors, data |-> Zero],
              !.waived = @ \ {x}]

Filled(p, b, x) == [p EXCEPT !.buf[b].data = p.disk[x]]

\* A read error was ignored: the buffer keeps its zeroes.
NotFilled(p, b, x) == [p EXCEPT !.waived = @ \cup {x}]

PreRead(p, b, x) ==
    {Filled(p, b, x)} \cup (IF p.buf[b].ignore THEN {NotFilled(p, b, x)} ELSE {})

\* The first buffer of the chain is flushed and taken over.
Fetched(p, x, read) ==
    LET b == p.chain[1]
        taken == {TakeOver(q, b, x) : q \in BF_FLUSH(p, b)}
        ready == IF read THEN UNION {PreRead(q, b, x) : q \in taken} ELSE taken
    IN  {Returned(q, b) : q \in ready}

\* Mutant: only the cached buffer is looked at.
BF_SECTOR_NoSearch(p, x, read) ==
    IF BF_CMP(p.buf[p.cache], x) THEN {p} ELSE Fetched(p, x, read)

\* The pools in which BF_SECTOR can return with sector x in the cached buffer.
BF_SECTOR(p, x, read) ==
    IF BF_CMP(p.buf[p.cache], x) THEN {p}   \* and it is not moved
    ELSE IF Hits(p, x) # {} THEN {Returned(p, b) : b \in Hits(p, x)}
    ELSE Fetched(p, x, read)

\* The pools left behind when it is aborted instead.
BF_SECTOR_aborted(p, x, read) ==
    LET b == p.chain[1] IN
    IF Hits(p, x) # {} THEN {}
    ELSE (IF Dirty(p.buf[b]) THEN {FlushAborted(p, b)} ELSE {})
         \cup (IF read THEN {INV_UD(TakeOver(q, b, x), x[1]) : q \in BF_FLUSH(p, b)} ELSE {})

\* DIRT_CACHE after the caller stored new contents in the cached buffer.
DIRT_CACHE(p, x, d) ==
    [p EXCEPT !.buf[p.cache].data = d, !.buf[p.cache].dirty = TRUE,
              !.waived = @ \ {x}]

-----------------------------------------------------------------------------
(* FL_UD / FL_PHYS: every flagged buffer in chain order, until done. *)

Precedes(p, b, c) == \E i, j \in DOMAIN p.chain : i < j /\ p.chain[i] = b /\ p.chain[j] = c

\* Buffers D flushed, those of I with an ignored error.
FlushedAll(p, D, I) ==
    [p EXCEPT !.buf = [b \in Buffers |-> IF b \in D THEN [@[b] EXCEPT !.dirty = FALSE] ELSE @[b]],
              !.disk = [x \in Blocks |->
                          IF \E b \in D \ I : Block(p.buf[b]) = x
                          THEN p.buf[CHOOSE b \in D \ I : Block(p.buf[b]) = x].data
                          ELSE @[x]],
              !.waived = @ \cup {Block(p.buf[b]) : b \in I}]

Ignorable(p, D) == {b \in D : p.buf[b].ignore}

FL(p, U) == LET D == {b \in Buffers : Dirty(p.buf[b]) /\ p.buf[b].unit \in U}
            IN  {FlushedAll(p, D, I) : I \in SUBSET Ignorable(p, D)}

\* The user aborts at one of the buffers: those before it were dealt with.
FL_aborted(p, U) ==
    LET D == {b \in Buffers : Dirty(p.buf[b]) /\ p.buf[b].unit \in U}
        Before(b) == {c \in D : Precedes(p, c, b)}
    IN  UNION {{FlushAborted(FlushedAll(p, Before(b), I), b) :
                    I \in SUBSET Ignorable(p, Before(b))} : b \in D}

-----------------------------------------------------------------------------
(* RW_MANY for one run of sectors X of unit u, straight to the medium, and *)
(* CORRECT_BUF after it.                                                   *)

Written(p, u, X, d) ==
    [p EXCEPT !.disk = [x \in Blocks |-> IF x[1] = u /\ x[2] \in X THEN d ELSE @[x]]]

\* Mutant: a clean buffer of a transferred sector is kept.
CORRECT_BUF_DirtyOnly(p, u, X) ==
    Invalidate(p, {b \in UnitBuffers(p, u) : p.buf[b].dirty /\ p.buf[b].sector \in X})

\* A write invalidates the buffers of the transferred sectors, dirty or not.
CORRECT_BUF(p, u, X) ==
    Invalidate(p, {b \in UnitBuffers(p, u) : p.buf[b].sector \in X})

\* I are the sectors whose error the user ignored.
RW_MANY(p, u, X, d) ==
    {[CORRECT_BUF(Written(p, u, X \ I, d), u, X)
        EXCEPT !.waived = {x \in @ : ~(x[1] = u /\ x[2] \in X)} \cup ({u} \X I)]
            : I \in SUBSET X}

\* Aborted at sector k: those before it, I, are on the medium unless ignored.
RW_MANY_aborted(p, u, X, d) ==
    UNION {{INV_UD(Written(p, u, I, d), u) : I \in SUBSET {s \in X : s < k}} : k \in X}

\* A read takes the medium, then dirty buffers are copied over it.
RW_MANY_read(p, u, X) ==
    [s \in X |-> IF \E b \in Hits(p, <<u, s>>) : p.buf[b].dirty
                 THEN p.buf[CHOOSE b \in Hits(p, <<u, s>>) : p.buf[b].dirty].data
                 ELSE p.disk[<<u, s>>]]

-----------------------------------------------------------------------------
(* Operations of the callers. *)

Init == /\ \E ch \in [1..Cardinality(Buffers) -> Buffers] :
             {ch[i] : i \in DOMAIN ch} = Buffers /\ chain = ch /\ cache = ch[1]
        /\ buf = [b \in Buffers |-> [unit |-> Empty, sector |-> CHOOSE s \in Sectors : TRUE,
                                     dirty |-> FALSE, ignore |-> FALSE, data |-> Zero]]
        /\ disk = [x \in Blocks |-> Zero]
        /\ waived = {}
        /\ result = "ok"

\* RW_SECTOR reading, and every other reader of a buffered sector.
ReadSector == \E x \in Blocks, p \in {Now} :
                \/ \E q \in BF_SECTOR(p, x, TRUE) : Becomes(q, "ok")
                \/ \E q \in BF_SECTOR_aborted(p, x, TRUE) : Becomes(q, "abort")

\* RW_SECTOR writing: pre-read or not, store, DIRT_CACHE.
WriteSector == \E x \in Blocks, d \in Values, read \in BOOLEAN :
                \/ \E q \in BF_SECTOR(Now, x, read) : Becomes(DIRT_CACHE(q, x, d), "ok")
                \/ \E q \in BF_SECTOR_aborted(Now, x, read) : Becomes(q, "abort")

\* RW_SECTOR reaching the end of the sector: BF_SFL on the cached buffer.
FinishSector == LET p == Now IN
    \/ \E q \in BF_FLUSH(p, cache) :
          Becomes([q EXCEPT !.chain = MoveToStart(@, cache)], "ok")
    \/ Dirty(buf[cache]) /\ Becomes(FlushAborted(p, cache), "abort")

\* FL_LOG, FL_UD, FL_PHYS (one unit, or 0FFh for all of them).
FlushUnits == \E U \in {{u} : u \in Units} \cup {Units} :
                \/ \E q \in FL(Now, U) : Becomes(q, "flushed")
                \/ \E q \in FL_aborted(Now, U) : Becomes(q, "abort")

\* A file transfer of whole sectors.
DirectWrite == \E u \in Units, X \in Runs, d \in Values :
                \/ \E q \in RW_MANY(Now, u, X, d) : Becomes(q, "ok")
                \/ \E q \in RW_MANY_aborted(Now, u, X, d) : Becomes(q, "abort")

\* F_RDDRV: the medium is read, so what is buffered must get there first.
AbsoluteRead == \E u \in Units :
    \/ \E q \in FL(Now, {u}), r \in {"flushed", "abort"} : Becomes(INV_UD(q, u), r)
    \/ \E q \in FL_aborted(Now, {u}) : Becomes(q, "abort")

\* Mutant: they are dropped without being flushed.
AbsoluteWrite_NoFlush == \E u \in Units, X \in Runs, d \in Values :
    \/ \E r \in RW_MANY(INV_UD(Now, u), u, X, d) : Becomes(INV_UD(r, u), "ok")
    \/ \E r \in RW_MANY_aborted(INV_UD(Now, u), u, X, d) : Becomes(r, "abort")

\* F_WRDRV: the buffers of the unit are flushed and dropped around the transfer.  All
\* sectors go the direct way here, so the second flush (rw.mac 148) has nothing to write.
AbsoluteWrite == \E u \in Units, X \in Runs, d \in Values :
                \/ \E q \in FL(Now, {u}) :
                      \/ \E r \in RW_MANY(INV_UD(q, u), u, X, d) : Becomes(INV_UD(r, u), "ok")
                      \/ \E r \in RW_MANY_aborted(INV_UD(q, u), u, X, d) : Becomes(r, "abort")
                \/ \E q \in FL_aborted(Now, {u}) : Becomes(q, "abort")

Next == \/ ReadSector \/ WriteSector \/ FinishSector \/ FlushUnits
        \/ DirectWrite \/ AbsoluteWrite \/ AbsoluteRead

Spec == Init /\ [][Next]_vars

-----------------------------------------------------------------------------
(* Properties. *)

\* What the kernel sees in a sector: its buffer if it has one, else the medium.
View(x) == IF Hits(Now, x) = {} THEN disk[x]
           ELSE buf[CHOOSE b \in Buffers : BF_CMP(buf[b], x)].data

\* No sector is ever held by two buffers: BF_SECTOR finds the one the last
\* writer used, whatever was evicted, invalidated or aborted in between.
UniqueBuffer == \A b, c \in Buffers :
    Valid(buf[b]) /\ Block(buf[b]) = Block(buf[c]) => b = c

\* A direct read (RW_MANY, CORRECT_BUF) returns for every sector what a
\* buffered read would: a clean buffer never differs from the medium, except
\* where the user ignored an error on that very sector.
DirectReadCoherent == \A x \in Blocks \ waived :
    RW_MANY_read(Now, x[1], {x[2]})[x[2]] = View(x)

\* The buffers implement SectorStore: no write is lost, duplicated or applied
\* to another sector by eviction, flush, direct transfer or error handling.
Store == INSTANCE SectorStore
             WITH current <- [x \in Blocks |-> View(x)], durable <- disk

StoreSpec == Store!Spec
=============================================================================
