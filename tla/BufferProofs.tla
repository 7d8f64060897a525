--------------------------- MODULE BufferProofs ---------------------------
(* First, no sector is ever held by two buffers, for every number of buffers, *)
(* units and sectors: BF_SECTOR, the flushing and invalidating loops, the     *)
(* direct transfers and the ABORT answers all preserve it.  That proof needs  *)
(* nothing of the order of the chain, nor of the contents of sectors:         *)
(* whichever buffer is taken over, the sector was in none.                    *)
(* Then, the sector buffers implement SectorStore, whatever the user answers. *)
(* That proof adds two things to the uniqueness: a clean buffer has what the  *)
(* medium has unless an error was waived, and the chain always holds every    *)
(* buffer, so that its first one can be taken over.                           *)
(* At the end, the linked list of BufferChain is that chain.                  *)
EXTENDS BufferPool, BufferChain, ProofLemmas

DescriptorFields == {"unit", "sector", "dirty", "ignore", "data"}

\* No two descriptors name the same block.
Unique(bf) == \A b, c \in Buffers :
                 Valid(bf[b]) /\ Block(bf[b]) = Block(bf[c]) => b = c

\* What matters of a pool: every buffer has a descriptor, no block has two.
Sound(p) == /\ DOMAIN p = {"chain", "cache", "buf", "disk", "waived"}
            /\ DOMAIN p.buf = Buffers
            /\ p.buf = [b \in Buffers |-> p.buf[b]]
            /\ \A b \in Buffers : DOMAIN p.buf[b] = DescriptorFields
            /\ Unique(p.buf)

IInv == Sound(Now)

\* The pool is what the variables hold after the step.
LEMMA BecomesSound == ASSUME NEW p, Sound(p), NEW r, Becomes(p, r) PROVE IInv'
<1>1. buf' = p.buf
  BY DEF Becomes
<1>2. IInv' <=> Sound(Now)'
  BY DEF IInv
<1> QED
  BY <1>1, <1>2 DEF Sound, Now, Unique, Valid, Block

\* A pool that gives no buffer another block, except the free "none".
LEMMA SameBlocks ==
  ASSUME NEW p, Sound(p), NEW q, DOMAIN q = DOMAIN p,
         DOMAIN q.buf = Buffers, q.buf = [b \in Buffers |-> q.buf[b]],
         \A b \in Buffers : DOMAIN q.buf[b] = DescriptorFields,
         \A b \in Buffers : q.buf[b].unit = Empty \/ Block(q.buf[b]) = Block(p.buf[b])
  PROVE  Sound(q)
  BY DEF Sound, Unique, Valid, Block

-----------------------------------------------------------------------------
(* What the routines do to single descriptors. *)

\* Freeing buffers and moving them in the chain.
LEMMA InvalidateSound == ASSUME NEW p, Sound(p), NEW S PROVE Sound(Invalidate(p, S))
<1> DEFINE q == Invalidate(p, S)
<1>1. /\ DOMAIN q = DOMAIN p
      /\ q.buf = [b \in Buffers |-> IF b \in S THEN [p.buf[b] EXCEPT !.unit = Empty]
                                              ELSE p.buf[b]]
  BY DEF Sound, Invalidate
<1>2. \A b \in Buffers : /\ DOMAIN q.buf[b] = DescriptorFields
                         /\ q.buf[b].unit = Empty \/ Block(q.buf[b]) = Block(p.buf[b])
  BY <1>1 DEF Sound, DescriptorFields, Block
<1> QED
  BY <1>1, <1>2, SameBlocks

LEMMA CleanedSound ==
  ASSUME NEW p, Sound(p), NEW b
  PROVE  /\ Sound(Cleaned(p, b))
         /\ DOMAIN Cleaned(p, b) = DOMAIN p
         /\ \A c \in Buffers : Block(Cleaned(p, b).buf[c]) = Block(p.buf[c])
<1> DEFINE q == Cleaned(p, b)
<1>1. /\ DOMAIN q = DOMAIN p
      /\ q.buf = [p.buf EXCEPT ![b] = [p.buf[b] EXCEPT !.dirty = FALSE]]
  BY DEF Sound, Cleaned
<1>2. \A c \in Buffers : /\ DOMAIN q.buf[c] = DescriptorFields
                         /\ Block(q.buf[c]) = Block(p.buf[c])
  BY <1>1 DEF Sound, DescriptorFields, Block
<1>3. DOMAIN q.buf = Buffers /\ q.buf = [c \in Buffers |-> q.buf[c]]
  BY <1>1 DEF Sound
<1>4. Sound(q)
  BY <1>1, <1>2, <1>3, SameBlocks
<1> QED
  BY <1>1, <1>2, <1>4

\* BF_FLUSH, in each of its outcomes: the buffers keep their blocks.
LEMMA FlushSound ==
  ASSUME NEW p, Sound(p), NEW b, NEW q \in BF_FLUSH(p, b)
  PROVE  /\ Sound(q)
         /\ DOMAIN q = DOMAIN p
         /\ \A c \in Buffers : Block(q.buf[c]) = Block(p.buf[c])
<1> DEFINE c == Cleaned(p, b)
<1>0. Sound(c)
  BY CleanedSound
<1>1. CASE q = p
  BY <1>1
<1>2. CASE q \in {FlushWrites(p, b), FlushIgnored(p, b)}
  <2>1. DOMAIN q = DOMAIN c /\ q.buf = c.buf
    BY <1>0, <1>2 DEF Sound, FlushWrites, FlushIgnored
  <2>2. Sound(q)
    BY <1>0, <2>1 DEF Sound
  <2> QED
    BY <2>1, <2>2, CleanedSound
<1> QED
  BY <1>1, <1>2 DEF BF_FLUSH

LEMMA FlushAbortedSound == ASSUME NEW p, Sound(p), NEW b PROVE Sound(FlushAborted(p, b))
  BY CleanedSound, InvalidateSound DEF FlushAborted, INV_UD

-----------------------------------------------------------------------------
(* BF_SECTOR. *)

LEMMA FlushHits ==
  ASSUME NEW p, Sound(p), NEW b, NEW q \in BF_FLUSH(p, b), NEW x, Hits(p, x) = {}
  PROVE  Hits(q, x) = {}
  BY FlushSound DEF Hits, BF_CMP

\* Taking a buffer over for a sector nobody holds.
LEMMA TakeOverSound ==
  ASSUME NEW p, Sound(p), NEW b, NEW x \in Blocks, Hits(p, x) = {}
  PROVE  Sound(TakeOver(p, b, x))
<1> DEFINE d == [unit |-> x[1], sector |-> x[2], dirty |-> FALSE,
                 ignore |-> x[2] \in IgnoreSectors, data |-> Zero]
           q == TakeOver(p, b, x)
<1>1. DOMAIN d = DescriptorFields /\ Block(d) = x
  BY DEF DescriptorFields, Block, Blocks
<1>2. DOMAIN q = DOMAIN p /\ q.buf = [p.buf EXCEPT ![b] = d]
  BY DEF Sound, TakeOver
<1>3. \A c \in Buffers : Block(p.buf[c]) # x
  BY DEF Hits, BF_CMP
<1> HIDE DEF d
<1>4. /\ DOMAIN q.buf = Buffers /\ q.buf = [c \in Buffers |-> q.buf[c]]
      /\ \A c \in Buffers : DOMAIN q.buf[c] = DescriptorFields
  BY <1>1, <1>2 DEF Sound
<1>5. Unique(q.buf)
  BY <1>1, <1>2, <1>3 DEF Sound, Unique
<1> QED
  BY <1>2, <1>4, <1>5 DEF Sound

LEMMA PreReadSound ==
  ASSUME NEW p, Sound(p), NEW b, NEW x, NEW q \in PreRead(p, b, x) PROVE Sound(q)
<1>1. CASE q = Filled(p, b, x)
  <2>1. /\ DOMAIN q = DOMAIN p
        /\ q.buf = [p.buf EXCEPT ![b] = [p.buf[b] EXCEPT !.data = p.disk[x]]]
    BY <1>1 DEF Sound, Filled
  <2>2. \A c \in Buffers : /\ DOMAIN q.buf[c] = DescriptorFields
                           /\ Block(q.buf[c]) = Block(p.buf[c])
    BY <2>1 DEF Sound, DescriptorFields, Block
  <2>3. DOMAIN q.buf = Buffers /\ q.buf = [c \in Buffers |-> q.buf[c]]
    BY <2>1 DEF Sound
  <2> QED
    BY <2>1, <2>2, <2>3, SameBlocks
<1>2. CASE q = NotFilled(p, b, x)
  <2>1. DOMAIN q = DOMAIN p /\ q.buf = p.buf
    BY <1>2 DEF Sound, NotFilled
  <2> QED
    BY <2>1 DEF Sound
<1> QED
  BY <1>1, <1>2 DEF PreRead

LEMMA ReturnedSound == ASSUME NEW p, Sound(p), NEW b PROVE Sound(Returned(p, b))
  BY DEF Sound, Returned

\* BF_SECTOR returns with at most one buffer per sector, by every path: found
\* in the last buffer used, found in the chain, or fetched.
LEMMA SectorSound ==
  ASSUME NEW p, Sound(p), NEW x \in Blocks, NEW read \in BOOLEAN, NEW q \in BF_SECTOR(p, x, read)
  PROVE  Sound(q)
<1> DEFINE b == p.chain[1]
<1>1. CASE q = p
  BY <1>1
<1>2. CASE \E c \in Hits(p, x) : q = Returned(p, c)
  BY <1>2, ReturnedSound
<1>3. CASE /\ Hits(p, x) = {}
           /\ \E f \in BF_FLUSH(p, b) : LET t == TakeOver(f, b, x) IN
                 q = Returned(t, b) \/ \E r \in PreRead(t, b, x) : q = Returned(r, b)
  <2> PICK f \in BF_FLUSH(p, b) : LET t == TakeOver(f, b, x) IN
              q = Returned(t, b) \/ \E r \in PreRead(t, b, x) : q = Returned(r, b)
    BY <1>3
  <2>1. Sound(f) /\ Hits(f, x) = {}
    BY <1>3, FlushSound, FlushHits
  <2>2. Sound(TakeOver(f, b, x))
    BY <2>1, TakeOverSound
  <2> QED
    BY <2>2, PreReadSound, ReturnedSound
<1> QED
  BY <1>1, <1>2, <1>3 DEF BF_SECTOR, Fetched

LEMMA SectorAbortedSound ==
  ASSUME NEW p, Sound(p), NEW x \in Blocks, NEW read \in BOOLEAN,
         NEW q \in BF_SECTOR_aborted(p, x, read)
  PROVE  Sound(q)
<1> DEFINE b == p.chain[1]
<1>1. CASE q = FlushAborted(p, b)
  BY <1>1, FlushAbortedSound
<1>2. ASSUME Hits(p, x) = {}, NEW f \in BF_FLUSH(p, b), q = INV_UD(TakeOver(f, b, x), x[1])
      PROVE  Sound(q)
  <2>1. Sound(f) /\ Hits(f, x) = {}
    BY <1>2, FlushSound, FlushHits
  <2> QED
    BY <1>2, <2>1, TakeOverSound, InvalidateSound DEF INV_UD
<1> QED
  BY <1>1, <1>2 DEF BF_SECTOR_aborted

-----------------------------------------------------------------------------
(* The other routines. *)

LEMMA DirtSound == ASSUME NEW p, Sound(p), NEW x, NEW d PROVE Sound(DIRT_CACHE(p, x, d))
<1> DEFINE q == DIRT_CACHE(p, x, d)
           c == p.cache
<1>1. /\ DOMAIN q = DOMAIN p
      /\ q.buf = [p.buf EXCEPT ![c] = [[p.buf[c] EXCEPT !.data = d] EXCEPT !.dirty = TRUE]]
  BY DEF Sound, DIRT_CACHE
<1>2. \A b \in Buffers : /\ DOMAIN q.buf[b] = DescriptorFields
                         /\ Block(q.buf[b]) = Block(p.buf[b])
  BY <1>1 DEF Sound, DescriptorFields, Block
<1>3. DOMAIN q.buf = Buffers /\ q.buf = [b \in Buffers |-> q.buf[b]]
  BY <1>1 DEF Sound
<1> QED
  BY <1>1, <1>2, <1>3, SameBlocks

LEMMA FlushedAllSound ==
  ASSUME NEW p, Sound(p), NEW D, NEW I PROVE Sound(FlushedAll(p, D, I))
<1> DEFINE q == FlushedAll(p, D, I)
           bf == [b \in Buffers |-> IF b \in D THEN [p.buf[b] EXCEPT !.dirty = FALSE]
                                               ELSE p.buf[b]]
<1>1. DOMAIN q = DOMAIN p /\ q.buf = bf
  BY DEF Sound, FlushedAll
<1>2. \A b \in Buffers : DOMAIN bf[b] = DescriptorFields /\ Block(bf[b]) = Block(p.buf[b])
  BY DEF Sound, DescriptorFields, Block
<1>3. DOMAIN bf = Buffers /\ bf = [b \in Buffers |-> bf[b]]
  OBVIOUS
<1> HIDE DEF q, bf
<1>4. Sound(q)
  BY <1>1, <1>2, <1>3, SameBlocks
<1> QED
  BY <1>4 DEF q

\* FL_LOG, FL_UD and FL_PHYS, finished or aborted.
LEMMA FlSound ==
  ASSUME NEW p, Sound(p), NEW U, NEW q, q \in FL(p, U) \/ q \in FL_aborted(p, U)
  PROVE  Sound(q)
<1>1. CASE q \in FL(p, U)
  BY <1>1, FlushedAllSound DEF FL
<1>2. CASE q \in FL_aborted(p, U)
  <2> PICK D, I, b : q = FlushAborted(FlushedAll(p, D, I), b)
    BY <1>2 DEF FL_aborted
  <2> QED
    BY FlushedAllSound, FlushAbortedSound
<1> QED
  BY <1>1, <1>2

LEMMA WrittenSound == ASSUME NEW p, Sound(p), NEW u, NEW X, NEW d PROVE Sound(Written(p, u, X, d))
  BY DEF Sound, Written

\* RW_MANY writing, finished or aborted.
LEMMA ManySound ==
  ASSUME NEW p, Sound(p), NEW u, NEW X, NEW d, NEW q,
         q \in RW_MANY(p, u, X, d) \/ q \in RW_MANY_aborted(p, u, X, d)
  PROVE  Sound(q)
<1>1. CASE q \in RW_MANY(p, u, X, d)
  <2> DEFINE c(I) == CORRECT_BUF(Written(p, u, X \ I, d), u, X)
  <2>1. PICK I : q = [c(I) EXCEPT !.waived = {x \in @ : ~(x[1] = u /\ x[2] \in X)} \cup ({u} \X I)]
    BY <1>1 DEF RW_MANY
  <2>2. Sound(c(I))
    BY WrittenSound, InvalidateSound DEF CORRECT_BUF
  <2> HIDE DEF c
  <2>3. DOMAIN q = DOMAIN c(I) /\ q.buf = c(I).buf
    BY <2>1, <2>2 DEF Sound
  <2> QED
    BY <2>2, <2>3 DEF Sound
<1>2. CASE q \in RW_MANY_aborted(p, u, X, d)
  <2> PICK I : q = INV_UD(Written(p, u, I, d), u)
    BY <1>2 DEF RW_MANY_aborted
  <2> QED
    BY WrittenSound, InvalidateSound DEF INV_UD
<1> QED
  BY <1>1, <1>2

-----------------------------------------------------------------------------
LEMMA InitSound == Init => IInv
<1> SUFFICES ASSUME Init PROVE IInv
  OBVIOUS
<1>1. DOMAIN Now = {"chain", "cache", "buf", "disk", "waived"} /\ Now.buf = buf
  BY DEF Now
<1>2. \A b \in Buffers : DOMAIN buf[b] = DescriptorFields /\ buf[b].unit = Empty
  BY DEF Init, DescriptorFields
<1> QED
  BY <1>1, <1>2 DEF Init, IInv, Sound, Unique, Valid

LEMMA StepSound == ASSUME IInv, [Next]_vars PROVE IInv'
<1>0. Sound(Now)
  BY DEF IInv
<1>1. CASE ReadSector
  BY <1>0, <1>1, SectorSound, SectorAbortedSound, BecomesSound DEF ReadSector
<1>2. CASE WriteSector
  BY <1>0, <1>2, SectorSound, SectorAbortedSound, DirtSound, BecomesSound DEF WriteSector
<1>3. CASE FinishSector
  <2>1. ASSUME NEW q, Sound(q) PROVE Sound([q EXCEPT !.chain = MoveToStart(@, cache)])
    BY <2>1 DEF Sound
  <2> QED
    BY <1>0, <1>3, <2>1, FlushSound, FlushAbortedSound, BecomesSound DEF FinishSector
<1>4. CASE FlushUnits
  BY <1>0, <1>4, FlSound, BecomesSound DEF FlushUnits
<1>5. CASE DirectWrite
  BY <1>0, <1>5, ManySound, BecomesSound DEF DirectWrite
<1>6. CASE AbsoluteWrite
  <2>1. ASSUME NEW q, NEW u, Sound(q) PROVE Sound(INV_UD(q, u))
    BY <2>1, InvalidateSound DEF INV_UD
  <2> QED
    BY <1>0, <1>6, <2>1, FlSound, ManySound, BecomesSound DEF AbsoluteWrite
<1>8. CASE AbsoluteRead
  <2>1. ASSUME NEW q, NEW u, Sound(q) PROVE Sound(INV_UD(q, u))
    BY <2>1, InvalidateSound DEF INV_UD
  <2> QED
    BY <1>0, <1>8, <2>1, FlSound, BecomesSound DEF AbsoluteRead
<1>7. CASE UNCHANGED vars
  <2>1. Now' = Now
    BY <1>7 DEF vars, Now
  <2> QED
    BY <1>0, <1>7, <2>1 DEF IInv, Sound, Unique, Valid, Block
<1> QED
  BY <1>1, <1>2, <1>3, <1>4, <1>5, <1>6, <1>7, <1>8 DEF Next

\* At most one buffer per sector, in every reachable state.
THEOREM OneBufferPerSector == Spec => []UniqueBuffer
<1>1. IInv => UniqueBuffer
  BY DEF IInv, Sound, Unique, Now, UniqueBuffer
<1>2. Init => IInv
  BY InitSound
<1>3. IInv /\ [Next]_vars => IInv'
  BY StepSound
<1> QED
  BY <1>1, <1>2, <1>3, PTL DEF Spec

-----------------------------------------------------------------------------
(* The implementation of SectorStore: the chain of all buffers. *)

n == Cardinality(Buffers)

\* A chain of all buffers.
IsChain(ch) == Lists(ch, n, Buffers)

\* There is at least one buffer.
LEMMA NumberOfBuffers == n \in Nat /\ n >= 1
<1>1. n \in Nat
  BY PoolAssumption, FS_CardinalityType DEF n
<1>2. n # 0
  BY PoolAssumption, FS_EmptySet DEF n
<1> QED
  BY <1>1, <1>2

\* BF_END, BF_START and freeing the buffers of a unit lose no buffer.
LEMMA MovedChains ==
  ASSUME NEW ch, IsChain(ch)
  PROVE  /\ \A b \in Buffers : IsChain(MoveToEnd(ch, b)) /\ IsChain(MoveToStart(ch, b))
         /\ \A S : IsChain(AllToStart(ch, S))
<1>1. n \in Nat \ {0}
  BY NumberOfBuffers
<1> QED
  BY <1>1, MoveToEndLists, MoveToStartLists, AllToStartLists DEF IsChain

-----------------------------------------------------------------------------
(* What the kernel sees of a sector in a pool, and what is kept of it. *)

See(p, x) == IF Hits(p, x) = {} THEN p.disk[x]
             ELSE p.buf[CHOOSE b \in Buffers : BF_CMP(p.buf[b], x)].data

PoolTyped(p) == /\ Sound(p)
                /\ IsChain(p.chain) /\ p.cache \in Buffers
                /\ p.buf \in [Buffers -> Descriptor]
                /\ p.disk \in [Blocks -> Values]
                /\ p.waived \subseteq Blocks

\* A clean buffer has what the medium has, unless the user ignored an error on
\* the sector; or it is for one of X, and its contents are still to come.
CleanBut(p, X) == \A b \in Buffers :
    Valid(p.buf[b]) /\ ~p.buf[b].dirty /\ Block(p.buf[b]) \notin p.waived \cup X
        => p.buf[b].data = p.disk[Block(p.buf[b])]

Good(p, X) == PoolTyped(p) /\ CleanBut(p, X)

\* From pool p to pool q no sector outside X is seen to change ...
Kept(p, q, X) == \A x \in Blocks \ X :
    x \notin p.waived \cup q.waived => See(q, x) = See(p, x)

\* ... and the medium gets nothing that was not seen before.
Settled(p, q) == \A x \in Blocks : q.disk[x] \in {p.disk[x], See(p, x)}

UnitBlocks(u) == {u} \X Sectors

LEMMA SeeHit ==
  ASSUME NEW p, PoolTyped(p), NEW b \in Buffers, NEW x \in Blocks, Block(p.buf[b]) = x
  PROVE  See(p, x) = p.buf[b].data /\ Hits(p, x) = {b}
<1>1. \A c \in Buffers : Block(p.buf[c]) = x => Valid(p.buf[c])
  BY PoolAssumption DEF Block, Blocks, Valid
<1>2. \A c \in Buffers : Block(p.buf[c]) = x => c = b
  BY <1>1 DEF PoolTyped, Sound, Unique
<1>3. Hits(p, x) = {b} /\ (CHOOSE c \in Buffers : BF_CMP(p.buf[c], x)) = b
  BY <1>2 DEF Hits, BF_CMP
<1> QED
  BY <1>3 DEF See

LEMMA SeeMiss == ASSUME NEW p, NEW x, Hits(p, x) = {} PROVE See(p, x) = p.disk[x]
  BY DEF See

LEMMA SeeValue ==
  ASSUME NEW p, PoolTyped(p), NEW x \in Blocks
  PROVE  See(p, x) \in Values
<1>1. CASE Hits(p, x) = {}
  BY <1>1 DEF See, PoolTyped
<1>2. CASE Hits(p, x) # {}
  <2>1. PICK b \in Buffers : Block(p.buf[b]) = x
    BY <1>2 DEF Hits, BF_CMP
  <2>2. See(p, x) = p.buf[b].data
    BY <2>1, SeeHit
  <2> QED
    BY <2>2 DEF PoolTyped, Descriptor
<1> QED
  BY <1>1, <1>2

\* A buffer in use is for a sector there is.
LEMMA ValidBlock ==
  ASSUME NEW p, PoolTyped(p), NEW b \in Buffers, Valid(p.buf[b])
  PROVE  Block(p.buf[b]) \in Blocks /\ p.buf[b].unit \in Units
BY DEF PoolTyped, Descriptor, Valid, Block, Blocks

\* A sector is seen the same in two pools that agree on its buffer and the medium.
LEMMA SeeSame ==
  ASSUME NEW p, PoolTyped(p), NEW q, PoolTyped(q), NEW x \in Blocks,
         \A b \in Buffers : Block(q.buf[b]) = x <=> Block(p.buf[b]) = x,
         \A b \in Buffers : Block(p.buf[b]) = x => q.buf[b].data = p.buf[b].data,
         Hits(p, x) = {} => q.disk[x] = p.disk[x]
  PROVE  See(q, x) = See(p, x) /\ Hits(q, x) = Hits(p, x)
<1>1. Hits(q, x) = Hits(p, x)
  BY DEF Hits, BF_CMP
<1>2. CASE Hits(p, x) = {}
  BY <1>1, <1>2 DEF See
<1>3. CASE Hits(p, x) # {}
  <2>1. PICK b \in Buffers : Block(p.buf[b]) = x
    BY <1>3 DEF Hits, BF_CMP
  <2>2. See(p, x) = p.buf[b].data /\ See(q, x) = q.buf[b].data
    BY <2>1, SeeHit
  <2> QED
    BY <1>1, <2>1, <2>2
<1> QED
  BY <1>1, <1>2, <1>3

LEMMA KeptTwice ==
  ASSUME NEW p, NEW m, NEW q, NEW X, NEW Y, Kept(p, m, X), Kept(m, q, Y),
         \A x \in m.waived : x \in X \cup Y \/ x \in p.waived \cup q.waived
  PROVE  Kept(p, q, X \cup Y)
BY DEF Kept

-----------------------------------------------------------------------------
(* What the routines do to a pool. *)

Freed(p, S, q) ==
    /\ PoolTyped(q)
    /\ q.disk = p.disk /\ q.waived = p.waived
    /\ \A b \in Buffers : IF b \in S THEN q.buf[b].unit = Empty ELSE q.buf[b] = p.buf[b]

LEMMA InvalidateGood ==
  ASSUME NEW p, PoolTyped(p), NEW S, NEW q, q = Invalidate(p, S)
  PROVE  Freed(p, S, q)
<1>1. Sound(p) /\ Sound(q)
  BY InvalidateSound DEF PoolTyped
<1>2. /\ q.chain = AllToStart(p.chain, S) /\ q.cache = p.cache
      /\ q.disk = p.disk /\ q.waived = p.waived
      /\ q.buf = [b \in Buffers |-> IF b \in S THEN [p.buf[b] EXCEPT !.unit = Empty]
                                              ELSE p.buf[b]]
  BY <1>1 DEF Sound, Invalidate
<1>3. IsChain(q.chain)
  BY <1>2, MovedChains DEF PoolTyped
<1>4. \A b \in Buffers : q.buf[b] \in Descriptor /\ (b \in S => q.buf[b].unit = Empty)
  BY <1>2 DEF PoolTyped, Descriptor
<1>5. q.buf \in [Buffers -> Descriptor]
  BY <1>2, <1>4
<1> QED
  BY <1>1, <1>2, <1>3, <1>4, <1>5 DEF PoolTyped, Freed

\* INV_UD: the unit falls back to the medium, no other unit is touched.
LEMMA InvUdGood ==
  ASSUME NEW p, NEW u \in Units, NEW X, X \subseteq UnitBlocks(u), Good(p, X),
         NEW q, q = INV_UD(p, u)
  PROVE  /\ Good(q, {}) /\ q.disk = p.disk /\ q.waived = p.waived
         /\ Kept(p, q, UnitBlocks(u))
         /\ \A x \in UnitBlocks(u) : See(q, x) = q.disk[x]
<1>1. PoolTyped(p) /\ CleanBut(p, X)
  BY DEF Good
<1>2. /\ PoolTyped(q)
      /\ q.disk = p.disk /\ q.waived = p.waived
      /\ \A b \in Buffers : IF p.buf[b].unit = u THEN q.buf[b].unit = Empty
                                                 ELSE q.buf[b] = p.buf[b]
  <2>1. q = Invalidate(p, UnitBuffers(p, u))
    BY DEF INV_UD
  <2>2. \A b \in Buffers : b \in UnitBuffers(p, u) <=> p.buf[b].unit = u
    BY DEF UnitBuffers
  <2> QED
    BY <1>1, <2>1, <2>2, InvalidateGood DEF Freed
<1>3. CleanBut(q, {})
  <2> SUFFICES ASSUME NEW b \in Buffers, Valid(q.buf[b]), ~q.buf[b].dirty,
                      Block(q.buf[b]) \notin q.waived
               PROVE  q.buf[b].data = q.disk[Block(q.buf[b])]
    BY DEF CleanBut
  <2>1. q.buf[b] = p.buf[b] /\ p.buf[b].unit # u
    BY <1>2 DEF Valid
  <2>2. Block(p.buf[b]) \notin X
    BY <2>1 DEF Block, UnitBlocks
  <2> QED
    BY <1>1, <1>2, <2>1, <2>2 DEF CleanBut
<1>4. Kept(p, q, UnitBlocks(u))
  <2> SUFFICES ASSUME NEW x \in Blocks, x \notin UnitBlocks(u) PROVE See(q, x) = See(p, x)
    BY DEF Kept
  <2>1. x[1] # u /\ x[1] # Empty
    BY PoolAssumption DEF Blocks, UnitBlocks
  <2>2. \A b \in Buffers : Block(q.buf[b]) = x \/ Block(p.buf[b]) = x => q.buf[b] = p.buf[b]
    BY <1>2, <2>1 DEF Block
  <2> QED
    BY <1>1, <1>2, <2>2, SeeSame
<1>5. \A x \in UnitBlocks(u) : See(q, x) = q.disk[x]
  <2> SUFFICES ASSUME NEW x \in UnitBlocks(u) PROVE Hits(q, x) = {}
    BY SeeMiss
  <2>1. x[1] = u /\ u # Empty
    BY PoolAssumption DEF UnitBlocks
  <2>2. \A b \in Buffers : q.buf[b].unit # u
    BY <1>2, <2>1
  <2> QED
    BY <2>1, <2>2 DEF Hits, BF_CMP, Block
<1> QED
  BY <1>2, <1>3, <1>4, <1>5 DEF Good

LEMMA CleanedGood ==
  ASSUME NEW p, PoolTyped(p), NEW b \in Buffers, NEW q, q = Cleaned(p, b)
  PROVE  /\ PoolTyped(q)
         /\ q.disk = p.disk /\ q.waived = p.waived /\ q.chain = p.chain
         /\ \A c \in Buffers \ {b} : q.buf[c] = p.buf[c]
         /\ ~q.buf[b].dirty /\ q.buf[b].data = p.buf[b].data
         /\ q.buf[b].unit = p.buf[b].unit /\ q.buf[b].sector = p.buf[b].sector
<1>1. Sound(p) /\ Sound(q)
  BY CleanedSound DEF PoolTyped
<1>2. /\ q.chain = p.chain /\ q.cache = p.cache
      /\ q.disk = p.disk /\ q.waived = p.waived
      /\ q.buf = [p.buf EXCEPT ![b] = [p.buf[b] EXCEPT !.dirty = FALSE]]
  BY <1>1 DEF Sound, Cleaned
<1>3. p.buf[b] \in Descriptor /\ p.buf \in [Buffers -> Descriptor]
  BY DEF PoolTyped
<1>4. q.buf[b] = [p.buf[b] EXCEPT !.dirty = FALSE]
  BY <1>2, <1>3
<1>5. /\ q.buf[b] \in Descriptor /\ ~q.buf[b].dirty /\ q.buf[b].data = p.buf[b].data
      /\ q.buf[b].unit = p.buf[b].unit /\ q.buf[b].sector = p.buf[b].sector
  BY <1>3, <1>4 DEF Descriptor
<1>6. q.buf \in [Buffers -> Descriptor] /\ \A c \in Buffers \ {b} : q.buf[c] = p.buf[c]
  BY <1>2, <1>3, <1>5
<1> QED
  BY <1>1, <1>2, <1>5, <1>6 DEF PoolTyped

\* BF_FLUSH: the medium gets the sector or the user waives it; it is seen the same.
LEMMA FlushGood ==
  ASSUME NEW p, Good(p, {}), NEW b \in Buffers, NEW q \in BF_FLUSH(p, b)
  PROVE  /\ Good(q, {}) /\ Kept(p, q, {}) /\ Settled(p, q)
         /\ q.chain = p.chain
         /\ p.waived \subseteq q.waived /\ q.waived \subseteq p.waived \cup {Block(p.buf[b])}
         /\ \A x \in Blocks \ {Block(p.buf[b])} : q.disk[x] = p.disk[x]
         /\ \A x \in Blocks : See(q, x) = See(p, x)
         /\ \A c \in Buffers : Block(q.buf[c]) = Block(p.buf[c])
         /\ ~Dirty(q.buf[b])
<1>1. PoolTyped(p) /\ CleanBut(p, {})
  BY DEF Good
<1>2. CASE ~Dirty(p.buf[b])
  <2>1. q = p
    BY <1>2 DEF BF_FLUSH
  <2> QED
    BY <1>1, <1>2, <2>1 DEF Good, Kept, Settled
<1>3. CASE Dirty(p.buf[b])
  <2> DEFINE c == Cleaned(p, b)
             y == Block(p.buf[b])
  <2>1. /\ PoolTyped(c)
        /\ c.disk = p.disk /\ c.waived = p.waived /\ c.chain = p.chain
        /\ \A a \in Buffers \ {b} : c.buf[a] = p.buf[a]
        /\ ~c.buf[b].dirty /\ c.buf[b].data = p.buf[b].data
        /\ c.buf[b].unit = p.buf[b].unit /\ c.buf[b].sector = p.buf[b].sector
    BY <1>1, CleanedGood
  <2>2. Valid(p.buf[b]) /\ y \in Blocks /\ See(p, y) = p.buf[b].data
    BY <1>1, <1>3, ValidBlock, SeeHit DEF Dirty
  <2>3. \/ q = [c EXCEPT !.disk[y] = p.buf[b].data]
        \/ q = [c EXCEPT !.waived = @ \cup {y}]
    BY <1>3 DEF BF_FLUSH, FlushWrites, FlushIgnored
  <2>4. Sound(q)
    BY <1>1, FlushSound DEF PoolTyped
  <2> HIDE DEF c, y
  <2>5. /\ q.buf = c.buf /\ q.chain = c.chain /\ q.cache = c.cache
        /\ \/ q.disk = [c.disk EXCEPT ![y] = p.buf[b].data] /\ q.waived = c.waived
           \/ q.disk = c.disk /\ q.waived = c.waived \cup {y}
    BY <2>1, <2>3 DEF PoolTyped, Sound
  <2>6. p.buf[b].data \in Values
    BY <1>1 DEF PoolTyped, Descriptor
  <2>7. PoolTyped(q)
    BY <2>1, <2>2, <2>4, <2>5, <2>6 DEF PoolTyped
  <2>8. /\ \A x \in Blocks \ {y} : q.disk[x] = p.disk[x]
        /\ q.disk[y] = p.buf[b].data \/ (q.disk[y] = p.disk[y] /\ y \in q.waived)
    BY <1>1, <2>1, <2>2, <2>5 DEF PoolTyped
  <2>9. \A a \in Buffers : Block(q.buf[a]) = Block(p.buf[a]) /\ q.buf[a].data = p.buf[a].data
    BY <2>1, <2>5 DEF Block
  <2>10. \A x \in Blocks : See(q, x) = See(p, x)
    <3> SUFFICES ASSUME NEW x \in Blocks PROVE See(q, x) = See(p, x)
      OBVIOUS
    <3>1. Hits(p, x) = {} => x # y
      BY DEF Hits, BF_CMP, y
    <3> QED
      BY <1>1, <2>7, <2>8, <2>9, <3>1, SeeSame
  <2>11. CleanBut(q, {})
    <3> SUFFICES ASSUME NEW a \in Buffers, Valid(q.buf[a]), ~q.buf[a].dirty,
                        Block(q.buf[a]) \notin q.waived
                 PROVE  q.buf[a].data = q.disk[Block(q.buf[a])]
      BY DEF CleanBut
    <3>1. CASE a = b
      BY <2>8, <2>9, <3>1 DEF y
    <3>2. CASE a # b
      <4>1. q.buf[a] = p.buf[a]
        BY <2>1, <2>5, <3>2
      <4>2. Block(p.buf[a]) # y /\ Block(p.buf[a]) \in Blocks
        BY <1>1, <2>2, <3>2, <4>1, ValidBlock DEF PoolTyped, Sound, Unique, y
      <4>3. Block(p.buf[a]) \notin p.waived
        BY <2>1, <2>5, <4>1
      <4> QED
        BY <1>1, <2>8, <4>1, <4>2, <4>3 DEF CleanBut
    <3> QED
      BY <3>1, <3>2
  <2>12. Settled(p, q)
    BY <2>2, <2>8 DEF Settled
  <2>13. ~Dirty(q.buf[b])
    BY <2>1, <2>5 DEF Dirty
  <2>14. p.waived \subseteq q.waived /\ q.waived \subseteq p.waived \cup {y} /\ q.chain = p.chain
    BY <2>1, <2>5
  <2> QED
    BY <2>7, <2>8, <2>9, <2>10, <2>11, <2>12, <2>13, <2>14 DEF Good, Kept, y
<1> QED
  BY <1>2, <1>3

LEMMA TakeOverGood ==
  ASSUME NEW p, PoolTyped(p), NEW b \in Buffers, NEW x \in Blocks, Hits(p, x) = {},
         NEW q, q = TakeOver(p, b, x)
  PROVE  /\ PoolTyped(q)
         /\ q.disk = p.disk /\ q.waived = p.waived \ {x}
         /\ \A c \in Buffers \ {b} : q.buf[c] = p.buf[c]
         /\ Block(q.buf[b]) = x
<1> DEFINE d == [unit |-> x[1], sector |-> x[2], dirty |-> FALSE,
                 ignore |-> x[2] \in IgnoreSectors, data |-> Zero]
<1>1. Sound(p) /\ Sound(q)
  BY TakeOverSound DEF PoolTyped
<1>2. d \in Descriptor /\ Block(d) = x
  BY PoolAssumption DEF Descriptor, Blocks, Block
<1>3. /\ q.chain = p.chain /\ q.cache = p.cache /\ q.disk = p.disk
      /\ q.waived = p.waived \ {x} /\ q.buf = [p.buf EXCEPT ![b] = d]
  BY <1>1 DEF Sound, TakeOver
<1> HIDE DEF d
<1>4. q.buf \in [Buffers -> Descriptor] /\ q.buf[b] = d
      /\ \A c \in Buffers \ {b} : q.buf[c] = p.buf[c]
  BY <1>2, <1>3 DEF PoolTyped
<1> QED
  BY <1>1, <1>2, <1>3, <1>4 DEF PoolTyped

\* The sector is read into the buffer, or an error on it is waived.
LEMMA PreReadGood ==
  ASSUME NEW p, PoolTyped(p), NEW b \in Buffers, NEW x \in Blocks, NEW q \in PreRead(p, b, x)
  PROVE  /\ PoolTyped(q)
         /\ q.disk = p.disk
         /\ \A c \in Buffers \ {b} : q.buf[c] = p.buf[c]
         /\ Block(q.buf[b]) = Block(p.buf[b])
         /\ \/ q.buf[b].data = p.disk[x] /\ q.waived = p.waived
            \/ q.waived = p.waived \cup {x}
<1>1. Sound(p) /\ Sound(q)
  BY PreReadSound DEF PoolTyped
<1>2. p.buf \in [Buffers -> Descriptor] /\ p.buf[b] \in Descriptor /\ p.disk[x] \in Values
  BY DEF PoolTyped
<1>3. CASE q = Filled(p, b, x)
  <2>1. /\ q.chain = p.chain /\ q.cache = p.cache /\ q.disk = p.disk /\ q.waived = p.waived
        /\ q.buf = [p.buf EXCEPT ![b] = [p.buf[b] EXCEPT !.data = p.disk[x]]]
    BY <1>1, <1>3 DEF Sound, Filled
  <2>2. q.buf[b] = [p.buf[b] EXCEPT !.data = p.disk[x]]
    BY <1>2, <2>1
  <2>3. q.buf[b] \in Descriptor /\ Block(q.buf[b]) = Block(p.buf[b]) /\ q.buf[b].data = p.disk[x]
    BY <1>2, <2>2 DEF Descriptor, Block
  <2>4. q.buf \in [Buffers -> Descriptor] /\ \A c \in Buffers \ {b} : q.buf[c] = p.buf[c]
    BY <1>2, <2>1, <2>3
  <2> QED
    BY <1>1, <2>1, <2>3, <2>4 DEF PoolTyped
<1>4. CASE q = NotFilled(p, b, x)
  <2>1. /\ q.chain = p.chain /\ q.cache = p.cache /\ q.disk = p.disk
        /\ q.waived = p.waived \cup {x} /\ q.buf = p.buf
    BY <1>1, <1>4 DEF Sound, NotFilled
  <2> QED
    BY <1>1, <2>1 DEF PoolTyped
<1> QED
  BY <1>3, <1>4 DEF PreRead

LEMMA ReturnedGood ==
  ASSUME NEW p, PoolTyped(p), NEW b \in Buffers, NEW q, q = Returned(p, b)
  PROVE  /\ PoolTyped(q) /\ q.cache = b
         /\ q.buf = p.buf /\ q.disk = p.disk /\ q.waived = p.waived
<1>1. Sound(p) /\ Sound(q)
  BY ReturnedSound DEF PoolTyped
<1>2. /\ q.cache = b /\ q.chain = MoveToEnd(p.chain, b)
      /\ q.buf = p.buf /\ q.disk = p.disk /\ q.waived = p.waived
  BY <1>1 DEF Sound, Returned
<1>3. IsChain(q.chain)
  BY <1>2, MovedChains DEF PoolTyped
<1> QED
  BY <1>1, <1>2, <1>3 DEF PoolTyped

\* Pools that differ only in the order of the buffers.
LEMMA SameContents ==
  ASSUME NEW p, NEW X, Good(p, X), NEW q, PoolTyped(q),
         q.buf = p.buf, q.disk = p.disk, q.waived = p.waived
  PROVE  /\ Good(q, X) /\ Kept(p, q, {}) /\ Settled(p, q)
         /\ \A x : See(q, x) = See(p, x)
<1>1. \A x : Hits(q, x) = Hits(p, x)
  BY DEF Hits
<1>2. \A x : See(q, x) = See(p, x)
  BY <1>1 DEF See
<1> QED
  BY <1>2 DEF Good, CleanBut, Kept, Settled

\* The first buffer of the chain is flushed and given another sector: what it
\* held is seen on the medium from now on.
LEMMA FlushTakeOver ==
  ASSUME NEW p, Good(p, {}), NEW b \in Buffers, NEW x \in Blocks, Hits(p, x) = {},
         NEW f \in BF_FLUSH(p, b), NEW q, PoolTyped(q),
         q.disk = f.disk, q.waived \ {x} = f.waived \ {x},
         \A c \in Buffers \ {b} : q.buf[c] = f.buf[c], Block(q.buf[b]) = x
  PROVE  /\ Good(q, {x}) /\ Kept(p, q, {x}) /\ Settled(p, q)
         /\ q.disk[x] = p.disk[x] /\ See(p, x) = p.disk[x] /\ See(q, x) = q.buf[b].data
<1>1. PoolTyped(p) /\ CleanBut(p, {})
  BY DEF Good
<1>2. /\ Good(f, {}) /\ Kept(p, f, {}) /\ Settled(p, f)
      /\ \A y \in Blocks \ {Block(p.buf[b])} : f.disk[y] = p.disk[y]
      /\ \A y \in Blocks : See(f, y) = See(p, y)
      /\ \A c \in Buffers : Block(f.buf[c]) = Block(p.buf[c])
      /\ ~Dirty(f.buf[b])
  BY FlushGood
<1>3. PoolTyped(f) /\ CleanBut(f, {})
  BY <1>2 DEF Good
<1>4. \A c \in Buffers : Block(f.buf[c]) # x
  BY <1>2 DEF Hits, BF_CMP
<1>5. See(q, x) = q.buf[b].data
  BY SeeHit
<1>6. q.disk[x] = p.disk[x] /\ See(p, x) = p.disk[x]
  BY <1>2, <1>4, SeeMiss
<1>7. CleanBut(q, {x})
  <2> SUFFICES ASSUME NEW c \in Buffers, Valid(q.buf[c]), ~q.buf[c].dirty,
                      Block(q.buf[c]) \notin q.waived \cup {x}
               PROVE  q.buf[c].data = q.disk[Block(q.buf[c])]
    BY DEF CleanBut
  <2>1. q.buf[c] = f.buf[c] /\ Block(f.buf[c]) \notin f.waived
    OBVIOUS
  <2> QED
    BY <1>3, <2>1 DEF CleanBut
<1>8. Kept(p, q, {x})
  <2> SUFFICES ASSUME NEW y \in Blocks, y # x, y \notin q.waived PROVE See(q, y) = See(f, y)
    BY <1>2 DEF Kept
  <2>1. CASE Block(f.buf[b]) # y
    BY <1>3, <2>1, SeeSame
  <2>2. CASE Block(f.buf[b]) = y
    <3>1. Hits(f, y) = {b} /\ See(f, y) = f.buf[b].data
      BY <1>3, <2>2, SeeHit
    <3>2. Hits(q, y) = {}
      BY <3>1 DEF Hits, BF_CMP
    <3>3. Valid(f.buf[b])
      BY <2>2, PoolAssumption DEF Block, Blocks, Valid
    <3>4. f.buf[b].data = f.disk[y]
      BY <1>2, <1>3, <2>2, <3>3 DEF CleanBut, Dirty
    <3> QED
      BY <3>1, <3>2, <3>4, SeeMiss
  <2> QED
    BY <2>1, <2>2
<1>9. Settled(p, q)
  BY <1>2 DEF Settled
<1> QED
  BY <1>5, <1>6, <1>7, <1>8, <1>9 DEF Good

\* BF_SECTOR returns with the sector in the cached buffer.  Without a pre-read
\* its contents are not there yet, and nothing else is seen to change.
LEMMA SectorGood ==
  ASSUME NEW p, Good(p, {}), NEW x \in Blocks, NEW read \in BOOLEAN,
         NEW q \in BF_SECTOR(p, x, read)
  PROVE  /\ Good(q, {x}) /\ Kept(p, q, {x}) /\ Settled(p, q)
         /\ BF_CMP(q.buf[q.cache], x) /\ q.disk[x] = p.disk[x]
         /\ read => Good(q, {}) /\ Kept(p, q, {})
<1>1. PoolTyped(p) /\ Good(p, {x}) /\ p.cache \in Buffers
  BY DEF Good, CleanBut, PoolTyped
<1>2. CASE q = p /\ BF_CMP(p.buf[p.cache], x)
  BY <1>1, <1>2 DEF Kept, Settled
<1>3. CASE \E b \in Hits(p, x) : q = Returned(p, b)
  <2>1. PICK b \in Hits(p, x) : q = Returned(p, b)
    BY <1>3
  <2>2. b \in Buffers /\ BF_CMP(p.buf[b], x)
    BY DEF Hits
  <2>3. /\ PoolTyped(q) /\ q.cache = b
        /\ q.buf = p.buf /\ q.disk = p.disk /\ q.waived = p.waived
    BY <1>1, <2>1, <2>2, ReturnedGood
  <2>4. Good(q, {}) /\ Good(q, {x}) /\ Kept(p, q, {}) /\ Settled(p, q)
    BY <1>1, <2>3, SameContents
  <2> QED
    BY <2>2, <2>3, <2>4 DEF Kept
<1>4. CASE Hits(p, x) = {} /\ q \in Fetched(p, x, read)
  <2> DEFINE b == p.chain[1]
  <2>1. b \in Buffers
    BY <1>1, NumberOfBuffers DEF PoolTyped, IsChain, Lists
  <2>2. PICK f \in BF_FLUSH(p, b) :
          \/ ~read /\ q = Returned(TakeOver(f, b, x), b)
          \/ read /\ \E r \in PreRead(TakeOver(f, b, x), b, x) : q = Returned(r, b)
    BY <1>4 DEF Fetched
  <2> HIDE DEF b
  <2> DEFINE s == TakeOver(f, b, x)
  <2>3. PoolTyped(f) /\ Hits(f, x) = {} /\ f.disk[x] = p.disk[x]
    <3>1. \A c \in Buffers : Block(f.buf[c]) = Block(p.buf[c])
      BY <2>1, FlushGood
    <3>2. x # Block(p.buf[b])
      BY <1>4, <2>1 DEF Hits, BF_CMP
    <3> QED
      BY <1>4, <2>1, <3>1, <3>2, FlushGood DEF Hits, BF_CMP, Good
  <2>4. /\ PoolTyped(s)
        /\ s.disk = f.disk /\ s.waived = f.waived \ {x}
        /\ \A c \in Buffers \ {b} : s.buf[c] = f.buf[c]
        /\ Block(s.buf[b]) = x
    BY <2>1, <2>3, TakeOverGood
  <2> HIDE DEF s
  <2>5. PICK r : /\ r = s \/ r \in PreRead(s, b, x)
                 /\ read => r \in PreRead(s, b, x)
                 /\ q = Returned(r, b)
    BY <2>2 DEF s
  <2>6. /\ PoolTyped(r) /\ r.disk = f.disk /\ r.waived \ {x} = f.waived \ {x}
        /\ \A c \in Buffers \ {b} : r.buf[c] = f.buf[c]
        /\ Block(r.buf[b]) = x
        /\ read => r.buf[b].data = p.disk[x] \/ x \in r.waived
    <3>1. CASE r = s /\ ~read
      BY <2>4, <3>1
    <3>2. CASE r \in PreRead(s, b, x)
      <4>1. /\ PoolTyped(r) /\ r.disk = s.disk
            /\ \A c \in Buffers \ {b} : r.buf[c] = s.buf[c]
            /\ Block(r.buf[b]) = Block(s.buf[b])
            /\ \/ r.buf[b].data = s.disk[x] /\ r.waived = s.waived
               \/ r.waived = s.waived \cup {x}
        BY <2>1, <2>4, <3>2, PreReadGood
      <4> QED
        BY <2>3, <2>4, <4>1
    <3> QED
      BY <2>5, <3>1, <3>2
  <2>7. /\ PoolTyped(q) /\ q.cache = b
        /\ q.buf = r.buf /\ q.disk = r.disk /\ q.waived = r.waived
    BY <2>1, <2>5, <2>6, ReturnedGood
  <2>8. /\ Good(q, {x}) /\ Kept(p, q, {x}) /\ Settled(p, q)
        /\ q.disk[x] = p.disk[x] /\ See(p, x) = p.disk[x] /\ See(q, x) = q.buf[b].data
    BY <1>4, <2>1, <2>6, <2>7, FlushTakeOver
  <2>9. read => Good(q, {}) /\ Kept(p, q, {})
    <3> SUFFICES ASSUME read PROVE Good(q, {}) /\ Kept(p, q, {})
      OBVIOUS
    <3>1. q.buf[b].data = p.disk[x] \/ x \in q.waived
      BY <2>6, <2>7
    <3>2. \A c \in Buffers : Block(q.buf[c]) = x => c = b
      BY <2>1, <2>6, <2>7, SeeHit DEF Hits, BF_CMP
    <3>3. CleanBut(q, {})
      BY <2>8, <3>1, <3>2 DEF Good, CleanBut
    <3> QED
      BY <2>8, <3>1, <3>3 DEF Good, Kept
  <2> QED
    BY <2>6, <2>7, <2>8, <2>9 DEF BF_CMP
<1> QED
  BY <1>2, <1>3, <1>4 DEF BF_SECTOR

\* ABORT leaves one unit with what the medium has.
Aborted(p, q) == \E u \in Units :
    Kept(p, q, UnitBlocks(u)) /\ \A x \in UnitBlocks(u) : See(q, x) = q.disk[x]

LEMMA FlushAbortedGood ==
  ASSUME NEW p, Good(p, {}), NEW b \in Buffers, Valid(p.buf[b]), NEW q, q = FlushAborted(p, b)
  PROVE  /\ Good(q, {}) /\ q.waived = p.waived
         /\ Kept(p, q, UnitBlocks(p.buf[b].unit))
         /\ \A x \in UnitBlocks(p.buf[b].unit) : See(q, x) = q.disk[x]
         /\ p.buf[b].unit \in Units
<1> DEFINE c == Cleaned(p, b)
           u == p.buf[b].unit
<1>1. PoolTyped(p) /\ CleanBut(p, {})
  BY DEF Good
<1>2. /\ PoolTyped(c)
      /\ c.disk = p.disk /\ c.waived = p.waived
      /\ \A a \in Buffers \ {b} : c.buf[a] = p.buf[a]
      /\ ~c.buf[b].dirty /\ c.buf[b].data = p.buf[b].data
      /\ c.buf[b].unit = p.buf[b].unit /\ c.buf[b].sector = p.buf[b].sector
  BY <1>1, CleanedGood
<1>3. u \in Units /\ Block(p.buf[b]) \in UnitBlocks(u)
  BY <1>1, ValidBlock DEF Block, Blocks, UnitBlocks
<1> HIDE DEF c
<1>4. Good(c, UnitBlocks(u))
  <2>1. CleanBut(c, UnitBlocks(u))
    <3> SUFFICES ASSUME NEW a \in Buffers, Valid(c.buf[a]), ~c.buf[a].dirty,
                        Block(c.buf[a]) \notin c.waived \cup UnitBlocks(u)
                 PROVE  c.buf[a].data = c.disk[Block(c.buf[a])]
      BY DEF CleanBut
    <3>1. a # b
      BY <1>2, <1>3 DEF Block
    <3> QED
      BY <1>1, <1>2, <3>1 DEF CleanBut
  <2> QED
    BY <1>2, <2>1 DEF Good
<1>5. Kept(p, c, {})
  <2>1. \A a \in Buffers : Block(c.buf[a]) = Block(p.buf[a]) /\ c.buf[a].data = p.buf[a].data
    BY <1>2 DEF Block
  <2> QED
    BY <1>1, <1>2, <2>1, SeeSame DEF Kept
<1>6. q = INV_UD(c, u)
  BY DEF FlushAborted, c
<1> HIDE DEF u
<1>7. /\ Good(q, {}) /\ q.disk = c.disk /\ q.waived = c.waived
      /\ Kept(c, q, UnitBlocks(u))
      /\ \A x \in UnitBlocks(u) : See(q, x) = q.disk[x]
  BY <1>3, <1>4, <1>6, InvUdGood
<1>8. Kept(p, q, UnitBlocks(u))
  BY <1>2, <1>5, <1>7 DEF Kept
<1> QED
  BY <1>2, <1>3, <1>7, <1>8 DEF u

LEMMA SectorAbortedGood ==
  ASSUME NEW p, Good(p, {}), NEW x \in Blocks, NEW read \in BOOLEAN,
         NEW q \in BF_SECTOR_aborted(p, x, read)
  PROVE  Good(q, {}) /\ Aborted(p, q)
<1> DEFINE b == p.chain[1]
<1>1. PoolTyped(p) /\ b \in Buffers /\ Hits(p, x) = {}
  <2>1. PoolTyped(p) /\ b \in Buffers
    <3>1. PoolTyped(p)
      BY DEF Good
    <3>2. p.chain \in [1..n -> Buffers] /\ 1 \in 1..n
      BY <3>1, NumberOfBuffers DEF PoolTyped, IsChain, Lists
    <3> QED
      BY <3>1, <3>2
  <2>2. Hits(p, x) = {}
    BY Zenon DEF BF_SECTOR_aborted
  <2> QED
    BY <2>1, <2>2
<1>2. CASE Dirty(p.buf[b]) /\ q = FlushAborted(p, b)
  BY <1>1, <1>2, FlushAbortedGood DEF Aborted, Dirty
<1>3. ASSUME NEW f \in BF_FLUSH(p, b), q = INV_UD(TakeOver(f, b, x), x[1])
      PROVE  Good(q, {}) /\ Aborted(p, q)
  <2> DEFINE s == TakeOver(f, b, x)
             u == x[1]
  <2> HIDE DEF b
  <2>1. PoolTyped(f) /\ Hits(f, x) = {}
    <3>1. Good(f, {}) /\ \A c \in Buffers : Block(f.buf[c]) = Block(p.buf[c])
      BY <1>1, FlushGood
    <3> QED
      BY <1>1, <3>1 DEF Hits, BF_CMP, Good
  <2>2. /\ PoolTyped(s)
        /\ s.disk = f.disk /\ s.waived = f.waived \ {x}
        /\ \A c \in Buffers \ {b} : s.buf[c] = f.buf[c]
        /\ Block(s.buf[b]) = x
    BY <1>1, <2>1, TakeOverGood
  <2> HIDE DEF s
  <2>3. Good(s, {x}) /\ Kept(p, s, {x})
    BY <1>1, <2>2, FlushTakeOver
  <2>4. u \in Units /\ {x} \subseteq UnitBlocks(u)
    BY DEF Blocks, UnitBlocks
  <2>5. q = INV_UD(s, u)
    BY <1>3 DEF s
  <2> HIDE DEF u
  <2>6. /\ Good(q, {}) /\ q.waived = s.waived
        /\ Kept(s, q, UnitBlocks(u))
        /\ \A y \in UnitBlocks(u) : See(q, y) = q.disk[y]
    BY <2>3, <2>4, <2>5, InvUdGood
  <2>7. Kept(p, q, UnitBlocks(u))
    BY <2>3, <2>4, <2>6 DEF Kept
  <2> QED
    BY <2>4, <2>6, <2>7 DEF Aborted
<1> QED
  BY <1>1, <1>2, <1>3 DEF BF_SECTOR_aborted

Stored(p, x, d, q) ==
    /\ Good(q, {}) /\ Kept(p, q, {x}) /\ q.disk = p.disk
    /\ See(q, x) = d /\ x \notin q.waived /\ p.waived \subseteq q.waived \cup {x}

\* The caller's new contents make the sector current, whatever it was before.
LEMMA DirtGood ==
  ASSUME NEW p, NEW x \in Blocks, Good(p, {x}), BF_CMP(p.buf[p.cache], x),
         NEW d \in Values, NEW q, q = DIRT_CACHE(p, x, d)
  PROVE  Stored(p, x, d, q)
<1> DEFINE c == p.cache
<1>1. PoolTyped(p) /\ CleanBut(p, {x}) /\ c \in Buffers /\ p.buf[c] \in Descriptor
  BY DEF Good, PoolTyped
<1>2. Sound(p) /\ Sound(q)
  BY <1>1, DirtSound DEF PoolTyped
<1>3. /\ q.chain = p.chain /\ q.cache = p.cache /\ q.disk = p.disk
      /\ q.waived = p.waived \ {x}
      /\ q.buf = [p.buf EXCEPT ![c] = [[p.buf[c] EXCEPT !.data = d] EXCEPT !.dirty = TRUE]]
  <2>1. DOMAIN p = {"chain", "cache", "buf", "disk", "waived"} /\ c \in DOMAIN p.buf
    BY <1>1, <1>2 DEF Sound
  <2> HIDE DEF c
  <2>2. q.chain = p.chain /\ q.cache = p.cache /\ q.disk = p.disk
    BY <2>1 DEF DIRT_CACHE
  <2>3. q.waived = p.waived \ {x}
    BY <2>1 DEF DIRT_CACHE
  <2>4. q.buf = [p.buf EXCEPT ![c] = [[p.buf[c] EXCEPT !.data = d] EXCEPT !.dirty = TRUE]]
    BY <2>1 DEF DIRT_CACHE, c
  <2> QED
    BY <2>2, <2>3, <2>4
<1> HIDE DEF c
<1>4. /\ q.buf[c] = [[p.buf[c] EXCEPT !.data = d] EXCEPT !.dirty = TRUE]
      /\ \A b \in Buffers \ {c} : q.buf[b] = p.buf[b]
  BY <1>1, <1>3 DEF PoolTyped
<1>5. /\ q.buf[c] \in Descriptor /\ q.buf[c].dirty /\ q.buf[c].data = d
      /\ Block(q.buf[c]) = Block(p.buf[c])
  BY <1>1, <1>4 DEF Descriptor, Block
<1>6. PoolTyped(q)
  BY <1>1, <1>2, <1>3, <1>5 DEF PoolTyped
<1>7. Block(p.buf[c]) = x /\ \A b \in Buffers : Block(p.buf[b]) = x => b = c
  BY <1>1, SeeHit DEF BF_CMP, Hits, c
<1>8. See(q, x) = d
  BY <1>1, <1>5, <1>6, <1>7, SeeHit
<1>9. CleanBut(q, {})
  <2> SUFFICES ASSUME NEW b \in Buffers, Valid(q.buf[b]), ~q.buf[b].dirty,
                      Block(q.buf[b]) \notin q.waived
               PROVE  q.buf[b].data = q.disk[Block(q.buf[b])]
    BY DEF CleanBut
  <2>1. b # c
    BY <1>5
  <2> QED
    BY <1>1, <1>3, <1>4, <1>7, <2>1 DEF CleanBut
<1>10. Kept(p, q, {x})
  <2> SUFFICES ASSUME NEW y \in Blocks, y # x PROVE See(q, y) = See(p, y)
    BY DEF Kept
  <2>1. \A b \in Buffers : /\ Block(q.buf[b]) = Block(p.buf[b])
                           /\ Block(p.buf[b]) = y => q.buf[b].data = p.buf[b].data
    BY <1>4, <1>5, <1>7
  <2>2. PoolTyped(p) /\ PoolTyped(q) /\ q.disk = p.disk
    BY <1>1, <1>3, <1>6
  <2> QED
    BY <2>1, <2>2, SeeSame
<1> QED
  BY <1>3, <1>6, <1>8, <1>9, <1>10 DEF Good, Stored

-----------------------------------------------------------------------------
(* FL and RW_MANY. *)

Dirties(p) == {b \in Buffers : Dirty(p.buf[b])}

\* What the loop of FL leaves of pool p when it has come to the buffers D.
Flushed(p, D, I, q) ==
  /\ Good(q, {}) /\ Settled(p, q)
  /\ \A x \in Blocks : See(q, x) = See(p, x)
  /\ p.waived \subseteq q.waived
  /\ \A x \in q.waived : x \in p.waived \/ \E b \in I : x = Block(p.buf[b])
  /\ \A b \in Buffers : /\ q.buf[b].unit = p.buf[b].unit
                        /\ IF b \in D THEN ~q.buf[b].dirty ELSE q.buf[b] = p.buf[b]

\* The loop of FL: the medium gets the buffers of D, but those of I are waived.
LEMMA FlushedAllGood ==
  ASSUME NEW p, Good(p, {}), NEW D \in SUBSET Dirties(p),
         NEW I \in SUBSET D, NEW q, q = FlushedAll(p, D, I)
  PROVE  Flushed(p, D, I, q)
<1> DEFINE bf == [b \in Buffers |-> IF b \in D THEN [p.buf[b] EXCEPT !.dirty = FALSE]
                                               ELSE p.buf[b]]
           dk == [x \in Blocks |->
                    IF \E b \in D \ I : Block(p.buf[b]) = x
                    THEN p.buf[CHOOSE b \in D \ I : Block(p.buf[b]) = x].data
                    ELSE p.disk[x]]
<1>1. PoolTyped(p) /\ CleanBut(p, {}) /\ Sound(p) /\ Sound(q)
  BY FlushedAllSound DEF Good, PoolTyped
<1>2. DOMAIN p = {"chain", "cache", "buf", "disk", "waived"}
  BY <1>1 DEF Sound
<1>3. q.chain = p.chain /\ q.cache = p.cache /\ q.buf = bf
  BY <1>2 DEF FlushedAll
<1>4. q.disk = dk
  BY <1>2 DEF FlushedAll
<1>5. q.waived = p.waived \cup {Block(p.buf[b]) : b \in I}
  BY <1>2 DEF FlushedAll
<1>6. /\ \A b \in Buffers : p.buf[b] \in Descriptor
      /\ \A b \in D : b \in Buffers /\ Block(p.buf[b]) \in Blocks
                      /\ See(p, Block(p.buf[b])) = p.buf[b].data
  BY <1>1, ValidBlock, SeeHit DEF PoolTyped, Dirty, Dirties
<1>7. \A b \in Buffers : /\ bf[b] \in Descriptor
                         /\ bf[b].unit = p.buf[b].unit /\ Block(bf[b]) = Block(p.buf[b])
                         /\ bf[b].data = p.buf[b].data
                         /\ IF b \in D THEN ~bf[b].dirty ELSE bf[b] = p.buf[b]
  BY <1>6 DEF Descriptor, Block
<1>8. \A x \in Blocks : IF \E b \in D \ I : Block(p.buf[b]) = x THEN dk[x] = See(p, x)
                        ELSE dk[x] = p.disk[x]
  <2> SUFFICES ASSUME NEW x \in Blocks, \E b \in D \ I : Block(p.buf[b]) = x
               PROVE  p.buf[CHOOSE b \in D \ I : Block(p.buf[b]) = x].data = See(p, x)
    OBVIOUS
  <2> DEFINE b == CHOOSE a \in D \ I : Block(p.buf[a]) = x
  <2>1. b \in D \ I /\ Block(p.buf[b]) = x
    OBVIOUS
  <2> QED
    BY <1>6, <2>1
<1> HIDE DEF bf, dk
<1>9. PoolTyped(q)
  <2>1. \A x \in Blocks : dk[x] \in Values
    BY <1>1, <1>8, SeeValue DEF PoolTyped
  <2>2. dk \in [Blocks -> Values] /\ bf \in [Buffers -> Descriptor]
    BY <1>7, <2>1 DEF bf, dk
  <2> QED
    BY <1>1, <1>3, <1>4, <1>5, <1>6, <2>2 DEF PoolTyped
<1>10. \A x \in Blocks : See(q, x) = See(p, x)
  <2> SUFFICES ASSUME NEW x \in Blocks PROVE See(q, x) = See(p, x)
    OBVIOUS
  <2>1. Hits(p, x) = {} => q.disk[x] = p.disk[x]
    BY <1>4, <1>6, <1>8 DEF Hits, BF_CMP
  <2>2. \A b \in Buffers : Block(q.buf[b]) = Block(p.buf[b]) /\ q.buf[b].data = p.buf[b].data
    BY <1>3, <1>7
  <2> QED
    BY <1>1, <1>9, <2>1, <2>2, SeeSame
<1>11. Settled(p, q)
  BY <1>4, <1>8 DEF Settled
<1>12. CleanBut(q, {})
  <2> SUFFICES ASSUME NEW b \in Buffers, Valid(q.buf[b]), ~q.buf[b].dirty,
                      Block(q.buf[b]) \notin q.waived
               PROVE  q.buf[b].data = q.disk[Block(q.buf[b])]
    BY DEF CleanBut
  <2> DEFINE x == Block(p.buf[b])
  <2>1. Block(q.buf[b]) = x /\ q.buf[b].data = p.buf[b].data /\ Valid(p.buf[b])
    BY <1>3, <1>7 DEF Valid
  <2>2. x \in Blocks /\ See(p, x) = p.buf[b].data /\ Hits(p, x) = {b}
    BY <1>1, <2>1, ValidBlock, SeeHit
  <2>3. CASE b \in D
    <3>1. b \in D \ I
      BY <1>5, <2>1, <2>3
    <3> QED
      BY <1>4, <1>8, <2>1, <2>2, <3>1
  <2>4. CASE b \notin D
    <3>1. p.buf[b].data = p.disk[x]
      BY <1>1, <1>3, <1>5, <1>7, <2>1, <2>4 DEF CleanBut
    <3>2. \A a \in D : Block(p.buf[a]) # x
      BY <1>6, <2>2, <2>4 DEF Hits, BF_CMP
    <3> QED
      BY <1>4, <1>8, <2>1, <2>2, <3>1, <3>2
  <2> QED
    BY <2>3, <2>4
<1> QED
  BY <1>3, <1>5, <1>7, <1>9, <1>10, <1>11, <1>12 DEF Good, Flushed

\* FL_LOG, FL_UD and FL_PHYS when they finish: the units are on the medium.
LEMMA FlGood ==
  ASSUME NEW p, Good(p, {}), NEW U \in SUBSET Units, NEW q \in FL(p, U)
  PROVE  /\ Good(q, {}) /\ Kept(p, q, {}) /\ Settled(p, q) /\ p.waived \subseteq q.waived
         /\ \A x \in Blocks : See(q, x) = See(p, x)
         /\ \A x \in Blocks : x[1] \in U /\ x \notin q.waived => q.disk[x] = See(q, x)
         /\ \A x \in q.waived : x \in p.waived \/ x[1] \in U
<1> DEFINE D == {b \in Buffers : Dirty(p.buf[b]) /\ p.buf[b].unit \in U}
<1>1. PICK I \in SUBSET D : q = FlushedAll(p, D, I)
  BY DEF FL, Ignorable
<1>2. /\ Good(q, {}) /\ Settled(p, q)
      /\ \A x \in Blocks : See(q, x) = See(p, x)
      /\ p.waived \subseteq q.waived
      /\ \A x \in q.waived : x \in p.waived \/ \E b \in I : x = Block(p.buf[b])
      /\ \A b \in Buffers : /\ q.buf[b].unit = p.buf[b].unit
                            /\ IF b \in D THEN ~q.buf[b].dirty ELSE q.buf[b] = p.buf[b]
  <2>1. D \in SUBSET Dirties(p)
    BY DEF Dirties
  <2> HIDE DEF D
  <2>2. Flushed(p, D, I, q)
    BY <1>1, <2>1, FlushedAllGood
  <2> QED
    BY <2>2 DEF Flushed
<1>3. ASSUME NEW x \in Blocks, x[1] \in U, x \notin q.waived PROVE q.disk[x] = See(q, x)
  <2>1. CASE Hits(q, x) = {}
    BY <2>1, SeeMiss
  <2>2. CASE Hits(q, x) # {}
    <3>1. PICK b \in Buffers : Block(q.buf[b]) = x
      BY <2>2 DEF Hits, BF_CMP
    <3>2. q.buf[b].unit \in U /\ Valid(q.buf[b])
      BY <1>3, <3>1, PoolAssumption DEF Block, Valid
    <3>3. ~q.buf[b].dirty
      BY <1>2, <3>2 DEF Dirty, Valid
    <3>4. See(q, x) = q.buf[b].data
      BY <1>2, <3>1, SeeHit DEF Good
    <3> QED
      BY <1>2, <1>3, <3>1, <3>2, <3>3, <3>4 DEF Good, CleanBut
  <2> QED
    BY <2>1, <2>2
<1>4. \A b \in I : Block(p.buf[b])[1] \in U
  BY DEF Block
<1> QED
  BY <1>2, <1>3, <1>4 DEF Kept

LEMMA FlAbortedGood ==
  ASSUME NEW p, Good(p, {}), NEW U \in SUBSET Units, NEW q \in FL_aborted(p, U)
  PROVE  Good(q, {}) /\ Aborted(p, q)
<1> DEFINE D == {b \in Buffers : Dirty(p.buf[b]) /\ p.buf[b].unit \in U}
           Before(b) == {c \in D : Precedes(p, c, b)}
<1>1. PICK b \in D : \E I \in SUBSET Before(b) :
        q = FlushAborted(FlushedAll(p, Before(b), I), b)
  BY DEF FL_aborted, Ignorable
<1>2. PICK I \in SUBSET Before(b) : q = FlushAborted(FlushedAll(p, Before(b), I), b)
  BY <1>1
<1> DEFINE E == Before(b)
           m == FlushedAll(p, E, I)
           u == p.buf[b].unit
<1>3. /\ b \in Buffers /\ Valid(p.buf[b]) /\ u \in U
      /\ E \in SUBSET Dirties(p)
  BY <1>1 DEF Dirty, Dirties
<1>4. I \in SUBSET E /\ q = FlushAborted(m, b)
  BY <1>2
<1>0. m = FlushedAll(p, E, I)
  OBVIOUS
<1> HIDE DEF D, Before, E, m
<1>5. Flushed(p, E, I, m)
  BY <1>0, <1>3, <1>4, FlushedAllGood
<1>6. /\ Good(m, {}) /\ p.waived \subseteq m.waived
      /\ \A x \in Blocks : See(m, x) = See(p, x)
      /\ \A c \in Buffers : m.buf[c].unit = p.buf[c].unit
  BY <1>5 DEF Flushed
<1>7. /\ Good(q, {}) /\ q.waived = m.waived
      /\ Kept(m, q, UnitBlocks(m.buf[b].unit))
      /\ \A x \in UnitBlocks(m.buf[b].unit) : See(q, x) = q.disk[x]
  BY <1>3, <1>4, <1>6, FlushAbortedGood DEF Valid
<1>8. m.buf[b].unit = u /\ u \in Units
  BY <1>3, <1>6
<1> HIDE DEF u
<1>9. Kept(p, q, UnitBlocks(u))
  BY <1>6, <1>7, <1>8 DEF Kept
<1> QED
  BY <1>7, <1>8, <1>9 DEF Aborted

\* What a transfer of d to sectors X of unit u leaves: no buffer knows of it yet.
Transferred(p, u, X, d, q) ==
    /\ Good(q, {u} \X X) /\ Kept(p, q, {u} \X X)
    /\ q.buf = p.buf /\ q.waived = p.waived
    /\ \A x \in Blocks : q.disk[x] = IF x \in {u} \X X THEN d ELSE p.disk[x]

\* A transfer to sectors X of unit u changes nothing else, and no buffer.
LEMMA WrittenGood ==
  ASSUME NEW p, Good(p, {}), NEW u \in Units, NEW X \in SUBSET Sectors, NEW d \in Values,
         NEW q, q = Written(p, u, X, d)
  PROVE  Transferred(p, u, X, d, q)
<1>1. PoolTyped(p) /\ CleanBut(p, {}) /\ Sound(p) /\ Sound(q)
  BY WrittenSound DEF Good, PoolTyped
<1>2. /\ q.chain = p.chain /\ q.cache = p.cache /\ q.buf = p.buf /\ q.waived = p.waived
      /\ q.disk = [x \in Blocks |-> IF x[1] = u /\ x[2] \in X THEN d ELSE p.disk[x]]
  BY <1>1 DEF Sound, Written
<1>3. \A x \in Blocks : (x[1] = u /\ x[2] \in X) <=> x \in {u} \X X
  BY DEF Blocks
<1>4. \A x \in Blocks : q.disk[x] = IF x \in {u} \X X THEN d ELSE p.disk[x]
  BY <1>2, <1>3
<1>5. PoolTyped(q)
  BY <1>1, <1>2 DEF PoolTyped
<1>6. CleanBut(q, {u} \X X)
  <2> SUFFICES ASSUME NEW b \in Buffers, Valid(p.buf[b]), ~p.buf[b].dirty,
                      Block(p.buf[b]) \notin p.waived \cup ({u} \X X)
               PROVE  p.buf[b].data = q.disk[Block(p.buf[b])]
    BY <1>2 DEF CleanBut
  <2>1. Block(p.buf[b]) \in Blocks
    BY <1>1, ValidBlock
  <2> QED
    BY <1>1, <1>4, <2>1 DEF CleanBut
<1>7. Kept(p, q, {u} \X X)
  BY <1>1, <1>2, <1>4, <1>5, SeeSame DEF Kept
<1> QED
  BY <1>2, <1>4, <1>5, <1>6, <1>7 DEF Good, Transferred

ManyWritten(p, u, X, d, q) ==
    /\ Good(q, {}) /\ Kept(p, q, {u} \X X)
    /\ \A x \in ({u} \X X) \ q.waived : See(q, x) = d /\ q.disk[x] = d
    /\ \A x \in Blocks \ ({u} \X X) : /\ q.disk[x] = p.disk[x]
                                      /\ x \in p.waived <=> x \in q.waived

\* RW_MANY and CORRECT_BUF: the sectors are seen as they were written.
LEMMA ManyGood ==
  ASSUME NEW p, Good(p, {}), NEW u \in Units, NEW X \in SUBSET Sectors, NEW d \in Values,
         NEW q \in RW_MANY(p, u, X, d)
  PROVE  ManyWritten(p, u, X, d, q)
<1>1. PICK I \in SUBSET X :
        q = [CORRECT_BUF(Written(p, u, X \ I, d), u, X)
               EXCEPT !.waived = {x \in @ : ~(x[1] = u /\ x[2] \in X)} \cup ({u} \X I)]
  BY DEF RW_MANY
<1> DEFINE Y == {u} \X X
           T == X \ I
           m == Written(p, u, T, d)
           S == {b \in UnitBuffers(m, u) : m.buf[b].sector \in X}
           c == Invalidate(m, S)
<1>0. /\ m = Written(p, u, T, d) /\ c = Invalidate(m, S)
      /\ T \in SUBSET Sectors /\ T = X \ I
      /\ q = [c EXCEPT !.waived = {x \in @ : ~(x[1] = u /\ x[2] \in X)} \cup ({u} \X I)]
  BY <1>1 DEF CORRECT_BUF
<1> HIDE DEF m, S, c, T
<1>17. Transferred(p, u, T, d, m)
  BY <1>0, WrittenGood
<1>2. /\ PoolTyped(m)
      /\ m.buf = p.buf /\ m.waived = p.waived
      /\ \A x \in Blocks : m.disk[x] = IF x \in {u} \X (X \ I) THEN d ELSE p.disk[x]
  BY <1>0, <1>17 DEF Transferred, Good
<1>3. /\ PoolTyped(c)
      /\ c.disk = m.disk /\ c.waived = m.waived
      /\ \A b \in Buffers : IF b \in S THEN c.buf[b].unit = Empty
                                         ELSE c.buf[b] = m.buf[b]
  <2>1. Freed(m, S, c)
    BY <1>0, <1>2, InvalidateGood
  <2> QED
    BY <2>1 DEF Freed
<1>4. \A b \in Buffers : b \in S <=> Block(p.buf[b]) \in Y
  <2>1. \A b \in Buffers : p.buf[b].sector \in Sectors
    BY DEF Good, PoolTyped, Descriptor
  <2> QED
    BY <1>2, <2>1 DEF UnitBuffers, Block, S
<1>5. Sound(q)
  BY ManySound DEF Good, PoolTyped
<1>6. /\ q.chain = c.chain /\ q.cache = c.cache /\ q.buf = c.buf /\ q.disk = c.disk
      /\ q.waived = {x \in p.waived : ~(x[1] = u /\ x[2] \in X)} \cup ({u} \X I)
  BY <1>0, <1>2, <1>3 DEF PoolTyped, Sound
<1>7. p.waived \subseteq Blocks /\ Y \subseteq Blocks /\ {u} \X I \subseteq Y
  BY DEF Good, PoolTyped, Blocks
<1>8. \A x \in Blocks : x \in q.waived <=> (x \in p.waived /\ x \notin Y) \/ x \in {u} \X I
  BY <1>6, <1>7 DEF Blocks
<1>9. PoolTyped(q)
  BY <1>3, <1>5, <1>6, <1>7 DEF PoolTyped
<1>10. \A b \in Buffers : IF Block(p.buf[b]) \in Y THEN q.buf[b].unit = Empty
                                                   ELSE q.buf[b] = p.buf[b]
  BY <1>2, <1>3, <1>4, <1>6
<1>11. \A x \in Blocks : q.disk[x] = IF x \in {u} \X (X \ I) THEN d ELSE p.disk[x]
  BY <1>2, <1>3, <1>6
<1>12. \A x \in Y : Hits(q, x) = {}
  <2> SUFFICES ASSUME NEW x \in Y, NEW b \in Buffers, Block(q.buf[b]) = x PROVE FALSE
    BY DEF Hits, BF_CMP
  <2>1. q.buf[b].unit = u
    BY DEF Block
  <2> QED
    BY <1>10, <2>1, PoolAssumption
<1>13. PoolTyped(p) /\ CleanBut(p, {})
  BY DEF Good
<1>14. ASSUME NEW x \in Blocks \ Y PROVE q.disk[x] = p.disk[x] /\ See(q, x) = See(p, x)
  <2>1. q.disk[x] = p.disk[x]
    BY <1>11
  <2>2. \A b \in Buffers : /\ Block(q.buf[b]) = x <=> Block(p.buf[b]) = x
                           /\ Block(p.buf[b]) = x => q.buf[b].data = p.buf[b].data
    <3>1. x[1] # Empty
      BY PoolAssumption DEF Blocks
    <3>2. \A b \in Buffers : q.buf[b].unit = Empty => Block(q.buf[b]) # x
      BY <3>1 DEF Block
    <3> QED
      BY <1>10, <3>2
  <2> QED
    BY <1>9, <1>13, <2>1, <2>2, SeeSame
<1>15. CleanBut(q, {})
  <2> SUFFICES ASSUME NEW b \in Buffers, Valid(q.buf[b]), ~q.buf[b].dirty,
                      Block(q.buf[b]) \notin q.waived
               PROVE  q.buf[b].data = q.disk[Block(q.buf[b])]
    BY DEF CleanBut
  <2>1. q.buf[b] = p.buf[b] /\ Block(p.buf[b]) \notin Y
    BY <1>10 DEF Valid
  <2>2. Block(p.buf[b]) \in Blocks
    BY <1>13, <2>1, ValidBlock
  <2>3. Block(p.buf[b]) \notin p.waived
    BY <1>8, <2>1, <2>2
  <2> QED
    BY <1>13, <1>14, <2>1, <2>2, <2>3 DEF CleanBut
<1>16. \A x \in Y \ q.waived : See(q, x) = d /\ q.disk[x] = d
  <2> SUFFICES ASSUME NEW x \in Y \ q.waived PROVE q.disk[x] = d
    BY <1>12, SeeMiss
  <2>1. x \in Blocks /\ x \in {u} \X (X \ I)
    BY <1>7, <1>8
  <2> QED
    BY <1>11, <2>1
<1> QED
  BY <1>7, <1>8, <1>9, <1>14, <1>15, <1>16 DEF Good, Kept, ManyWritten

LEMMA ManyAbortedGood ==
  ASSUME NEW p, Good(p, {}), NEW u \in Units, NEW X \in SUBSET Sectors, NEW d \in Values,
         NEW q \in RW_MANY_aborted(p, u, X, d)
  PROVE  /\ Good(q, {}) /\ Kept(p, q, UnitBlocks(u)) /\ q.waived = p.waived
         /\ \A x \in UnitBlocks(u) : See(q, x) = q.disk[x]
<1>1. PICK I \in SUBSET X : q = INV_UD(Written(p, u, I, d), u)
  BY DEF RW_MANY_aborted
<1> DEFINE m == Written(p, u, I, d)
<1>2. I \in SUBSET Sectors /\ m = Written(p, u, I, d)
  OBVIOUS
<1> HIDE DEF m
<1>17. Transferred(p, u, I, d, m)
  BY <1>2, WrittenGood
<1>3. Good(m, {u} \X I) /\ Kept(p, m, {u} \X I) /\ m.waived = p.waived
  BY <1>17 DEF Transferred
<1>4. {u} \X I \subseteq UnitBlocks(u)
  BY <1>2 DEF UnitBlocks
<1>5. /\ Good(q, {}) /\ q.waived = m.waived
      /\ Kept(m, q, UnitBlocks(u))
      /\ \A x \in UnitBlocks(u) : See(q, x) = q.disk[x]
  BY <1>1, <1>2, <1>3, <1>4, InvUdGood
<1>6. Kept(p, q, UnitBlocks(u))
  BY <1>3, <1>4, <1>5 DEF Kept
<1> QED
  BY <1>3, <1>5, <1>6

-----------------------------------------------------------------------------
(* The steps of the pool are steps of the store. *)

\* What the variables hold after a routine, and what is seen then.
LEMMA BecomesGood ==
  ASSUME NEW q, Good(q, {}), NEW r, Becomes(q, r)
  PROVE  /\ Good(Now, {})'
         /\ disk' = q.disk /\ waived' = q.waived /\ result' = r
         /\ \A x \in Blocks : View(x)' = See(q, x)
<1>1. /\ chain' = q.chain /\ cache' = q.cache /\ buf' = q.buf
      /\ disk' = q.disk /\ waived' = q.waived /\ result' = r
  BY DEF Becomes
<1>2. PoolTyped(q) /\ CleanBut(q, {}) /\ Sound(q)
  BY DEF Good, PoolTyped
<1>3. Sound(Now)'
  BY <1>2, BecomesSound DEF IInv
<1>4. PoolTyped(Now)'
  BY <1>1, <1>2, <1>3 DEF PoolTyped, Now
<1>5. CleanBut(Now, {})'
  BY <1>1, <1>2 DEF CleanBut, Now
<1>6. \A x \in Blocks : View(x)' = See(q, x)
  BY <1>1 DEF View, See, Hits, Now
<1> QED
  BY <1>1, <1>4, <1>5, <1>6 DEF Good

LEMMA ViewSees == \A x : View(x) = See(Now, x)
  BY DEF View, See, Now

\* A routine that leaves every sector as it was is a read of the store.
LEMMA ReadStep ==
  ASSUME NEW q, Good(q, {}), Becomes(q, "ok"), Kept(Now, q, {}), Settled(Now, q)
  PROVE  Store!Next
<1>1. /\ disk' = q.disk /\ waived' = q.waived /\ result' = "ok"
      /\ \A x \in Blocks : View(x)' = See(q, x)
  BY BecomesGood
<1>2. \A x \in Blocks : View(x) = See(Now, x)
  BY ViewSees
<1>3. Now.disk = disk /\ Now.waived = waived
  BY DEF Now
<1>4. Store!Changed = {}
  BY <1>1, <1>2, <1>3 DEF Store!Changed, Store!Blocks, Blocks, Kept
<1>5. Store!Settle
  BY <1>1, <1>2, <1>3 DEF Store!Settle, Store!Blocks, Blocks, Settled
<1> QED
  BY <1>1, <1>4, <1>5 DEF Store!Next, Store!Read

\* A routine that makes d the contents of sector x is a write of the store.
LEMMA WriteStep ==
  ASSUME NEW q, Good(q, {}), Becomes(q, "ok"), NEW x \in Blocks, NEW d \in Values,
         Kept(Now, q, {x}), Settled(Now, q), See(q, x) = d, x \notin q.waived
  PROVE  Store!Next
<1>1. /\ disk' = q.disk /\ waived' = q.waived /\ result' = "ok"
      /\ \A y \in Blocks : View(y)' = See(q, y)
  BY BecomesGood
<1>2. \A y \in Blocks : View(y) = See(Now, y)
  BY ViewSees
<1>3. Now.disk = disk /\ Now.waived = waived
  BY DEF Now
<1>4. Store!Changed \subseteq {x}
  BY <1>1, <1>2, <1>3 DEF Store!Changed, Store!Blocks, Blocks, Kept
<1>5. Store!Settle
  BY <1>1, <1>2, <1>3 DEF Store!Settle, Store!Blocks, Blocks, Settled
<1>6. x \notin waived' /\ View(x)' = d /\ x \in Store!Blocks
  BY <1>1 DEF Store!Blocks, Blocks
<1>7. Store!Write
  BY <1>4, <1>5, <1>6 DEF Store!Write, Store!Blocks, Blocks
<1> QED
  BY <1>1, <1>7 DEF Store!Next

\* A transfer past the buffers, whatever is flushed around it, is one of the store.
LEMMA DirectStep ==
  ASSUME NEW q, Good(q, {}), Becomes(q, "ok"),
         NEW u \in Units, NEW X \in SUBSET Sectors, NEW d \in Values,
         Kept(Now, q, {u} \X X),
         \A x \in ({u} \X X) \ q.waived : See(q, x) = d /\ q.disk[x] = d,
         \A x \in Blocks \ ({u} \X X) : q.disk[x] \in {disk[x], See(Now, x)}
  PROVE  Store!Next
<1> DEFINE Y == {u} \X X
<1>1. /\ disk' = q.disk /\ waived' = q.waived /\ result' = "ok"
      /\ \A y \in Blocks : View(y)' = See(q, y)
  BY BecomesGood
<1>2. \A y \in Blocks : View(y) = See(Now, y)
  BY ViewSees
<1>3. Now.disk = disk /\ Now.waived = waived
  BY DEF Now
<1>4. Y \in SUBSET ({u} \X Sectors) /\ Y \subseteq Blocks
  BY DEF Blocks
<1>5. Store!Changed \subseteq Y
  BY <1>1, <1>2, <1>3 DEF Store!Changed, Store!Blocks, Blocks, Kept
<1>6. \A x \in Y \ waived' : View(x)' = d /\ disk'[x] = d
  BY <1>1, <1>4
<1>7. \A x \in Blocks \ Y : disk'[x] \in {disk[x], View(x)}
  BY <1>1, <1>2
<1> HIDE DEF Y
<1>8. Store!DirectWrite
  <2> DEFINE seen == [x \in Blocks |-> View(x)]
  <2>1. \A x \in Y \ waived' : seen'[x] = d /\ disk'[x] = d
    BY <1>4, <1>6
  <2>2. \A x \in Store!Blocks \ Y : disk'[x] \in {disk[x], seen[x]}
    BY <1>7 DEF Store!Blocks, Blocks
  <2> HIDE DEF seen
  <2>3. \E e \in Values : \A x \in Y \ waived' : seen'[x] = e /\ disk'[x] = e
    BY <2>1
  <2> QED
    BY <1>4, <1>5, <2>2, <2>3 DEF Store!DirectWrite, seen
<1> QED
  BY <1>1, <1>8 DEF Store!Next

\* A routine after which the medium has all of a unit is a flush of the store.
LEMMA FlushStep ==
  ASSUME NEW q, Good(q, {}), Becomes(q, "flushed"), Kept(Now, q, {}), Settled(Now, q),
         NEW u \in Units,
         \A x \in UnitBlocks(u) : x \in q.waived \/ q.disk[x] = See(Now, x)
  PROVE  Store!Next
<1>1. /\ disk' = q.disk /\ waived' = q.waived /\ result' = "flushed"
      /\ \A y \in Blocks : View(y)' = See(q, y)
  BY BecomesGood
<1>2. \A y \in Blocks : View(y) = See(Now, y)
  BY ViewSees
<1>3. Now.disk = disk /\ Now.waived = waived
  BY DEF Now
<1>4. Store!Changed = {}
  BY <1>1, <1>2, <1>3 DEF Store!Changed, Store!Blocks, Blocks, Kept
<1>5. Store!Settle
  BY <1>1, <1>2, <1>3 DEF Store!Settle, Store!Blocks, Blocks, Settled
<1>6. \A x \in ({u} \X Sectors) \ waived' : disk'[x] = View(x) /\ x \in Blocks
  BY <1>1, <1>2 DEF UnitBlocks, Blocks
<1>7. Store!Flush
  BY <1>4, <1>5, <1>6 DEF Store!Flush, Store!Blocks, Blocks
<1> QED
  BY <1>1, <1>7 DEF Store!Next

\* An aborted routine leaves one unit as its medium is: an abort of the store.
LEMMA AbortStep ==
  ASSUME NEW q, Good(q, {}), Becomes(q, "abort"), Aborted(Now, q)
  PROVE  Store!Next
<1>1. /\ disk' = q.disk /\ waived' = q.waived /\ result' = "abort"
      /\ \A y \in Blocks : View(y)' = See(q, y)
  BY BecomesGood
<1>2. \A y \in Blocks : View(y) = See(Now, y)
  BY ViewSees
<1>3. Now.disk = disk /\ Now.waived = waived
  BY DEF Now
<1>4. PICK u \in Units : /\ Kept(Now, q, UnitBlocks(u))
                         /\ \A x \in UnitBlocks(u) : See(q, x) = q.disk[x]
  BY DEF Aborted
<1>5. Store!Changed \subseteq {u} \X Sectors
  BY <1>1, <1>2, <1>3, <1>4 DEF Store!Changed, Store!Blocks, Blocks, Kept, UnitBlocks
<1>6. \A x \in {u} \X Sectors : View(x)' = disk'[x] /\ x \in Blocks
  BY <1>1, <1>4 DEF UnitBlocks, Blocks
<1>7. Store!Abort
  BY <1>5, <1>6 DEF Store!Abort, Store!Blocks, Blocks
<1> QED
  BY <1>1, <1>7 DEF Store!Next

-----------------------------------------------------------------------------
(* Every operation of the callers keeps the pool good and is a step of the   *)
(* store.                                                                    *)

SInv == Good(Now, {}) /\ result \in {"ok", "flushed", "abort"}

LEMMA BecomesInv ==
  ASSUME NEW q, Good(q, {}), NEW r \in {"ok", "flushed", "abort"}, Becomes(q, r)
  PROVE  SInv'
<1>1. Good(Now, {})' /\ result' = r
  BY BecomesGood
<1> QED
  BY <1>1 DEF SInv

LEMMA ReadSectorStep == ASSUME SInv, ReadSector PROVE SInv' /\ Store!Next
<1>0. Good(Now, {})
  BY DEF SInv
<1>1. PICK x \in Blocks : \/ \E q \in BF_SECTOR(Now, x, TRUE) : Becomes(q, "ok")
                          \/ \E q \in BF_SECTOR_aborted(Now, x, TRUE) : Becomes(q, "abort")
  BY DEF ReadSector
<1>2. ASSUME NEW q \in BF_SECTOR(Now, x, TRUE), Becomes(q, "ok") PROVE SInv' /\ Store!Next
  <2>1. Good(q, {}) /\ Kept(Now, q, {}) /\ Settled(Now, q)
    BY <1>0, SectorGood
  <2> QED
    BY <1>2, <2>1, BecomesInv, ReadStep
<1>3. ASSUME NEW q \in BF_SECTOR_aborted(Now, x, TRUE), Becomes(q, "abort")
      PROVE  SInv' /\ Store!Next
  <2>1. Good(q, {}) /\ Aborted(Now, q)
    BY <1>0, SectorAbortedGood
  <2> QED
    BY <1>3, <2>1, BecomesInv, AbortStep
<1> QED
  BY <1>1, <1>2, <1>3

LEMMA WriteSectorStep == ASSUME SInv, WriteSector PROVE SInv' /\ Store!Next
<1>0. Good(Now, {})
  BY DEF SInv
<1>1. PICK x \in Blocks, d \in Values, read \in BOOLEAN :
        \/ \E q \in BF_SECTOR(Now, x, read) : Becomes(DIRT_CACHE(q, x, d), "ok")
        \/ \E q \in BF_SECTOR_aborted(Now, x, read) : Becomes(q, "abort")
  BY DEF WriteSector
<1>2. ASSUME NEW p \in BF_SECTOR(Now, x, read), NEW q, q = DIRT_CACHE(p, x, d), Becomes(q, "ok")
      PROVE  SInv' /\ Store!Next
  <2>1. /\ Good(p, {x}) /\ Kept(Now, p, {x}) /\ Settled(Now, p)
        /\ BF_CMP(p.buf[p.cache], x)
    BY <1>0, SectorGood
  <2>2. /\ Good(q, {}) /\ Kept(p, q, {x}) /\ q.disk = p.disk
        /\ See(q, x) = d /\ x \notin q.waived /\ p.waived \subseteq q.waived \cup {x}
    <3>1. Stored(p, x, d, q)
      BY <1>2, <2>1, DirtGood
    <3> QED
      BY <3>1 DEF Stored
  <2>3. Kept(Now, q, {x}) /\ Settled(Now, q)
    BY <2>1, <2>2 DEF Kept, Settled
  <2> QED
    BY <1>2, <2>2, <2>3, BecomesInv, WriteStep
<1>3. ASSUME NEW q \in BF_SECTOR_aborted(Now, x, read), Becomes(q, "abort")
      PROVE  SInv' /\ Store!Next
  <2>1. Good(q, {}) /\ Aborted(Now, q)
    BY <1>0, SectorAbortedGood
  <2> QED
    BY <1>3, <2>1, BecomesInv, AbortStep
<1> QED
  BY <1>1, <1>2, <1>3

LEMMA FinishSectorStep == ASSUME SInv, FinishSector PROVE SInv' /\ Store!Next
<1>0. Good(Now, {}) /\ PoolTyped(Now) /\ cache \in Buffers
  BY DEF SInv, Good, PoolTyped, Now
<1>1. ASSUME NEW p \in BF_FLUSH(Now, cache), NEW q,
             q = [p EXCEPT !.chain = MoveToStart(@, cache)], Becomes(q, "ok")
      PROVE  SInv' /\ Store!Next
  <2>1. Good(p, {}) /\ Kept(Now, p, {}) /\ Settled(Now, p)
    BY <1>0, FlushGood
  <2>2. /\ DOMAIN q = DOMAIN p /\ q.cache = p.cache
        /\ q.buf = p.buf /\ q.disk = p.disk /\ q.waived = p.waived
        /\ q.chain = MoveToStart(p.chain, cache)
    BY <1>1, <2>1 DEF Good, PoolTyped, Sound
  <2>3. IsChain(q.chain)
    BY <1>0, <2>1, <2>2, MovedChains DEF Good, PoolTyped
  <2>4. PoolTyped(q)
    BY <2>1, <2>2, <2>3 DEF Good, PoolTyped, Sound
  <2>5. Good(q, {}) /\ \A x : See(q, x) = See(p, x)
    BY <2>1, <2>2, <2>4, SameContents
  <2>6. Kept(Now, q, {}) /\ Settled(Now, q)
    BY <2>1, <2>2, <2>5 DEF Kept, Settled
  <2> QED
    BY <1>1, <2>5, <2>6, BecomesInv, ReadStep
<1>2. ASSUME Dirty(buf[cache]), Becomes(FlushAborted(Now, cache), "abort")
      PROVE  SInv' /\ Store!Next
  <2> DEFINE q == FlushAborted(Now, cache)
  <2>1. Valid(Now.buf[cache])
    BY <1>2 DEF Dirty, Now
  <2>2. q = FlushAborted(Now, cache) /\ Becomes(q, "abort")
    BY <1>2
  <2> HIDE DEF q
  <2>3. /\ Good(q, {}) /\ Now.buf[cache].unit \in Units
        /\ Kept(Now, q, UnitBlocks(Now.buf[cache].unit))
        /\ \A x \in UnitBlocks(Now.buf[cache].unit) : See(q, x) = q.disk[x]
    BY <1>0, <2>1, <2>2, FlushAbortedGood
  <2>4. Aborted(Now, q)
    BY <2>3 DEF Aborted
  <2> QED
    BY <2>2, <2>3, <2>4, BecomesInv, AbortStep
<1> QED
  BY <1>1, <1>2 DEF FinishSector

LEMMA FlushUnitsStep == ASSUME SInv, FlushUnits PROVE SInv' /\ Store!Next
<1>0. Good(Now, {})
  BY DEF SInv
<1>1. PICK U \in {{u} : u \in Units} \cup {Units} :
        \/ \E q \in FL(Now, U) : Becomes(q, "flushed")
        \/ \E q \in FL_aborted(Now, U) : Becomes(q, "abort")
  BY DEF FlushUnits
<1>2. U \in SUBSET Units /\ \E u \in Units : u \in U
  BY PoolAssumption
<1>3. PICK u \in Units : u \in U
  BY <1>2
<1>4. ASSUME NEW q \in FL(Now, U), Becomes(q, "flushed") PROVE SInv' /\ Store!Next
  <2>1. /\ Good(q, {}) /\ Kept(Now, q, {}) /\ Settled(Now, q)
        /\ \A x \in Blocks : See(q, x) = See(Now, x)
        /\ \A x \in Blocks : x[1] \in U /\ x \notin q.waived => q.disk[x] = See(q, x)
    BY <1>0, <1>2, FlGood
  <2>2. \A x \in UnitBlocks(u) : x \in q.waived \/ q.disk[x] = See(Now, x)
    BY <1>3, <2>1 DEF UnitBlocks, Blocks
  <2> QED
    BY <1>4, <2>1, <2>2, BecomesInv, FlushStep
<1>5. ASSUME NEW q \in FL_aborted(Now, U), Becomes(q, "abort") PROVE SInv' /\ Store!Next
  <2>1. Good(q, {}) /\ Aborted(Now, q)
    BY <1>0, <1>2, FlAbortedGood
  <2> QED
    BY <1>5, <2>1, BecomesInv, AbortStep
<1> QED
  BY <1>1, <1>4, <1>5

LEMMA DirectWriteStep == ASSUME SInv, DirectWrite PROVE SInv' /\ Store!Next
<1>0. Good(Now, {}) /\ Now.disk = disk
  BY DEF SInv, Now
<1>1. PICK u \in Units, X \in Runs, d \in Values :
        \/ \E q \in RW_MANY(Now, u, X, d) : Becomes(q, "ok")
        \/ \E q \in RW_MANY_aborted(Now, u, X, d) : Becomes(q, "abort")
  BY DEF DirectWrite
<1>2. X \in SUBSET Sectors
  BY PoolAssumption
<1>3. ASSUME NEW q \in RW_MANY(Now, u, X, d), Becomes(q, "ok") PROVE SInv' /\ Store!Next
  <2>1. /\ Good(q, {}) /\ Kept(Now, q, {u} \X X)
        /\ \A x \in ({u} \X X) \ q.waived : See(q, x) = d /\ q.disk[x] = d
        /\ \A x \in Blocks \ ({u} \X X) : q.disk[x] = disk[x]
    <3>1. ManyWritten(Now, u, X, d, q)
      BY <1>0, <1>2, ManyGood
    <3> QED
      BY <1>0, <3>1 DEF ManyWritten
  <2> QED
    BY <1>2, <1>3, <2>1, BecomesInv, DirectStep
<1>4. ASSUME NEW q \in RW_MANY_aborted(Now, u, X, d), Becomes(q, "abort")
      PROVE  SInv' /\ Store!Next
  <2>1. Good(q, {}) /\ Aborted(Now, q)
    <3>1. /\ Good(q, {}) /\ Kept(Now, q, UnitBlocks(u))
          /\ \A x \in UnitBlocks(u) : See(q, x) = q.disk[x]
      BY <1>0, <1>2, ManyAbortedGood
    <3> QED
      BY <3>1 DEF Aborted
  <2> QED
    BY <1>4, <2>1, BecomesInv, AbortStep
<1> QED
  BY <1>1, <1>3, <1>4

\* A pool p without dirty buffers and, then, buffers of unit u.
Dropped(p, u, q) ==
    /\ Good(q, {}) /\ Kept(p, q, {}) /\ Settled(p, q) /\ p.waived \subseteq q.waived
    /\ \A x \in UnitBlocks(u) : See(q, x) = q.disk[x]

LEMMA DroppedGood ==
  ASSUME NEW p, Good(p, {}), NEW u \in Units, NEW m \in FL(p, {u}), NEW q, q = INV_UD(m, u)
  PROVE  Dropped(p, u, q)
<1>0. {u} \in SUBSET Units /\ {} \subseteq UnitBlocks(u)
  OBVIOUS
<1>1. /\ Good(m, {}) /\ Kept(p, m, {}) /\ Settled(p, m) /\ p.waived \subseteq m.waived
      /\ \A x \in Blocks : See(m, x) = See(p, x)
      /\ \A x \in Blocks : x[1] \in {u} /\ x \notin m.waived => m.disk[x] = See(m, x)
  BY <1>0, FlGood
<1>2. /\ Good(q, {}) /\ q.disk = m.disk /\ q.waived = m.waived
      /\ Kept(m, q, UnitBlocks(u))
      /\ \A x \in UnitBlocks(u) : See(q, x) = q.disk[x]
  BY <1>0, <1>1, InvUdGood
<1>3. Settled(p, q)
  BY <1>1, <1>2 DEF Settled
<1>4. Kept(p, q, {})
  <2> SUFFICES ASSUME NEW x \in Blocks, x \notin p.waived \cup q.waived
               PROVE  See(q, x) = See(p, x)
    BY DEF Kept
  <2>1. CASE x \in UnitBlocks(u)
    <3>1. x[1] \in {u}
      BY <2>1 DEF UnitBlocks
    <3> QED
      BY <1>1, <1>2, <2>1, <3>1
  <2>2. CASE x \notin UnitBlocks(u)
    BY <1>1, <1>2, <2>2 DEF Kept
  <2> QED
    BY <2>1, <2>2
<1> QED
  BY <1>1, <1>2, <1>3, <1>4 DEF Dropped

LEMMA AbsoluteReadStep == ASSUME SInv, AbsoluteRead PROVE SInv' /\ Store!Next
<1>0. Good(Now, {})
  BY DEF SInv
<1>1. PICK u \in Units :
        \/ \E q \in FL(Now, {u}), r \in {"flushed", "abort"} : Becomes(INV_UD(q, u), r)
        \/ \E q \in FL_aborted(Now, {u}) : Becomes(q, "abort")
  BY DEF AbsoluteRead
<1>2. {u} \in SUBSET Units
  OBVIOUS
<1>3. ASSUME NEW m \in FL(Now, {u}), NEW r \in {"flushed", "abort"}, NEW q,
             q = INV_UD(m, u), Becomes(q, r)
      PROVE  SInv' /\ Store!Next
  <2>1. Dropped(Now, u, q)
    BY <1>0, <1>3, DroppedGood
  <2>2. Good(q, {}) /\ Kept(Now, q, {}) /\ Settled(Now, q)
    BY <2>1 DEF Dropped
  <2>3. \A x \in UnitBlocks(u) : x \in q.waived \/ q.disk[x] = See(Now, x)
    <3> SUFFICES ASSUME NEW x \in UnitBlocks(u), x \notin q.waived
                 PROVE  q.disk[x] = See(Now, x)
      OBVIOUS
    <3>1. x \in Blocks
      BY DEF UnitBlocks, Blocks
    <3> QED
      BY <2>1, <3>1 DEF Dropped, Kept
  <2>4. Aborted(Now, q)
    BY <2>1 DEF Dropped, Aborted, Kept
  <2>5. SInv'
    BY <1>3, <2>2, BecomesInv
  <2>6. CASE r = "flushed"
    BY <1>3, <2>2, <2>3, <2>5, <2>6, FlushStep
  <2>7. CASE r = "abort"
    BY <1>3, <2>2, <2>4, <2>5, <2>7, AbortStep
  <2> QED
    BY <2>6, <2>7
<1>4. ASSUME NEW q \in FL_aborted(Now, {u}), Becomes(q, "abort") PROVE SInv' /\ Store!Next
  <2>1. Good(q, {}) /\ Aborted(Now, q)
    BY <1>0, <1>2, FlAbortedGood
  <2> QED
    BY <1>4, <2>1, BecomesInv, AbortStep
<1> QED
  BY <1>1, <1>3, <1>4

LEMMA AbsoluteWriteStep == ASSUME SInv, AbsoluteWrite PROVE SInv' /\ Store!Next
<1>0. Good(Now, {}) /\ Now.disk = disk
  BY DEF SInv, Now
<1>1. PICK u \in Units, X \in Runs, d \in Values :
        \/ \E q \in FL(Now, {u}) :
             \/ \E r \in RW_MANY(INV_UD(q, u), u, X, d) : Becomes(INV_UD(r, u), "ok")
             \/ \E r \in RW_MANY_aborted(INV_UD(q, u), u, X, d) : Becomes(r, "abort")
        \/ \E q \in FL_aborted(Now, {u}) : Becomes(q, "abort")
  BY DEF AbsoluteWrite
<1>2. {u} \in SUBSET Units /\ X \in SUBSET Sectors /\ {} \subseteq UnitBlocks(u)
  BY PoolAssumption
<1>3. ASSUME NEW f \in FL(Now, {u}), NEW m, m = INV_UD(f, u), NEW r \in RW_MANY(m, u, X, d),
             NEW q, q = INV_UD(r, u), Becomes(q, "ok")
      PROVE  SInv' /\ Store!Next
  <2>1. Dropped(Now, u, m)
    BY <1>0, <1>3, DroppedGood
  <2>2. ManyWritten(m, u, X, d, r)
    BY <1>2, <2>1, ManyGood DEF Dropped
  <2>3. /\ Good(q, {}) /\ q.disk = r.disk /\ q.waived = r.waived
        /\ Kept(r, q, UnitBlocks(u))
        /\ \A x \in UnitBlocks(u) : See(q, x) = q.disk[x]
    <3>1. Good(r, {})
      BY <2>2 DEF ManyWritten
    <3> QED
      BY <1>2, <1>3, <3>1, InvUdGood
  <2> DEFINE Y == {u} \X X
  <2>4. /\ \A x \in Y \ q.waived : See(q, x) = d /\ q.disk[x] = d
        /\ \A x \in Blocks \ Y : q.disk[x] = m.disk[x] /\ (x \in m.waived <=> x \in q.waived)
        /\ Kept(m, r, Y)
    <3>1. Y \subseteq UnitBlocks(u)
      BY <1>2 DEF UnitBlocks
    <3> QED
      BY <2>2, <2>3, <3>1 DEF ManyWritten
  <2> HIDE DEF Y
  <2>5. \A x \in Blocks \ Y : q.disk[x] \in {disk[x], See(Now, x)}
    BY <1>0, <2>1, <2>4 DEF Dropped, Settled
  <2>6. Kept(Now, q, Y)
    <3> SUFFICES ASSUME NEW x \in Blocks \ Y, x \notin Now.waived \cup q.waived
                 PROVE  See(q, x) = See(Now, x)
      BY DEF Kept
    <3>1. x \notin m.waived /\ See(m, x) = See(Now, x)
      BY <2>1, <2>4 DEF Dropped, Kept
    <3>2. CASE x \in UnitBlocks(u)
      BY <2>1, <2>3, <2>4, <3>1, <3>2 DEF Dropped
    <3>3. CASE x \notin UnitBlocks(u)
      BY <2>3, <2>4, <3>1, <3>3 DEF Kept
    <3> QED
      BY <3>2, <3>3
  <2>7. SInv'
    BY <1>3, <2>3, BecomesInv
  <2>8. /\ Kept(Now, q, {u} \X X)
        /\ \A x \in ({u} \X X) \ q.waived : See(q, x) = d /\ q.disk[x] = d
        /\ \A x \in Blocks \ ({u} \X X) : q.disk[x] \in {disk[x], See(Now, x)}
    BY <2>4, <2>5, <2>6 DEF Y
  <2>9. Good(q, {}) /\ Becomes(q, "ok")
    BY <1>3, <2>3
  <2> QED
    BY <1>2, <2>7, <2>8, <2>9, DirectStep
<1>4. ASSUME NEW f \in FL(Now, {u}), NEW m, m = INV_UD(f, u),
             NEW q \in RW_MANY_aborted(m, u, X, d), Becomes(q, "abort")
      PROVE  SInv' /\ Store!Next
  <2>1. Dropped(Now, u, m)
    BY <1>0, <1>4, DroppedGood
  <2>2. /\ Good(q, {}) /\ Kept(m, q, UnitBlocks(u)) /\ q.waived = m.waived
        /\ \A x \in UnitBlocks(u) : See(q, x) = q.disk[x]
    <3>1. Good(m, {})
      BY <2>1 DEF Dropped
    <3> QED
      BY <1>2, <3>1, ManyAbortedGood
  <2>3. Aborted(Now, q)
    BY <2>1, <2>2 DEF Aborted, Kept, Dropped
  <2> QED
    BY <1>4, <2>2, <2>3, BecomesInv, AbortStep
<1>5. ASSUME NEW q \in FL_aborted(Now, {u}), Becomes(q, "abort") PROVE SInv' /\ Store!Next
  <2>1. Good(q, {}) /\ Aborted(Now, q)
    BY <1>0, <1>2, FlAbortedGood
  <2> QED
    BY <1>5, <2>1, BecomesInv, AbortStep
<1> QED
  BY <1>1, <1>3, <1>4, <1>5

\* Stuttering steps of the pool are those of the store.
LEMMA StutterStep == ASSUME SInv, UNCHANGED vars PROVE SInv' /\ UNCHANGED Store!store
<1>1. /\ chain' = chain /\ cache' = cache /\ buf' = buf
      /\ disk' = disk /\ waived' = waived /\ result' = result
  BY DEF vars
<1>2. Now' = Now
  BY <1>1 DEF Now
<1>3. Becomes(Now, result)
  BY <1>1 DEF Becomes, Now
<1>4. \A x \in Blocks : View(x)' = View(x)
  BY <1>1, <1>2 DEF View, Hits
<1>5. UNCHANGED Store!store
  BY <1>1, <1>4 DEF Store!store
<1> QED
  BY <1>3, <1>5, BecomesInv DEF SInv

LEMMA StepStore == ASSUME SInv, [Next]_vars PROVE SInv' /\ [Store!Next]_(Store!store)
<1>1. CASE ReadSector
  BY <1>1, ReadSectorStep
<1>2. CASE WriteSector
  BY <1>2, WriteSectorStep
<1>3. CASE FinishSector
  BY <1>3, FinishSectorStep
<1>4. CASE FlushUnits
  BY <1>4, FlushUnitsStep
<1>5. CASE DirectWrite
  BY <1>5, DirectWriteStep
<1>6. CASE AbsoluteWrite
  BY <1>6, AbsoluteWriteStep
<1>7. CASE AbsoluteRead
  BY <1>7, AbsoluteReadStep
<1>8. CASE UNCHANGED vars
  BY <1>8, StutterStep
<1> QED
  BY <1>1, <1>2, <1>3, <1>4, <1>5, <1>6, <1>7, <1>8 DEF Next

\* A free pool over a medium of zeroes.
LEMMA InitStore == ASSUME Init PROVE SInv /\ Store!Init
<1>1. Sound(Now)
  BY InitSound DEF IInv
<1>2. IsChain(chain) /\ cache \in Buffers
  BY NumberOfBuffers DEF Init, IsChain, Lists, n
<1>3. \A b \in Buffers : buf[b].unit = Empty /\ buf[b] \in Descriptor
  BY PoolAssumption DEF Init, Descriptor
<1>4. /\ buf \in [Buffers -> Descriptor]
      /\ disk = [x \in Blocks |-> Zero] /\ disk \in [Blocks -> Values]
      /\ waived = {} /\ result = "ok"
  BY <1>3, PoolAssumption DEF Init
<1>5. Good(Now, {})
  BY <1>1, <1>2, <1>3, <1>4 DEF Good, PoolTyped, CleanBut, Valid, Now
<1>6. ASSUME NEW x \in Blocks PROVE View(x) = disk[x]
  <2>1. x[1] # Empty
    BY PoolAssumption DEF Blocks
  <2>2. Hits(Now, x) = {}
    BY <1>3, <2>1 DEF Hits, BF_CMP, Block, Now
  <2> QED
    BY <2>2 DEF View
<1>7. Store!Init
  BY <1>4, <1>6 DEF Store!Init, Store!Blocks, Blocks
<1> QED
  BY <1>4, <1>5, <1>7 DEF SInv

\* The chain keeps every buffer exactly once, a buffer always is for a sector
\* of the medium or free, through every order of moves to its two ends and
\* every flush, invalidation and abort.
THEOREM PoolTypeCorrect == Spec => []TypeOK
<1>1. SInv => TypeOK
  BY DEF SInv, Good, PoolTyped, IsChain, Lists, Now, n, TypeOK
<1>2. Init => SInv
  BY InitStore
<1>3. SInv /\ [Next]_vars => SInv'
  BY StepStore
<1> QED
  BY <1>1, <1>2, <1>3, PTL DEF Spec

\* A transfer past the buffers reads what a buffered read would (RW_MANY and
\* CORRECT_BUF against BF_SECTOR), on every sector with no waived error.
THEOREM DirectReadsAgree == Spec => []DirectReadCoherent
<1>1. ASSUME SInv, NEW x \in Blocks \ waived
      PROVE  RW_MANY_read(Now, x[1], {x[2]})[x[2]] = View(x)
  <2>1. /\ PoolTyped(Now) /\ CleanBut(Now, {})
        /\ Now.disk = disk /\ Now.buf = buf /\ Now.waived = waived
    BY <1>1 DEF SInv, Good, Now
  <2>2. <<x[1], x[2]>> = x
    BY DEF Blocks
  <2>3. RW_MANY_read(Now, x[1], {x[2]})[x[2]] =
          IF \E b \in Hits(Now, x) : buf[b].dirty
          THEN buf[CHOOSE b \in Hits(Now, x) : buf[b].dirty].data ELSE disk[x]
    BY <2>1, <2>2 DEF RW_MANY_read
  <2>4. CASE Hits(Now, x) = {}
    BY <2>3, <2>4 DEF View
  <2>5. CASE Hits(Now, x) # {}
    <3>1. PICK b \in Buffers : Block(Now.buf[b]) = x
      BY <2>5 DEF Hits, BF_CMP
    <3>2. View(x) = buf[b].data /\ Hits(Now, x) = {b}
      BY <2>1, <3>1, SeeHit, ViewSees
    <3>3. CASE buf[b].dirty
      BY <2>3, <3>2, <3>3
    <3>4. CASE ~buf[b].dirty
      <4>1. Valid(Now.buf[b])
        BY <3>1, PoolAssumption DEF Valid, Block, Blocks
      <4>2. buf[b].data = disk[x]
        BY <2>1, <3>1, <3>4, <4>1 DEF CleanBut
      <4> QED
        BY <2>3, <3>2, <3>4, <4>2
    <3> QED
      BY <3>3, <3>4
  <2> QED
    BY <2>4, <2>5
<1>2. SInv => DirectReadCoherent
  BY <1>1 DEF DirectReadCoherent
<1>3. Init => SInv
  BY InitStore
<1>4. SInv /\ [Next]_vars => SInv'
  BY StepStore
<1> QED
  BY <1>2, <1>3, <1>4, PTL DEF Spec

\* The buffers implement SectorStore: evictions, flushes, direct transfers and
\* error answers lose, repeat or misplace no write.
THEOREM BuffersImplementStore == Spec => StoreSpec
<1>1. Init => SInv /\ Store!Init
  BY InitStore
<1>2. SInv /\ [Next]_vars => SInv' /\ [Store!Next]_(Store!store)
  BY StepStore
<1> QED
  BY <1>1, <1>2, PTL DEF Spec, StoreSpec, Store!Spec

-----------------------------------------------------------------------------
(* The links of BufferChain hold every buffer once, in the order BufferPool   *)
(* re-uses them, for any number of buffers.  The invariant names the sequence *)
(* that the links spell; BF_START and BF_END change the links as MoveToStart  *)
(* and MoveToEnd change that sequence.                                        *)

\* The number of descriptors.
size == Cardinality(Descriptors)

\* There is at least one descriptor.
LEMMA NumberOfDescriptors == size \in Nat \ {0}
<1>1. size \in Nat
  BY ChainAssumption, FS_CardinalityType DEF size
<1>2. size # 0
  BY ChainAssumption, FS_EmptySet DEF size
<1> QED
  BY <1>1, <1>2

\* Every descriptor and B_CHAIN points to a descriptor or is 0.
Links == [Cells -> Descriptors \cup {Null}]

\* The links spell the sequence s.
Spells(lk, s) == /\ lk \in Links
                 /\ lk[B_CHAIN] = s[1] /\ lk[s[size]] = Null
                 /\ \A i \in 1..size - 1 : lk[s[i]] = s[i + 1]

\* s has every buffer once.
Order(s) == Lists(s, size, Descriptors) /\ \A i, j \in 1..size : s[i] = s[j] => i = j

\* Listing all buffers is listing each of them once.
LEMMA OrderIs == ASSUME NEW s, Lists(s, size, Descriptors) PROVE Order(s)
  BY ListsOnce, NumberOfDescriptors, ChainAssumption DEF Order, size

-----------------------------------------------------------------------------
(* Walking along the chain. *)

\* g takes m steps along the links.
Walk(g, m) == \A i \in 0..m : g[i] = IF i = 0 THEN B_CHAIN
                                     ELSE IF g[i - 1] = Null THEN Null ELSE link[g[i - 1]]

\* Two walks are the same.
LEMMA OneWalk ==
    ASSUME NEW m \in Nat, NEW g, NEW w, Walk(g, m), Walk(w, m)
    PROVE  \A i \in 0..m : g[i] = w[i]
<1> DEFINE T == {i \in 0..m : g[i] # w[i]}
<1>1. SUFFICES ASSUME T # {} PROVE FALSE
  OBVIOUS
<1>2. PICK k \in T : \A i \in T : k <= i
  <2>1. T \in SUBSET Nat
    OBVIOUS
  <2> HIDE DEF T
  <2> QED
    BY <1>1, <2>1, LeastNatural
<1>3. CASE k = 0
  BY <1>3 DEF Walk
<1>4. CASE k # 0
  <2>1. k - 1 \in 0..m /\ k \in 0..m /\ k - 1 \notin T
    BY <1>2, <1>4
  <2>2. g[k - 1] = w[k - 1]
    BY <2>1
  <2> QED
    BY <1>4, <2>1, <2>2 DEF Walk
<1> QED
  BY <1>3, <1>4

\* The i-th descriptor is the i-th of the sequence.
LEMMA NthIs ==
    ASSUME NEW s, Order(s), Spells(link, s), NEW m \in 1..size
    PROVE  Nth(m) = s[m]
<1> DEFINE w == [i \in 0..m |-> IF i = 0 THEN B_CHAIN ELSE s[i]]
           Is(v) == v = [i \in 0..m |-> IF i = 0 THEN B_CHAIN
                                        ELSE IF v[i - 1] = Null THEN Null ELSE link[v[i - 1]]]
           g == CHOOSE v : Is(v)
<1>1. /\ s \in [1..size -> Descriptors] /\ size \in Nat /\ m \in Nat /\ m <= size
      /\ \A b \in Descriptors : b # Null /\ B_CHAIN # Null
  BY NumberOfDescriptors, ChainAssumption DEF Order, Lists
<1>2. ASSUME NEW i \in 1..m PROVE w[i - 1] # Null /\ link[w[i - 1]] = w[i]
  <2>1. CASE i = 1
    BY <1>1, <2>1 DEF Spells
  <2>2. CASE i # 1
    <3>1. i - 1 \in 1..size - 1 /\ i - 1 \in 1..m /\ (i - 1) + 1 = i
      BY <1>1, <2>2
    <3>2. w[i - 1] = s[i - 1] /\ w[i] = s[i]
      BY <1>1, <3>1
    <3> QED
      BY <1>1, <3>1, <3>2 DEF Spells
  <2> QED
    BY <2>1, <2>2
<1>3. Is(w)
  BY <1>2
<1>4. Is(g)
  <2> HIDE DEF Is
  <2> QED
    BY <1>3
<1>5. Walk(g, m)
  <2> HIDE DEF g
  <2> QED
    BY <1>4 DEF Walk
<1>6. Walk(w, m)
  <2> HIDE DEF w
  <2> QED
    BY <1>3 DEF Walk
<1>7. Nth(m) = g[m]
  BY Zenon DEF Nth
<1>8. w[m] = s[m] /\ m \in 0..m
  BY <1>1
<1>9. g[m] = w[m]
  <2> HIDE DEF Is, g, w
  <2> QED
    BY <1>1, <1>5, <1>6, <1>8, OneWalk
<1> QED
  BY <1>7, <1>8, <1>9

\* The chain is the sequence that the links spell.
LEMMA ChainIs == ASSUME NEW s, Order(s), Spells(link, s) PROVE Chain = s
<1>1. s \in [1..size -> Descriptors] /\ size \in Nat \ {0} /\ \A i \in 1..size : s[i] # Null
  BY NumberOfDescriptors, ChainAssumption DEF Order, Lists
<1>2. \A i \in 1..size : Nth(i) = s[i]
  BY NthIs
<1>3. {i \in 1..size : Nth(i) # Null} = 1..size
  BY <1>1, <1>2
<1>4. Cardinality(1..size) = size
  BY <1>1, FS_Interval
<1>5. Chain = [i \in 1..size |-> Nth(i)]
  <2>1. Cardinality({i \in 1..size : Nth(i) # Null}) = size
    BY <1>3, <1>4
  <2> QED
    BY <2>1 DEF Chain, size
<1> QED
  BY <1>1, <1>2, <1>5

-----------------------------------------------------------------------------
(* BF_FIND. *)

Paths == [Nat -> Cells]

\* p leads from cell d in m steps to cell e, the first that links to b or ends.
Leads(lk, b, d, e, m, p) ==
    /\ p[0] = d /\ p[m] = e /\ lk[e] \in {Null, b}
    /\ \A i \in 0..m - 1 : lk[p[i]] \notin {Null, b} /\ p[i + 1] = lk[p[i]]

\* Where a search that starts at d may end.
Goals(lk, b, d) == {e \in Cells : \E m \in Nat, p \in Paths : Leads(lk, b, d, e, m, p)}

\* One of the cells of S, if there is one.
OneOf(S) == IF S = {} THEN B_CHAIN ELSE CHOOSE x : x \in S

\* A search that goes on ends where it ends from the next cell.
LEMMA GoalsNext ==
    ASSUME NEW lk \in Links, NEW b, NEW d \in Cells, lk[d] \notin {Null, b}
    PROVE  lk[d] \in Cells /\ Goals(lk, b, d) = Goals(lk, b, lk[d])
<1>1. lk[d] \in Cells
  BY DEF Links, Cells
<1>2. ASSUME NEW e \in Goals(lk, b, d) PROVE e \in Goals(lk, b, lk[d])
  <2>1. PICK m \in Nat, p \in Paths : Leads(lk, b, d, e, m, p)
    BY DEF Goals
  <2>2. m # 0
    BY <2>1 DEF Leads
  <2>3. PICK r \in Paths : \A i \in Nat : r[i] = p[i + 1]
    <3> DEFINE r == [i \in Nat |-> p[i + 1]]
    <3>1. r \in Paths
      BY DEF Paths
    <3> QED
      BY <3>1
  <2>4. m - 1 \in Nat /\ Leads(lk, b, lk[d], e, m - 1, r)
    <3>1. p[1] = lk[d]
      <4>1. 0 \in 0..m - 1 /\ 0 + 1 = 1
        BY <2>2
      <4> QED
        BY <2>1, <4>1 DEF Leads
    <3>2. r[0] = lk[d] /\ r[m - 1] = e
      <4>1. m - 1 \in Nat /\ (m - 1) + 1 = m /\ 0 + 1 = 1
        BY <2>2
      <4> QED
        BY <2>1, <2>3, <3>1, <4>1 DEF Leads
    <3>3. ASSUME NEW i \in 0..(m - 1) - 1
          PROVE  lk[r[i]] \notin {Null, b} /\ r[i + 1] = lk[r[i]]
      <4>1. i \in Nat /\ i + 1 \in 0..m - 1 /\ r[i] = p[i + 1] /\ r[i + 1] = p[(i + 1) + 1]
        BY <2>3
      <4> QED
        BY <2>1, <4>1 DEF Leads
    <3> QED
      BY <2>1, <2>2, <3>2, <3>3 DEF Leads
  <2> QED
    BY <2>4 DEF Goals
<1>3. ASSUME NEW e \in Goals(lk, b, lk[d]) PROVE e \in Goals(lk, b, d)
  <2>1. PICK m \in Nat, p \in Paths : Leads(lk, b, lk[d], e, m, p)
    BY DEF Goals
  <2>2. PICK r \in Paths : \A i \in Nat : r[i] = IF i = 0 THEN d ELSE p[i - 1]
    <3> DEFINE r == [i \in Nat |-> IF i = 0 THEN d ELSE p[i - 1]]
    <3>1. r \in Paths
      BY DEF Paths
    <3> QED
      BY <3>1
  <2>3. ASSUME NEW i \in 0..(m + 1) - 1
        PROVE  lk[r[i]] \notin {Null, b} /\ r[i + 1] = lk[r[i]]
    <3>1. r[i + 1] = p[i]
      BY <2>2
    <3>2. CASE i = 0
      BY <2>1, <2>2, <3>1, <3>2 DEF Leads
    <3>3. CASE i # 0
      <4>1. i - 1 \in 0..m - 1 /\ (i - 1) + 1 = i /\ r[i] = p[i - 1]
        BY <2>2, <3>3
      <4> QED
        BY <2>1, <3>1, <4>1 DEF Leads
    <3> QED
      BY <3>2, <3>3
  <2>4. r[0] = d /\ r[m + 1] = p[m]
    BY <2>2
  <2>5. Leads(lk, b, d, e, m + 1, r)
    BY <2>1, <2>3, <2>4 DEF Leads
  <2> QED
    BY <2>5 DEF Goals
<1> QED
  BY <1>1, <1>2, <1>3

\* A search ends at a cell that links to b, and at the last.
LEMMA GoalsEnd ==
    ASSUME NEW lk \in Links, NEW b, NEW d \in Cells, lk[d] \in {Null, b}
    PROVE  Goals(lk, b, d) = {d}
<1>1. ASSUME NEW e \in Goals(lk, b, d) PROVE e = d
  BY DEF Goals, Leads
<1>2. d \in Goals(lk, b, d)
  <2> DEFINE p == [i \in Nat |-> d]
  <2>1. p \in Paths /\ Leads(lk, b, d, d, 0, p)
    BY DEF Paths, Leads
  <2> HIDE DEF p
  <2> QED
    BY <2>1 DEF Goals
<1> QED
  BY <1>1, <1>2

\* BF_FIND follows the links.
LEMMA Finds ==
    ASSUME NEW lk \in Links, NEW b, NEW c \in Cells, NEW m \in Nat, NEW p \in Paths, NEW e,
           Leads(lk, b, c, e, m, p)
    PROVE  BF_FIND(lk, c, b) = e
<1> DEFINE f == [d \in Cells |-> OneOf(Goals(lk, b, d))]
           Is(v) == v = [d \in Cells |-> IF lk[d] \in {Null, b} THEN d ELSE v[lk[d]]]
           g == CHOOSE v : Is(v)
<1>1. Is(f)
  <2>1. ASSUME NEW d \in Cells, lk[d] \in {Null, b} PROVE f[d] = d
    <3>1. Goals(lk, b, d) = {d}
      BY <2>1, GoalsEnd
    <3>2. OneOf({d}) = d
      BY DEF OneOf
    <3> QED
      BY <3>1, <3>2
  <2>2. ASSUME NEW d \in Cells, lk[d] \notin {Null, b} PROVE f[d] = f[lk[d]]
    <3>1. lk[d] \in Cells /\ Goals(lk, b, d) = Goals(lk, b, lk[d])
      BY <2>2, GoalsNext
    <3> QED
      BY <3>1
  <2>3. f = [d \in Cells |-> f[d]]
    OBVIOUS
  <2> HIDE DEF f
  <2> QED
    BY <2>1, <2>2, <2>3
<1>2. Is(g)
  <2> HIDE DEF Is
  <2> QED
    BY <1>1
<1>3. \A d \in Cells : g[d] = IF lk[d] \in {Null, b} THEN d ELSE g[lk[d]]
  <2> HIDE DEF g
  <2> QED
    BY <1>2
<1>4. BF_FIND(lk, c, b) = g[c]
  BY Zenon DEF BF_FIND
<1> HIDE DEF f, Is, g
<1> DEFINE T == {i \in 0..m : g[p[i]] # g[c]}
<1>5. T = {}
  <2> SUFFICES ASSUME T # {} PROVE FALSE
    OBVIOUS
  <2>1. PICK k \in T : \A i \in T : k <= i
    <3>1. T \in SUBSET Nat
      OBVIOUS
    <3> HIDE DEF T
    <3> QED
      BY <3>1, LeastNatural
  <2>2. k # 0
    BY DEF Leads
  <2>3. k - 1 \in 0..m - 1 /\ k - 1 \in 0..m /\ k - 1 \notin T /\ (k - 1) + 1 = k
    BY <2>1, <2>2
  <2>4. g[p[k - 1]] = g[c] /\ p[k - 1] \in Cells
    BY <2>3 DEF Paths
  <2>5. p[k] = lk[p[k - 1]] /\ lk[p[k - 1]] \notin {Null, b}
    BY <2>3 DEF Leads
  <2> QED
    BY <1>3, <2>1, <2>4, <2>5
<1>6. g[e] = e
  BY <1>3 DEF Leads, Paths
<1>7. g[p[m]] = g[c] /\ p[m] = e
  BY <1>5 DEF Leads
<1> QED
  BY <1>4, <1>6, <1>7

-----------------------------------------------------------------------------
(* BF_START and BF_END. *)

\* A buffer is somewhere in the sequence, and the head pointer is no buffer.
LEMMA Placed ==
    ASSUME NEW s, Order(s), NEW b \in Descriptors
    PROVE  /\ size \in Nat \ {0} /\ s \in [1..size -> Descriptors] /\ Place(s, b) \in 1..size /\ s[Place(s, b)] = b
           /\ \A i, j \in 1..size : s[i] = s[j] => i = j
           /\ \A i \in 1..size : s[i] # B_CHAIN /\ s[i] # Null
  BY NumberOfDescriptors, PlaceOf, ChainAssumption DEF Order, Lists

\* BF_START changes the links as MoveToStart changes the sequence.
LEMMA StartSpells ==
    ASSUME NEW lk, NEW s, Order(s), Spells(lk, s), NEW b \in Descriptors
    PROVE  Spells(BF_START(lk, b), MoveToStart(s, b))
<1> DEFINE q == Place(s, b)
           t == MoveToStart(s, b)
<1>1. /\ size \in Nat \ {0} /\ s \in [1..size -> Descriptors] /\ q \in 1..size /\ s[q] = b
      /\ \A i, j \in 1..size : s[i] = s[j] => i = j
      /\ \A i \in 1..size : s[i] # B_CHAIN /\ s[i] # Null
  BY Placed
<1>2. t = [i \in 1..size |-> IF i = 1 THEN b ELSE IF i <= q THEN s[i - 1] ELSE s[i]]
  BY <1>1 DEF MoveToStart
<1> HIDE DEF q, t
<1>3. /\ lk \in Links /\ lk[B_CHAIN] = s[1] /\ lk[s[size]] = Null
      /\ \A i \in 1..size - 1 : lk[s[i]] = s[i + 1]
  BY DEF Spells
<1>4. CASE q = 1
  <2>1. t = s
    BY <1>1, <1>2, <1>4
  <2>2. BF_START(lk, b) = lk
    BY <1>1, <1>3, <1>4 DEF BF_START
  <2> QED
    BY <2>1, <2>2 DEF t
<1>5. CASE q # 1
  <2> DEFINE pushed == [lk EXCEPT ![B_CHAIN] = b, ![b] = s[1]]
             res == [pushed EXCEPT ![s[q - 1]] = lk[b]]
  <2>1. /\ 1 \in 1..size /\ q - 1 \in 1..size /\ q - 2 \in Nat /\ s[1] # b /\ s[q - 1] # b
        /\ s[1] \in Cells /\ s[q - 1] \in Cells /\ B_CHAIN \in Cells /\ b \in Cells
    BY <1>1, <1>5 DEF Cells
  <2>2. pushed \in Links /\ pushed[B_CHAIN] = b /\ pushed[b] = s[1]
    BY <1>1, <1>3, <2>1 DEF Links
  <2>3. \A i \in 1..size : i # q => pushed[s[i]] = lk[s[i]]
    BY <1>1, <1>3 DEF Links, Cells
  <2>4. PICK p \in Paths : \A i \in Nat : p[i] = IF i + 1 \in 1..size THEN s[i + 1] ELSE B_CHAIN
    <3> DEFINE p == [i \in Nat |-> IF i + 1 \in 1..size THEN s[i + 1] ELSE B_CHAIN]
    <3>1. p \in Paths
      BY <1>1 DEF Paths, Cells
    <3> HIDE DEF pushed
    <3> QED
      BY <3>1
  <2> HIDE DEF pushed
  <2>5. Leads(pushed, b, s[1], s[q - 1], q - 2, p)
    <3>1. p[0] = s[1] /\ p[q - 2] = s[q - 1]
      <4>1. PICK j \in Nat : j = q - 2 /\ j + 1 = q - 1
        BY <1>1, <2>1
      <4>2. p[j] = s[j + 1] /\ p[0] = s[1]
        BY <2>1, <2>4, <4>1
      <4> QED
        BY <4>1, <4>2
    <3>2. pushed[s[q - 1]] = b
      <4>1. q - 1 \in 1..size - 1 /\ (q - 1) + 1 = q /\ q - 1 # q
        BY <1>1, <2>1
      <4> QED
        BY <1>1, <1>3, <2>1, <2>3, <4>1
    <3>3. ASSUME NEW i \in 0..(q - 2) - 1
          PROVE  pushed[p[i]] \notin {Null, b} /\ p[i + 1] = pushed[p[i]]
      <4>1. i \in Nat /\ i + 1 \in 1..size - 1 /\ i + 1 \in 1..size /\ i + 1 # q
            /\ (i + 1) + 1 \in 1..size /\ (i + 1) + 1 # q /\ i + 1 \in Nat
        BY <1>1, <2>1
      <4>2. p[i] = s[i + 1] /\ p[i + 1] = s[(i + 1) + 1] /\ pushed[s[i + 1]] = s[(i + 1) + 1]
        BY <1>3, <2>3, <2>4, <4>1
      <4> QED
        BY <1>1, <4>1, <4>2
    <3> QED
      BY <3>1, <3>2, <3>3 DEF Leads
  <2>6. BF_FIND(pushed, s[1], b) = s[q - 1]
    BY <2>1, <2>2, <2>5, Finds
  <2>7. BF_START(lk, b) = res
    BY <1>3, <2>1, <2>6 DEF BF_START, pushed
  <2>8. /\ res \in Links /\ res[B_CHAIN] = b /\ res[b] = s[1] /\ res[s[q - 1]] = lk[b]
        /\ \A i \in 1..size : i # q /\ i # q - 1 => res[s[i]] = lk[s[i]]
    BY <1>1, <1>3, <2>1, <2>2, <2>3 DEF Links, Cells
  <2> HIDE DEF res
  <2>9. res[t[size]] = Null
    <3>1. CASE q = size
      <4>1. t[size] = s[q - 1]
        BY <1>1, <1>2, <1>5, <3>1
      <4> QED
        BY <1>1, <1>3, <2>8, <3>1, <4>1
    <3>2. CASE q # size
      <4>1. size \in 1..size /\ size # q /\ size # q - 1 /\ size # 1 /\ ~ (size <= q)
        BY <1>1, <1>5, <3>2
      <4> QED
        BY <1>2, <1>3, <2>8, <4>1
    <3> QED
      BY <3>1, <3>2
  <2>10. ASSUME NEW i \in 1..size - 1 PROVE res[t[i]] = t[i + 1]
    <3>0. i \in 1..size /\ i + 1 \in 1..size /\ i \in Nat /\ i + 1 # 1 /\ (i + 1) - 1 = i
      BY <1>1
    <3>1. CASE i = 1
      <4>1. i + 1 <= q
        BY <1>1, <1>5, <3>1
      <4> QED
        BY <1>2, <2>8, <3>0, <3>1, <4>1
    <3>2. CASE i # 1 /\ i < q
      <4>1. /\ i - 1 \in 1..size - 1 /\ i - 1 \in 1..size /\ i - 1 # q /\ i - 1 # q - 1 /\ (i - 1) + 1 = i
            /\ i + 1 <= q /\ i <= q
        BY <1>1, <3>0, <3>2
      <4>2. t[i] = s[i - 1] /\ t[i + 1] = s[i]
        BY <1>2, <3>0, <3>2, <4>1
      <4> QED
        BY <1>3, <2>8, <4>1, <4>2
    <3>3. CASE i = q
      <4>1. t[i] = s[q - 1] /\ t[i + 1] = s[i + 1]
        BY <1>1, <1>2, <1>5, <3>0, <3>3
      <4> QED
        BY <1>1, <1>3, <2>8, <3>3, <4>1
    <3>4. CASE i > q
      <4>1. i # q /\ i # q - 1 /\ t[i] = s[i] /\ t[i + 1] = s[i + 1]
        BY <1>1, <1>2, <3>0, <3>4
      <4> QED
        BY <1>3, <2>8, <3>0, <4>1
    <3> QED
      BY <1>1, <3>0, <3>1, <3>2, <3>3, <3>4
  <2>11. t[1] = b
    BY <1>2, <2>1
  <2> QED
    BY <2>7, <2>8, <2>9, <2>10, <2>11 DEF Spells, t
<1> QED
  BY <1>4, <1>5

\* BF_END changes the links as MoveToEnd changes the sequence.
LEMMA EndSpells ==
    ASSUME NEW lk, NEW s, Order(s), Spells(lk, s), NEW b \in Descriptors
    PROVE  Spells(BF_END(lk, b), MoveToEnd(s, b))
<1> DEFINE q == Place(s, b)
           t == MoveToEnd(s, b)
<1>1. /\ size \in Nat \ {0} /\ s \in [1..size -> Descriptors] /\ q \in 1..size /\ s[q] = b
      /\ \A i, j \in 1..size : s[i] = s[j] => i = j
      /\ \A i \in 1..size : s[i] # B_CHAIN /\ s[i] # Null
  BY Placed
<1>2. t = [i \in 1..size |-> IF i < q THEN s[i] ELSE IF i + 1 \in 1..size THEN s[i + 1] ELSE b]
  BY <1>1 DEF MoveToEnd
<1> HIDE DEF q, t
<1>3. /\ lk \in Links /\ lk[B_CHAIN] = s[1] /\ lk[s[size]] = Null
      /\ \A i \in 1..size - 1 : lk[s[i]] = s[i + 1]
  BY DEF Spells
<1>4. CASE q = size
  <2>1. t = s
    BY <1>1, <1>2, <1>4
  <2>2. BF_END(lk, b) = lk
    BY <1>1, <1>3, <1>4 DEF BF_END
  <2> QED
    BY <2>1, <2>2 DEF t
<1>5. CASE q # size
  <2>1. PICK p \in Paths : \A i \in Nat : p[i] = IF i \in 1..size THEN s[i] ELSE B_CHAIN
    <3> DEFINE p == [i \in Nat |-> IF i \in 1..size THEN s[i] ELSE B_CHAIN]
    <3>1. p \in Paths
      BY <1>1 DEF Paths, Cells
    <3> QED
      BY <3>1
  <2> DEFINE before == p[q - 1]
             ended == [lk EXCEPT ![b] = Null]
             unlinked == [ended EXCEPT ![before] = s[q + 1]]
             res == [unlinked EXCEPT ![s[size]] = b]
  <2>2. /\ q - 1 \in Nat /\ size - q \in Nat \ {0} /\ q + 1 \in 1..size /\ q \in 1..size - 1 /\ size \in 1..size
        /\ 1 \in 1..size /\ B_CHAIN \in Cells /\ b \in Cells /\ s[size] # b /\ B_CHAIN # b
        /\ before \in Cells /\ lk[b] = s[q + 1]
    BY <1>1, <1>3, <1>5 DEF Cells, Paths
  <2>3. before # b /\ before # s[size]
    BY <1>1, <2>1, <2>2
  <2>4. /\ ended \in Links /\ ended[b] = Null
        /\ \A c \in Cells : c # b => ended[c] = lk[c]
    BY <1>3, <2>2 DEF Links
  <2> HIDE DEF ended
  <2>5. \A i \in 1..size : s[i] \in Cells /\ (i # q => s[i] # b)
    BY <1>1 DEF Cells
  <2>6. Leads(ended, b, B_CHAIN, before, q - 1, p)
    <3>1. \A i \in 0..q - 1 : ended[p[i]] = s[i + 1]
      <4> TAKE i \in 0..q - 1
      <4>1. CASE i = 0
        BY <1>1, <1>3, <2>1, <2>2, <2>4, <4>1
      <4>2. CASE i # 0
        <5>1. i \in 1..size - 1 /\ i \in 1..size /\ i # q /\ i \in Nat
          BY <1>1, <4>2
        <5>2. p[i] = s[i]
          BY <2>1, <5>1
        <5> QED
          BY <1>3, <2>4, <2>5, <5>1, <5>2
      <4> QED
        BY <4>1, <4>2
    <3>2. ASSUME NEW i \in 0..(q - 1) - 1
          PROVE  ended[p[i]] \notin {Null, b} /\ p[i + 1] = ended[p[i]]
      <4>1. i \in 0..q - 1 /\ i + 1 \in 1..size /\ i + 1 # q /\ i + 1 \in Nat
        BY <1>1
      <4> QED
        BY <1>1, <2>1, <2>5, <3>1, <4>1
    <3>3. p[0] = B_CHAIN /\ ended[before] = b
      <4>1. q - 1 \in 0..q - 1 /\ (q - 1) + 1 = q
        BY <2>2
      <4> QED
        BY <1>1, <2>1, <3>1, <4>1
    <3> QED
      BY <3>2, <3>3 DEF Leads
  <2>7. BF_FIND(ended, B_CHAIN, b) = before
    <3> HIDE DEF before
    <3> QED
      BY <2>2, <2>4, <2>6, Finds
  <2>8. /\ unlinked \in Links /\ unlinked[b] = Null /\ unlinked[before] = s[q + 1]
        /\ \A c \in Cells : c # b /\ c # before => unlinked[c] = lk[c]
    <3> HIDE DEF before
    <3> QED
      BY <1>1, <2>2, <2>3, <2>4 DEF Links
  <2>9. \A i \in 1..size : i # q - 1 => s[i] # before
    BY <1>1, <2>1, <2>2
  <2> HIDE DEF unlinked
  <2>10. \A i \in 1..size - 1 : i # q /\ i # q - 1 => unlinked[s[i]] = s[i + 1]
    BY <1>1, <1>3, <2>5, <2>8, <2>9
  <2>11. unlinked[s[size]] = Null
    BY <1>1, <1>3, <2>2, <2>3, <2>5, <2>8
  <2>12. PICK r \in Paths : \A i \in Nat : r[i] = IF i = 0 THEN before
                                                 ELSE IF q + i \in 1..size THEN s[q + i] ELSE B_CHAIN
    <3> DEFINE r == [i \in Nat |-> IF i = 0 THEN before ELSE IF q + i \in 1..size THEN s[q + i] ELSE B_CHAIN]
    <3>1. r \in Paths
      BY <1>1, <2>2 DEF Paths, Cells
    <3> QED
      BY <3>1
  <2>13. Leads(unlinked, b, before, s[size], size - q, r)
    <3>1. r[0] = before /\ r[size - q] = s[size]
      <4>1. q + (size - q) = size /\ size - q # 0
        BY <1>1, <2>2
      <4> QED
        BY <2>2, <2>12, <4>1
    <3>2. ASSUME NEW i \in 0..(size - q) - 1
          PROVE  unlinked[r[i]] \notin {Null, b} /\ r[i + 1] = unlinked[r[i]]
      <4>1. i \in Nat /\ i + 1 \in Nat /\ i + 1 # 0 /\ q + (i + 1) \in 1..size /\ q + (i + 1) # q
        BY <1>1, <2>2
      <4>2. r[i + 1] = s[q + (i + 1)] /\ s[q + (i + 1)] \notin {Null, b}
        BY <1>1, <2>5, <2>12, <4>1
      <4>3. unlinked[r[i]] = s[q + (i + 1)]
        <5>1. CASE i = 0
          BY <2>8, <3>1, <5>1
        <5>2. CASE i # 0
          <6>1. q + i \in 1..size - 1 /\ q + i \in 1..size /\ q + i # q /\ q + i # q - 1 /\ (q + i) + 1 = q + (i + 1)
            BY <1>1, <2>2, <5>2
          <6>2. r[i] = s[q + i]
            BY <2>12, <4>1, <5>2, <6>1
          <6> QED
            BY <2>10, <6>1, <6>2
        <5> QED
          BY <5>1, <5>2
      <4> QED
        BY <4>2, <4>3
    <3> QED
      BY <2>11, <3>1, <3>2 DEF Leads
  <2>14. BF_FIND(unlinked, before, b) = s[size]
    <3> HIDE DEF before
    <3> QED
      BY <2>2, <2>8, <2>13, Finds
  <2>15. BF_END(lk, b) = res
    <3>1. lk[b] # Null
      BY <1>1, <2>2
    <3> HIDE DEF before
    <3> QED
      BY <2>2, <2>7, <2>14, <3>1 DEF BF_END, ended, unlinked
  <2>16. /\ res \in Links /\ res[b] = Null /\ res[before] = s[q + 1] /\ res[s[size]] = b
         /\ \A c \in Cells : c # b /\ c # before /\ c # s[size] => res[c] = lk[c]
         /\ \A i \in 1..size - 1 : i # q /\ i # q - 1 => res[s[i]] = s[i + 1]
    <3>1. \A i \in 1..size - 1 : s[i] # s[size]
      BY <1>1
    <3> HIDE DEF before
    <3> QED
      BY <1>1, <2>2, <2>3, <2>5, <2>8, <2>10, <3>1 DEF Links
  <2> HIDE DEF res
  <2>17. t[size] = b
    BY <1>1, <1>2, <1>5
  <2>18. res[B_CHAIN] = t[1]
    <3>1. CASE q = 1
      <4>1. before = B_CHAIN /\ t[1] = s[2] /\ q + 1 = 2
        BY <1>1, <1>2, <2>1, <2>2, <3>1
      <4> QED
        BY <2>16, <4>1
    <3>2. CASE q # 1
      <4>1. q - 1 \in 1..size /\ t[1] = s[1]
        BY <1>1, <1>2, <2>2, <3>2
      <4>2. before = s[q - 1]
        BY <2>1, <2>2, <4>1
      <4>3. B_CHAIN # before /\ B_CHAIN # s[size]
        BY <1>1, <2>2, <4>1, <4>2
      <4> QED
        BY <1>3, <2>2, <2>16, <4>1, <4>3
    <3> QED
      BY <3>1, <3>2
  <2>19. ASSUME NEW i \in 1..size - 1 PROVE res[t[i]] = t[i + 1]
    <3>0. i \in 1..size /\ i + 1 \in 1..size /\ i \in Nat
      BY <1>1
    <3>1. CASE i < q - 1
      <4>1. t[i] = s[i] /\ t[i + 1] = s[i + 1] /\ i # q /\ i # q - 1
        BY <1>1, <1>2, <3>0, <3>1
      <4> QED
        BY <2>16, <4>1
    <3>2. CASE i = q - 1
      <4>1. i + 1 = q /\ q < size
        BY <1>1, <1>5, <3>2
      <4>2. t[i] = s[q - 1] /\ t[i + 1] = s[q + 1]
        BY <1>1, <1>2, <2>2, <3>0, <3>2, <4>1
      <4>3. before = s[q - 1]
        BY <2>1, <3>0, <3>2
      <4> QED
        BY <2>16, <4>2, <4>3
    <3>3. CASE i >= q /\ i < size - 1
      <4>1. /\ i + 1 \in 1..size - 1 /\ i + 1 # q /\ i + 1 # q - 1 /\ ~ (i < q) /\ ~ (i + 1 < q)
            /\ (i + 1) + 1 \in 1..size
        BY <1>1, <3>0, <3>3
      <4>2. t[i] = s[i + 1] /\ t[i + 1] = s[(i + 1) + 1]
        BY <1>2, <3>0, <4>1
      <4> QED
        BY <2>16, <4>1, <4>2
    <3>4. CASE i >= q /\ i = size - 1
      <4>1. i + 1 = size /\ ~ (i < q)
        BY <1>1, <3>0, <3>4
      <4>2. t[i] = s[size] /\ t[i + 1] = b
        BY <1>2, <2>17, <3>0, <4>1
      <4> QED
        BY <2>16, <4>2
    <3> QED
      BY <1>1, <3>0, <3>1, <3>2, <3>3, <3>4
  <2> QED
    BY <2>15, <2>16, <2>17, <2>18, <2>19 DEF Spells, t
<1> QED
  BY <1>4, <1>5

-----------------------------------------------------------------------------
(* The invariant. *)

\* The links spell a sequence of all buffers: the intended order, or the one
\* that becomes it when the rest of the flagged buffers come first.
ChainInv == \E s : /\ Order(s) /\ Spells(link, s)
                   /\ order = IF loop = "inv" THEN AllToStart(s, flag) ELSE s

LinksInv == LinksTypeOK /\ ChainInv

\* ChainInit builds the links along the sequence it chooses.
LEMMA InitLinks == ChainInit => LinksInv
<1> SUFFICES ASSUME ChainInit PROVE LinksInv
  OBVIOUS
<1>1. PICK s \in [1..size -> Descriptors] :
        /\ {s[i] : i \in DOMAIN s} = Descriptors
        /\ order = s
        /\ link = [c \in Cells |-> IF c = B_CHAIN THEN s[1]
                                   ELSE LET i == CHOOSE j \in DOMAIN s : s[j] = c
                                        IN  IF i < Len(s) THEN s[i + 1] ELSE Null]
  BY DEF ChainInit, size
<1>2. size \in Nat \ {0} /\ DOMAIN s = 1..size /\ Len(s) = size /\ loop = "none" /\ flag = {}
  BY NumberOfDescriptors DEF ChainInit
<1>3. Order(s)
  BY <1>1, <1>2, OrderIs DEF Lists
<1>4. \A i, j \in 1..size : s[i] = s[j] => i = j
  BY <1>3 DEF Order
<1>5. ASSUME NEW i \in 1..size PROVE link[s[i]] = IF i < size THEN s[i + 1] ELSE Null
  <2>1. s[i] \in Cells /\ s[i] # B_CHAIN
    BY ChainAssumption DEF Cells
  <2>2. (CHOOSE j \in DOMAIN s : s[j] = s[i]) = i
    BY <1>2, <1>4
  <2> QED
    BY <1>1, <1>2, <2>1, <2>2
<1>6. \A b \in Descriptors : \E i \in 1..size : b = s[i]
  BY <1>3 DEF Order, Lists
<1>7. link \in Links
  <2>1. link[B_CHAIN] = s[1] /\ 1 \in 1..size /\ DOMAIN link = Cells /\ link = [c \in Cells |-> link[c]]
    BY <1>1, <1>2 DEF Cells
  <2>2. \A b \in Descriptors : link[b] \in Descriptors \cup {Null}
    <3> TAKE b \in Descriptors
    <3>1. PICK i \in 1..size : b = s[i]
      BY <1>6
    <3>2. i < size => i + 1 \in 1..size
      BY <1>2
    <3> QED
      BY <1>5, <3>1, <3>2
  <2>3. \A c \in Cells : link[c] \in Descriptors \cup {Null}
    BY <2>1, <2>2 DEF Cells
  <2> QED
    BY <2>1, <2>3 DEF Links
<1>8. Spells(link, s)
  <2>1. link[B_CHAIN] = s[1]
    BY <1>1 DEF Cells
  <2>2. link[s[size]] = Null /\ \A i \in 1..size - 1 : link[s[i]] = s[i + 1]
    BY <1>2, <1>5
  <2> QED
    BY <1>7, <2>1, <2>2 DEF Spells
<1> QED
  BY <1>1, <1>2, <1>3, <1>7, <1>8 DEF LinksInv, LinksTypeOK, ChainInv, Links

\* The moved buffer goes to the start, or to the end, of the sequence.
LEMMA StartKeeps ==
    ASSUME NEW s, Order(s), Spells(link, s), NEW b \in Descriptors, link' = BF_START(link, b)
    PROVE  Order(MoveToStart(s, b)) /\ Spells(link', MoveToStart(s, b)) /\ link' \in Links
<1>1. Lists(MoveToStart(s, b), size, Descriptors)
  BY NumberOfDescriptors, MoveToStartLists DEF Order
<1>2. Spells(link', MoveToStart(s, b))
  BY StartSpells
<1> QED
  BY <1>1, <1>2, OrderIs DEF Spells

\* The same for the end.
LEMMA EndKeeps ==
    ASSUME NEW s, Order(s), Spells(link, s), NEW b \in Descriptors, link' = BF_END(link, b)
    PROVE  Order(MoveToEnd(s, b)) /\ Spells(link', MoveToEnd(s, b)) /\ link' \in Links
<1>1. Lists(MoveToEnd(s, b), size, Descriptors)
  BY NumberOfDescriptors, MoveToEndLists DEF Order
<1>2. Spells(link', MoveToEnd(s, b))
  BY EndSpells
<1> QED
  BY <1>1, <1>2, OrderIs DEF Spells

\* The loop takes the first flagged buffer of the sequence, if there is one.
LEMMA NextKeeps == ASSUME LinksInv, FLG_NEXT PROVE LinksInv'
<1>1. PICK s : /\ Order(s) /\ Spells(link, s)
               /\ order = IF loop = "inv" THEN AllToStart(s, flag) ELSE s
  BY DEF LinksInv, ChainInv
<1>2. /\ size \in Nat \ {0} /\ s \in [1..size -> Descriptors] /\ \A i, j \in 1..size : s[i] = s[j] => i = j
      /\ \A b \in Descriptors : \E i \in 1..size : s[i] = b
  BY <1>1, NumberOfDescriptors DEF Order, Lists
<1>3. Chain = s /\ Flagged = {i \in 1..size : s[i] \in flag}
  BY <1>1, <1>2, ChainIs DEF Flagged
<1>4. /\ link \in Links /\ flag \subseteq Descriptors /\ loop \in {"inv", "flush"} /\ order' = order
  BY <1>1 DEF LinksInv, LinksTypeOK, FLG_NEXT, Spells
<1>5. CASE Flagged = {}
  <2>1. flag = {}
    BY <1>2, <1>3, <1>4, <1>5
  <2>2. order = s
    BY <1>1, <1>2, <2>1, AllToStartNone
  <2> QED
    BY <1>1, <1>4, <1>5, <2>2 DEF FLG_NEXT, LinksInv, LinksTypeOK, ChainInv, Links
<1>6. CASE Flagged # {}
  <2>1. PICK q \in Flagged : /\ \A j \in Flagged : q <= j
                             /\ FirstFlagged = s[q]
    <3>1. Flagged \in SUBSET Nat
      BY <1>3
    <3>2. \E i \in Flagged : \A j \in Flagged : i <= j
      BY <1>6, <3>1, LeastNatural
    <3> QED
      BY <1>3, <3>2 DEF FirstFlagged
  <2> DEFINE b == s[q]
  <2>2. /\ q \in 1..size /\ b \in flag /\ b \in Descriptors /\ \A i \in 1..size : s[i] \in flag => q <= i
        /\ flag' = flag \ {b} /\ loop' = loop
        /\ link' = IF loop = "inv" THEN BF_START(link, b) ELSE link
    BY <1>2, <1>3, <1>6, <2>1 DEF FLG_NEXT
  <2>3. CASE loop = "inv"
    <3>1. AllToStart(MoveToStart(s, b), flag \ {b}) = AllToStart(s, flag)
      <4>1. FirstOf(s, size, flag, q)
        BY <1>2, <2>2 DEF FirstOf
      <4>2. Lists(s, size, Descriptors)
        BY <1>1 DEF Order
      <4> QED
        BY NumberOfDescriptors, <2>2, <4>1, <4>2, AllToStartFirst
    <3>2. /\ Order(MoveToStart(s, b)) /\ Spells(link', MoveToStart(s, b)) /\ link' \in Links
      <4> HIDE DEF b
      <4> QED
        BY <1>1, <2>2, <2>3, StartKeeps
    <3> HIDE DEF b
    <3> QED
      BY <1>1, <1>4, <2>2, <2>3, <3>1, <3>2 DEF LinksInv, LinksTypeOK, ChainInv, Links
  <2>4. CASE loop # "inv"
    BY <1>1, <1>4, <2>2, <2>4 DEF LinksInv, LinksTypeOK, ChainInv, Links
  <2> QED
    BY <2>3, <2>4
<1> QED
  BY <1>5, <1>6

\* Every step keeps the invariant.
LEMMA StepLinks == ASSUME LinksInv, [ChainNext]_linkVars PROVE LinksInv'
<1>1. PICK s : /\ Order(s) /\ Spells(link, s)
               /\ order = IF loop = "inv" THEN AllToStart(s, flag) ELSE s
  BY DEF LinksInv, ChainInv
<1>2. link \in Links /\ flag \subseteq Descriptors /\ loop \in {"none", "inv", "flush"}
  BY DEF LinksInv, LinksTypeOK, Links
<1>3. CASE MoveStart
  <2>1. PICK b \in Descriptors : /\ loop = "none" /\ link' = BF_START(link, b)
                             /\ order' = MoveToStart(order, b) /\ flag' = flag /\ loop' = loop
    BY <1>3 DEF MoveStart
  <2>2. Order(MoveToStart(s, b)) /\ Spells(link', MoveToStart(s, b)) /\ link' \in Links
    BY <1>1, <2>1, StartKeeps
  <2> QED
    BY <1>1, <1>2, <2>1, <2>2 DEF LinksInv, LinksTypeOK, ChainInv, Links
<1>4. CASE MoveEnd
  <2>1. PICK b \in Descriptors : /\ loop = "none" /\ link' = BF_END(link, b)
                             /\ order' = MoveToEnd(order, b) /\ flag' = flag /\ loop' = loop
    BY <1>4 DEF MoveEnd
  <2>2. Order(MoveToEnd(s, b)) /\ Spells(link', MoveToEnd(s, b)) /\ link' \in Links
    BY <1>1, <2>1, EndKeeps
  <2> QED
    BY <1>1, <1>2, <2>1, <2>2 DEF LinksInv, LinksTypeOK, ChainInv, Links
<1>5. CASE FLG_BUFS
  <2>1. PICK S \in SUBSET Descriptors, l \in {"inv", "flush"} :
          /\ loop = "none" /\ flag' = S /\ loop' = l /\ link' = link
          /\ order' = IF l = "inv" THEN AllToStart(order, S) ELSE order
    BY <1>5 DEF FLG_BUFS
  <2> QED
    BY <1>1, <1>2, <2>1 DEF LinksInv, LinksTypeOK, ChainInv, Links
<1>6. CASE FLG_NEXT
  BY <1>6, NextKeeps
<1>7. CASE AbortLoop
  BY <1>1, <1>2, <1>7 DEF AbortLoop, LinksInv, LinksTypeOK, ChainInv, Links
<1>8. CASE UNCHANGED linkVars
  BY <1>1, <1>2, <1>8 DEF linkVars, LinksInv, LinksTypeOK, ChainInv, Links
<1> QED
  BY <1>3, <1>4, <1>5, <1>6, <1>7, <1>8 DEF ChainNext

\* At every moment, in a loop too, the links spell a sequence of all buffers.
THEOREM LinksInvariant == ChainSpec => []LinksInv
<1>1. ChainInit => LinksInv
  BY InitLinks
<1>2. LinksInv /\ [ChainNext]_linkVars => LinksInv'
  BY StepLinks
<1> QED
  BY <1>1, <1>2, PTL DEF ChainSpec

\* The links of the descriptors and B_CHAIN stay pointers to descriptors or 0.
THEOREM LinksTypeCorrect == ChainSpec => []LinksTypeOK
<1>1. LinksInv => LinksTypeOK
  BY DEF LinksInv
<1> QED
  BY <1>1, LinksInvariant, PTL

\* No relinking by BF_START or BF_END (buf.mac), between operations or in the
\* middle of a loop, drops a buffer or closes a cycle: every buffer is reached
\* from B_CHAIN exactly once.
THEOREM NoBufferLost == ChainSpec => []ChainComplete
<1>1. LinksInv => ChainComplete
  <2> SUFFICES ASSUME LinksInv PROVE ChainComplete
    OBVIOUS
  <2>1. PICK s : Order(s) /\ Spells(link, s)
    BY DEF LinksInv, ChainInv
  <2>2. Chain = s /\ s \in [1..size -> Descriptors] /\ size \in Nat /\ \A b \in Descriptors : \E i \in 1..size : s[i] = b
    BY <2>1, ChainIs, NumberOfDescriptors DEF Order, Lists
  <2>3. Len(s) = size /\ {s[i] : i \in DOMAIN s} = Descriptors
    BY <2>2
  <2> QED
    BY <2>2, <2>3 DEF ChainComplete, size
<1> QED
  BY <1>1, LinksInvariant, PTL

\* Between operations the chain is in the order in which the buffers are to be
\* re-used: that of the operations on sequences BufferPool is built on.
THEOREM LinksKeepOrder == ChainSpec => []ChainIsOrder
<1>1. LinksInv => ChainIsOrder
  <2> SUFFICES ASSUME LinksInv, loop = "none" PROVE Chain = order
    BY DEF ChainIsOrder
  <2>1. PICK s : Order(s) /\ Spells(link, s) /\ order = s
    BY DEF LinksInv, ChainInv
  <2> QED
    BY <2>1, ChainIs
<1> QED
  BY <1>1, LinksInvariant, PTL
=============================================================================
