----------------------------- MODULE BufferChain -----------------------------
(***************************************************************************)
(* The buffer chain of kernel/bank2/buf.mac as the code keeps it: a singly *)
(* linked list of descriptors whose link is their first field, so that the *)
(* variable B_CHAIN is a link like any other.  Moving a buffer rewrites    *)
(* three links; the loops over the buffers of a unit restart from B_CHAIN  *)
(* after every buffer because the routine called may have moved it.        *)
(***************************************************************************)
EXTENDS BufferOrder, FiniteSets

CONSTANTS Descriptors, \* the buffers, by their addresses
          B_CHAIN,   \* the address of the pointer to the first descriptor
          Null       \* link 0: end of the chain

ASSUME ChainAssumption ==
    /\ B_CHAIN \notin Descriptors /\ Null \notin Descriptors \cup {B_CHAIN}
    /\ IsFiniteSet(Descriptors) /\ Descriptors # {}

Cells == Descriptors \cup {B_CHAIN}

VARIABLES link,     \* the link field of every descriptor, and B_CHAIN
          flag,     \* descriptors with bit 0 of BD_FLAGS set
          loop,     \* "none", or the loop that is running: "inv" or "flush"
          order     \* history: the order the chain must have after the loop

linkVars == <<link, flag, loop, order>>

LinksTypeOK == /\ link \in [Cells -> Descriptors \cup {Null}]
               /\ flag \subseteq Descriptors
               /\ loop \in {"none", "inv", "flush"}

\* The n-th descriptor of the chain, Null past its end.
Nth(n) ==
    LET walk[i \in 0..n] == IF i = 0 THEN B_CHAIN
                            ELSE IF walk[i - 1] = Null THEN Null ELSE link[walk[i - 1]]
    IN  walk[n]

\* The descriptors in the order of the chain, as many as there are buffers at most.
Chain == [n \in 1..Cardinality({i \in 1..Cardinality(Descriptors) : Nth(i) # Null}) |-> Nth(n)]

\* BF_FIND: the cell linking to b, searching after cell c, or the last cell.
BF_FIND(lk, c, b) ==
    LET find[d \in Cells] == IF lk[d] \in {Null, b} THEN d ELSE find[lk[d]]
    IN  find[c]

\* Mutant: b is linked to the head pointer instead of the first descriptor.
BF_START_Pointer(lk, b) ==
    IF lk[B_CHAIN] = b THEN lk
    ELSE LET pushed == [lk EXCEPT ![B_CHAIN] = b, ![b] = B_CHAIN]
         IN  [pushed EXCEPT ![BF_FIND(pushed, lk[B_CHAIN], b)] = lk[b]]

\* Mutant: what linked to b is not corrected.
BF_START_NotUnlinked(lk, b) ==
    IF lk[B_CHAIN] = b THEN lk ELSE [lk EXCEPT ![B_CHAIN] = b, ![b] = lk[B_CHAIN]]

\* BF_START: head := b, b -> old head, and what linked to b skips it.
BF_START(lk, b) ==
    IF lk[B_CHAIN] = b THEN lk
    ELSE LET first  == lk[B_CHAIN]
             pushed == [lk EXCEPT ![B_CHAIN] = b, ![b] = first]
         IN  [pushed EXCEPT ![BF_FIND(pushed, first, b)] = lk[b]]

\* Mutant: b goes behind the next buffer only.
BF_END_OneStep(lk, b) ==
    LET next == lk[b] IN
    IF next = Null THEN lk
    ELSE [lk EXCEPT ![BF_FIND(lk, B_CHAIN, b)] = next, ![b] = lk[next], ![next] = b]

\* BF_END: unlink b, then search again for b, which ends at the last cell.
BF_END(lk, b) ==
    IF lk[b] = Null THEN lk
    ELSE LET ended    == [lk EXCEPT ![b] = Null]
             before   == BF_FIND(ended, B_CHAIN, b)
             unlinked == [ended EXCEPT ![before] = lk[b]]
         IN  [unlinked EXCEPT ![BF_FIND(unlinked, before, b)] = b]

ChainInit == /\ \E ch \in [1..Cardinality(Descriptors) -> Descriptors] :
                  /\ {ch[i] : i \in DOMAIN ch} = Descriptors
                  /\ order = ch
                  /\ link = [c \in Cells |->
                               IF c = B_CHAIN THEN ch[1]
                               ELSE LET i == CHOOSE j \in DOMAIN ch : ch[j] = c
                                    IN  IF i < Len(ch) THEN ch[i + 1] ELSE Null]
             /\ flag = {} /\ loop = "none"

MoveStart == \E b \in Descriptors :
    /\ loop = "none"
    /\ link' = BF_START(link, b)
    /\ order' = MoveToStart(order, b)
    /\ UNCHANGED <<flag, loop>>

MoveEnd == \E b \in Descriptors :
    /\ loop = "none"
    /\ link' = BF_END(link, b)
    /\ order' = MoveToEnd(order, b)
    /\ UNCHANGED <<flag, loop>>

\* FLG_BUFS: flag the buffers S of a unit, clear the flag of all others.
FLG_BUFS == \E S \in SUBSET Descriptors, l \in {"inv", "flush"} :
    /\ loop = "none"
    /\ flag' = S /\ loop' = l
    /\ order' = IF l = "inv" THEN AllToStart(order, S) ELSE order
    /\ UNCHANGED link

\* The places of the flagged buffers in the chain, and the first such buffer.
Flagged == {i \in DOMAIN Chain : Chain[i] \in flag}
FirstFlagged == Chain[CHOOSE i \in Flagged : \A j \in Flagged : i <= j]

\* Mutant: the flag of the buffer returned stays set.
FLG_NEXT_KeepsFlag ==
    /\ loop # "none"
    /\ IF Flagged = {}
       THEN loop' = "none" /\ UNCHANGED link
       ELSE /\ link' = IF loop = "inv" THEN BF_START(link, FirstFlagged) ELSE link
            /\ UNCHANGED loop
    /\ UNCHANGED <<flag, order>>

\* FLG_NEXT: the first flagged buffer of the chain; the invalidating loop
\* then moves it to the start, the flushing loop leaves it where it is.
FLG_NEXT ==
    /\ loop # "none"
    /\ IF Flagged = {}
       THEN loop' = "none" /\ UNCHANGED <<link, flag>>
       ELSE /\ flag' = flag \ {FirstFlagged}
            /\ link' = IF loop = "inv" THEN BF_START(link, FirstFlagged) ELSE link
            /\ UNCHANGED loop
    /\ UNCHANGED order

\* An error aborted inside the flushing loop never returns to it: the flags
\* still set are left behind.
AbortLoop == /\ loop = "flush"
             /\ loop' = "none"
             /\ UNCHANGED <<link, flag, order>>

ChainNext == MoveStart \/ MoveEnd \/ FLG_BUFS \/ FLG_NEXT \/ AbortLoop

ChainSpec == ChainInit /\ [][ChainNext]_linkVars

-----------------------------------------------------------------------------
\* Between operations the linked list holds every buffer once, in the order
\* in which BufferPool re-uses them: no relinking drops a buffer, closes a
\* cycle or leaves one unreachable.
ChainIsOrder == loop = "none" => Chain = order

\* In the middle of a loop too the list holds every buffer exactly once.
ChainComplete == /\ Len(Chain) = Cardinality(Descriptors)
                 /\ {Chain[i] : i \in DOMAIN Chain} = Descriptors

\* The loops over a unit's buffers end although they restart from the head of
\* the chain and the invalidating one moves every buffer it is given there.
LoopEnds == loop # "none" ~> loop = "none"
FairChainSpec == ChainSpec /\ WF_linkVars(FLG_NEXT)
=============================================================================
