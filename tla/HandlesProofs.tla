---------------------------- MODULE HandlesProofs ----------------------------
(* The use counts of Handles are right for every number of handles,          *)
(* processes and file access blocks, and for every limit of the count.       *)
EXTENDS Handles, FiniteSetTheorems, TLAPS

\* The part of TypeOK that the counts rest on.
CountsType == /\ HANDLES \in 0..MaxProcesses
              /\ vec \in [Process -> [Handle -> Fabs \cup {Null}]]
              /\ FAB_CHAIN \subseteq Fabs
              /\ refs \in [Fabs -> Nat]
              /\ b \in Nat

\* How far the functions that go through the handles have come.
Loops == /\ PROC_ID = IF pc = "fork" THEN HANDLES - 1 ELSE HANDLES
         /\ pc \in {"fork", "dec", "unmap"} => HANDLES > 0
         /\ pc = "fork" => /\ HANDLES > 1
                           /\ \A g \in Handle : g >= b => vec[HANDLES][g] = Null
         /\ pc = "dec" => want \in Nat /\ want < HANDLES
         /\ pc \in {"fork", "dec", "unmap"} => b <= MAX_FILE_HANDLES

IInv == CountsType /\ UseCounts /\ Loops

USE HandlesAssumption DEF Handle, Process

-----------------------------------------------------------------------------
(* Counting. *)

\* There are finitely many handles, so what refers to a FAB can be counted.
LEMMA FiniteReferences == ASSUME NEW f PROVE IsFiniteSet(References(f))
<1>1. IsFiniteSet(Process) /\ IsFiniteSet(Handle)
  BY FS_Interval
<1>2. IsFiniteSet(Process \X Handle)
  BY <1>1, FS_Product
<1>3. References(f) \in SUBSET (Process \X Handle)
  BY DEF References
<1> QED
  BY <1>2, <1>3, FS_Subset

\* What changes neither the references nor the counts keeps them equal.
LEMMA NoneChanged ==
  ASSUME UseCounts, UNCHANGED counts,
         \A f \in Fabs : References(f)' = References(f)
  PROVE  UseCounts'
  BY DEF UseCounts, counts

\* One handle more for FAB f, and one on its count.
LEMMA OneMore ==
  ASSUME CountsType, UseCounts, NEW f \in Fabs, NEW x,
         x \notin References(f), References(f)' = References(f) \cup {x},
         \A h \in Fabs \ {f} : References(h)' = References(h),
         refs' = [refs EXCEPT ![f] = @ + 1], FAB_CHAIN' = FAB_CHAIN \cup {f}
  PROVE  UseCounts'
<1>1. Cardinality(References(f)') = Cardinality(References(f)) + 1
  <2>1. IsFiniteSet(References(f))
    BY FiniteReferences
  <2>2. Cardinality(References(f) \cup {x}) = Cardinality(References(f)) + 1
    BY <2>1, FS_AddElement, Zenon
  <2> QED
    BY <2>2
<1>2. /\ refs[f] \in Nat /\ refs'[f] = refs[f] + 1
      /\ refs[f] = Cardinality(References(f))
  BY DEF CountsType, UseCounts
<1>3. /\ refs'[f] = Cardinality(References(f)')
      /\ f \in FAB_CHAIN' <=> refs'[f] > 0
  BY <1>1, <1>2
<1>4. ASSUME NEW h \in Fabs \ {f}
      PROVE  /\ refs'[h] = Cardinality(References(h)')
             /\ h \in FAB_CHAIN' <=> refs'[h] > 0
  <2>1. References(h)' = References(h)
    OBVIOUS
  <2>2. refs'[h] = refs[h] /\ (h \in FAB_CHAIN' <=> h \in FAB_CHAIN)
    BY DEF CountsType
  <2>3. refs[h] = Cardinality(References(h)) /\ (h \in FAB_CHAIN <=> refs[h] > 0)
    BY DEF UseCounts
  <2> QED
    BY <2>1, <2>2, <2>3
<1> QED
  BY <1>3, <1>4 DEF UseCounts

\* One handle less, and DEC_FAB_REF.
LEMMA OneLess ==
  ASSUME CountsType, UseCounts, NEW f \in Fabs, NEW x,
         x \in References(f), References(f)' = References(f) \ {x},
         \A h \in Fabs \ {f} : References(h)' = References(h),
         DEC_FAB_REF(f)
  PROVE  UseCounts' /\ refs' \in [Fabs -> Nat] /\ FAB_CHAIN' \subseteq Fabs
<1>1. /\ Cardinality(References(f)) \in Nat
      /\ Cardinality(References(f)') \in Nat
      /\ Cardinality(References(f)') = Cardinality(References(f)) - 1
  <2>1. IsFiniteSet(References(f)) /\ IsFiniteSet(References(f) \ {x})
    BY FiniteReferences, FS_RemoveElement
  <2> QED
    BY <2>1, FS_RemoveElement, FS_CardinalityType
<1>2. /\ refs[f] = Cardinality(References(f))
      /\ refs' = [refs EXCEPT ![f] = @ - 1]
      /\ FAB_CHAIN' = IF refs[f] = 1 THEN FAB_CHAIN \ {f} ELSE FAB_CHAIN
  BY DEF UseCounts, DEC_FAB_REF
<1>3. refs' \in [Fabs -> Nat] /\ FAB_CHAIN' \subseteq Fabs
  BY <1>1, <1>2 DEF CountsType
<1>4. /\ refs'[f] = Cardinality(References(f)')
      /\ f \in FAB_CHAIN' <=> refs'[f] > 0
  BY <1>1, <1>2 DEF CountsType, UseCounts
<1>5. ASSUME NEW h \in Fabs \ {f}
      PROVE  /\ refs'[h] = Cardinality(References(h)')
             /\ h \in FAB_CHAIN' <=> refs'[h] > 0
  <2>1. References(h)' = References(h)
    OBVIOUS
  <2>2. refs'[h] = refs[h] /\ (h \in FAB_CHAIN' <=> h \in FAB_CHAIN)
    BY <1>2 DEF CountsType
  <2>3. refs[h] = Cardinality(References(h)) /\ (h \in FAB_CHAIN <=> refs[h] > 0)
    BY DEF UseCounts
  <2> QED
    BY <2>1, <2>2, <2>3
<1> QED
  BY <1>3, <1>4, <1>5 DEF UseCounts

\* Filling a free handle of the current process adds just that reference.
LEMMA Filled ==
  ASSUME CountsType, NEW f \in Fabs, NEW g \in Handle, HANDLES > 0,
         vec[HANDLES][g] = Null, SetHandle(HANDLES, g, f),
         UNCHANGED HANDLES, pc # "dec", pc' # "dec"
  PROVE  /\ <<HANDLES, g>> \notin References(f)
         /\ References(f)' = References(f) \cup {<<HANDLES, g>>}
         /\ \A h \in Fabs \ {f} : References(h)' = References(h)
         /\ vec' \in [Process -> [Handle -> Fabs \cup {Null}]]
  BY DEF CountsType, SetHandle, References, Counted

\* Clearing a handle of the current process removes just that reference.
LEMMA Cleared ==
  ASSUME CountsType, NEW f \in Fabs, NEW g \in Handle, HANDLES > 0,
         vec[HANDLES][g] = f, SetHandle(HANDLES, g, Null),
         UNCHANGED HANDLES, pc # "dec", pc' # "dec"
  PROVE  /\ <<HANDLES, g>> \in References(f)
         /\ References(f)' = References(f) \ {<<HANDLES, g>>}
         /\ \A h \in Fabs \ {f} : References(h)' = References(h)
         /\ vec' \in [Process -> [Handle -> Fabs \cup {Null}]]
  BY DEF CountsType, SetHandle, References, Counted

\* Nothing is referred to differently while the vectors stay and F_JOIN rests.
LEMMA SameReferences ==
  ASSUME UNCHANGED <<HANDLES, vec>>, pc # "dec", pc' # "dec", NEW f
  PROVE  References(f)' = References(f)
  BY DEF References, Counted

-----------------------------------------------------------------------------
(* The operations on a single handle. *)

\* Closing a handle.
LEMMA CloseStep ==
  ASSUME IInv, NEW g \in Handle, Open(g), CLOSE_FAB(g),
         UNCHANGED HANDLES, pc # "dec", pc' # "dec"
  PROVE  /\ UseCounts' /\ refs' \in [Fabs -> Nat] /\ FAB_CHAIN' \subseteq Fabs
         /\ vec' \in [Process -> [Handle -> Fabs \cup {Null}]]
<1>1. vec[HANDLES][g] \in Fabs /\ HANDLES > 0
  BY DEF IInv, CountsType, Open
<1> QED
  BY <1>1, Cleared, OneLess DEF IInv, CLOSE_FAB

\* One handle more to a FAB that is in use.
LEMMA ShareStep ==
  ASSUME IInv, NEW g \in Handle, NEW f \in Fabs, HANDLES > 0, f \in FAB_CHAIN,
         vec[HANDLES][g] = Null, INC_FAB_REF(f), SetHandle(HANDLES, g, f),
         UNCHANGED <<HANDLES, FAB_CHAIN>>, pc # "dec", pc' # "dec"
  PROVE  /\ UseCounts' /\ refs' \in [Fabs -> Nat]
         /\ vec' \in [Process -> [Handle -> Fabs \cup {Null}]]
<1>1. refs' = [refs EXCEPT ![f] = @ + 1] /\ refs' \in [Fabs -> Nat]
  BY DEF INC_FAB_REF, IInv, CountsType
<1>2. FAB_CHAIN' = FAB_CHAIN \cup {f}
  OBVIOUS
<1> QED
  BY <1>1, <1>2, Filled, OneMore DEF IInv

\* An open handle refers to a FAB that is in use.
LEMMA OpenInUse ==
  ASSUME IInv, pc # "dec", NEW p \in Process, p <= HANDLES, NEW g \in Handle,
         vec[p][g] # Null
  PROVE  vec[p][g] \in FAB_CHAIN
<1> DEFINE f == vec[p][g]
<1>1. f \in Fabs /\ <<p, g>> \in References(f)
  BY DEF IInv, CountsType, References, Counted
<1>2. Cardinality(References(f)) # 0
  BY <1>1, FiniteReferences, FS_EmptySet
<1> QED
  BY <1>1, <1>2 DEF IInv, UseCounts, CountsType

\* A new FAB.
LEMMA OpenStep ==
  ASSUME IInv, NEW r, OpenFab(r), UNCHANGED HANDLES, pc # "dec", pc' # "dec"
  PROVE  /\ UseCounts' /\ refs' \in [Fabs -> Nat] /\ FAB_CHAIN' \subseteq Fabs
         /\ vec' \in [Process -> [Handle -> Fabs \cup {Null}]]
<1>1. PICK g \in Handle, f \in Fabs \ FAB_CHAIN :
         /\ FIND_NEW_HANDLE(g)
         /\ SetHandle(HANDLES, g, f)
         /\ FAB_CHAIN' = FAB_CHAIN \cup {f}
         /\ refs' = [refs EXCEPT ![f] = 1]
  BY DEF OpenFab
<1>2. refs[f] = 0
  BY DEF IInv, UseCounts, CountsType
<1>3. refs' = [refs EXCEPT ![f] = @ + 1] /\ refs' \in [Fabs -> Nat]
  BY <1>1, <1>2 DEF IInv, CountsType
<1>4. HANDLES > 0 /\ vec[HANDLES][g] = Null
  BY <1>1 DEF FIND_NEW_HANDLE
<1> QED
  BY <1>1, <1>3, <1>4, Filled, OneMore DEF IInv, CountsType

-----------------------------------------------------------------------------
(* Every action preserves the invariant. *)

USE DEF vars, processes, counts, files, loop

LEMMA InitIInv == Init => IInv
<1> SUFFICES ASSUME Init PROVE IInv
  OBVIOUS
<1>1. CountsType /\ Loops
  BY DEF Init, CountsType, Loops
<1>2. \A f \in Fabs : References(f) = {}
  BY DEF Init, References, Counted
<1>3. Cardinality({}) = 0
  BY FS_EmptySet
<1>4. ASSUME NEW f \in Fabs
      PROVE  refs[f] = Cardinality(References(f)) /\ (f \in FAB_CHAIN <=> refs[f] > 0)
  <2>1. Cardinality(References(f)) = 0
    BY <1>2, <1>3
  <2> QED
    BY <2>1 DEF Init
<1> QED
  BY <1>1, <1>4 DEF IInv, UseCounts

\* Steps that touch neither vectors nor counts, outside of the loop of F_JOIN.
LEMMA IdleStep ==
  ASSUME IInv, UNCHANGED <<HANDLES, vec, counts, b>>, PROC_ID' = HANDLES,
         pc # "dec", pc' \notin {"dec", "fork", "unmap"}
  PROVE  IInv'
<1>1. UseCounts'
  BY SameReferences, NoneChanged DEF IInv
<1> QED
  BY <1>1 DEF IInv, CountsType, Loops

LEMMA FunctionStep ==
  ASSUME IInv, \/ F_OPEN \/ F_CREATE \/ F_WRITE \/ F_ENSURE \/ F_CLOSE \/ F_DUP
               \/ F_HDELET \/ F_HRENAM \/ F_DELETE \/ F_RENAME
  PROVE  IInv'
<1>1. CASE F_OPEN
  <2>1. PICK r : OpenFab(r)
    BY <1>1 DEF F_OPEN, OpenFile, OpenDevice
  <2> QED
    BY <1>1, <2>1, OpenStep DEF F_OPEN, IInv, CountsType, Loops
<1>2. CASE F_CREATE
  <2>1. CASE \E r : OpenFab(r)
    BY <1>2, <2>1, OpenStep DEF F_CREATE, IInv, CountsType, Loops
  <2>2. CASE UNCHANGED <<vec, counts, fab, waived>>
    BY <1>2, <2>2, IdleStep DEF F_CREATE, IInv, Loops
  <2> QED
    BY <1>2, <2>1, <2>2 DEF F_CREATE, OpenFile
<1>3. CASE F_WRITE
  BY <1>3, IdleStep DEF F_WRITE, IInv, Loops
<1>4. CASE F_ENSURE
  BY <1>4, IdleStep DEF F_ENSURE, IInv, Loops
<1>5. CASE F_CLOSE
  BY <1>5, CloseStep DEF F_CLOSE, IInv, CountsType, Loops
<1>6. CASE F_DUP
  <2>1. PICK g, i \in Handle :
          /\ pc = "idle" /\ Open(g) /\ FIND_NEW_HANDLE(i)
          /\ INC_FAB_REF(vec[HANDLES][g])
          /\ SetHandle(HANDLES, i, vec[HANDLES][g])
          /\ UNCHANGED <<processes, FAB_CHAIN, loop>>
    BY <1>6 DEF F_DUP
  <2>2. /\ HANDLES \in Process /\ vec[HANDLES][g] # Null /\ vec[HANDLES][i] = Null
        /\ vec[HANDLES][g] \in Fabs
    BY <2>1 DEF IInv, CountsType, Open, FIND_NEW_HANDLE
  <2>3. vec[HANDLES][g] \in FAB_CHAIN
    BY <2>1, <2>2, OpenInUse
  <2>4. /\ UseCounts' /\ refs' \in [Fabs -> Nat]
        /\ vec' \in [Process -> [Handle -> Fabs \cup {Null}]]
    BY <2>1, <2>2, <2>3, ShareStep
  <2> QED
    BY <2>1, <2>4 DEF IInv, CountsType, Loops
<1>7. CASE F_HDELET
  <2>1. /\ UseCounts' /\ refs' \in [Fabs -> Nat] /\ FAB_CHAIN' \subseteq Fabs
        /\ vec' \in [Process -> [Handle -> Fabs \cup {Null}]]
    BY <1>7, CloseStep DEF F_HDELET
  <2> QED
    BY <1>7, <2>1 DEF F_HDELET, IInv, CountsType, Loops
<1>8. CASE F_HRENAM
  BY <1>8, IdleStep, Zenon DEF F_HRENAM, IInv, Loops
<1>9. CASE F_DELETE
  BY <1>9, IdleStep DEF F_DELETE, IInv, Loops
<1>10. CASE F_RENAME
  BY <1>10, IdleStep DEF F_RENAME, IInv, Loops
<1> QED
  BY <1>1, <1>2, <1>3, <1>4, <1>5, <1>6, <1>7, <1>8, <1>9, <1>10

\* F_FORK: the new vector is empty, and each handle that is inherited counts.
LEMMA ForkStep == ASSUME IInv, F_FORK \/ Inherit \/ ForkDone PROVE IInv'
<1>1. CASE F_FORK
  <2>1. \A f \in Fabs : References(f)' = References(f)
    BY <1>1 DEF F_FORK, References, Counted, IInv, CountsType
  <2>2. UseCounts'
    BY <1>1, <2>1, NoneChanged DEF F_FORK, IInv
  <2> QED
    BY <1>1, <2>2 DEF F_FORK, IInv, CountsType, Loops
<1>2. CASE Inherit
  <2> DEFINE f == vec[HANDLES - 1][b]
  <2>1. /\ HANDLES \in Process /\ HANDLES - 1 \in Process /\ b \in Handle
        /\ vec[HANDLES][b] = Null /\ pc = "fork" /\ pc' = pc /\ b' = b + 1
        /\ HANDLES - 1 <= HANDLES /\ HANDLES > 0
        /\ UNCHANGED <<HANDLES, PROC_ID, FAB_CHAIN>>
    BY <1>2 DEF Inherit, IInv, CountsType, Loops
  <2>2. CASE f # Null /\ fab[f].inherit /\ refs[f] < MaxReferences
    <3>1. INC_FAB_REF(f) /\ SetHandle(HANDLES, b, f)
      BY <1>2, <2>2 DEF Inherit
    <3>2. f \in FAB_CHAIN /\ f \in Fabs
      <4>1. f \in FAB_CHAIN
        BY <2>1, <2>2, OpenInUse
      <4> QED
        BY <4>1 DEF IInv, CountsType
    <3>3. /\ UseCounts' /\ refs' \in [Fabs -> Nat]
          /\ vec' \in [Process -> [Handle -> Fabs \cup {Null}]]
      BY <2>1, <3>1, <3>2, ShareStep
    <3>4. \A g \in Handle : g >= b' => vec'[HANDLES'][g] = Null
      BY <2>1, <3>1 DEF SetHandle, IInv, CountsType, Loops
    <3> QED
      BY <2>1, <3>3, <3>4 DEF IInv, CountsType, Loops
  <2>3. CASE UNCHANGED <<refs, vec>>
    <3>1. UseCounts'
      BY <2>1, <2>3, SameReferences, NoneChanged DEF IInv
    <3> QED
      BY <2>1, <2>3, <3>1 DEF IInv, CountsType, Loops
  <2> QED
    BY <1>2, <2>2, <2>3 DEF Inherit
<1>3. CASE ForkDone
  BY <1>3, IdleStep DEF ForkDone, IInv, CountsType, Loops
<1> QED
  BY <1>1, <1>2, <1>3

\* F_JOIN: each handle of a vector that goes is taken off a count.
LEMMA JoinStep ==
  ASSUME IInv, F_JOIN \/ Dereference \/ NextProcess \/ EnsureFreed \/ JoinAborted
  PROVE  IInv'
<1>1. CASE F_JOIN
  <2>1. \A f \in Fabs : References(f)' = References(f)
    BY <1>1 DEF F_JOIN, References, Counted
  <2>2. UseCounts'
    BY <1>1, <2>1, NoneChanged DEF F_JOIN, IInv
  <2> QED
    BY <1>1, <2>2 DEF F_JOIN, IInv, CountsType, Loops
<1>2. CASE Dereference
  <2> DEFINE f == vec[HANDLES][b]
             x == <<HANDLES, b>>
  <2>1. /\ HANDLES \in Process /\ b \in Handle /\ f \in Fabs \cup {Null}
        /\ pc = "dec" /\ pc' = pc /\ b' = b + 1
        /\ UNCHANGED <<HANDLES, PROC_ID, vec, want>>
    BY <1>2 DEF Dereference, IInv, CountsType, Loops
  <2>2. ASSUME NEW h PROVE References(h)' = References(h) \ {x}
    BY <2>1 DEF References, Counted
  <2>3. \A h \in Fabs : x \in References(h) <=> f = h
    BY <2>1 DEF References, Counted
  <2>4. \A h \in Fabs : h # f => References(h)' = References(h)
    BY <2>2, <2>3
  <2>5. UseCounts' /\ refs' \in [Fabs -> Nat] /\ FAB_CHAIN' \subseteq Fabs
    <3>1. CASE f = Null
      <4>1. UNCHANGED counts
        BY <1>2, <3>1 DEF Dereference
      <4> QED
        BY <2>4, <3>1, <4>1, NoneChanged DEF IInv, CountsType
    <3>2. CASE f \in Fabs
      <4>1. DEC_FAB_REF(f)
        BY <1>2, <3>2 DEF Dereference
      <4> QED
        BY <2>2, <2>3, <2>4, <3>2, <4>1, OneLess DEF IInv
    <3> QED
      BY <2>1, <3>1, <3>2
  <2> QED
    BY <2>1, <2>5 DEF IInv, CountsType, Loops
<1>3. CASE NextProcess
  <2>1. \A f \in Fabs : References(f)' = References(f)
    BY <1>3 DEF NextProcess, References, Counted, IInv, CountsType, Loops
  <2>2. UseCounts'
    BY <1>3, <2>1, NoneChanged DEF NextProcess, IInv
  <2> QED
    BY <1>3, <2>2 DEF NextProcess, IInv, CountsType, Loops
<1>4. CASE EnsureFreed
  <2>1. UseCounts'
    BY <1>4, SameReferences, NoneChanged DEF EnsureFreed, IInv
  <2> QED
    BY <1>4, <2>1 DEF EnsureFreed, IInv, CountsType, Loops
<1>5. CASE JoinAborted
  BY <1>5, IdleStep DEF JoinAborted, IInv, Loops
<1> QED
  BY <1>1, <1>2, <1>3, <1>4, <1>5

\* What F_JOIN opens for process 0.
LEMMA DefaultsStep == ASSUME IInv, JoinDone \/ OpenDefault \/ DefaultsDone PROVE IInv'
<1>1. CASE JoinDone
  <2>1. CASE UNCHANGED <<processes, vec>>
    <3>1. UseCounts'
      BY <1>1, <2>1, SameReferences, NoneChanged DEF JoinDone, IInv
    <3> QED
      BY <1>1, <2>1, <3>1 DEF JoinDone, IInv, CountsType, Loops
  <2>2. CASE PROC_ID = 0 /\ HANDLES' = 1 /\ vec' = [vec EXCEPT ![1] = [g \in Handle |-> Null]]
    <3>1. HANDLES = 0
      BY <1>1, <2>2 DEF JoinDone, IInv, Loops
    <3>2. \A f \in Fabs : References(f)' = References(f)
      BY <1>1, <2>2, <3>1 DEF JoinDone, References, Counted, IInv, CountsType
    <3>3. UseCounts'
      BY <1>1, <3>2, NoneChanged DEF JoinDone, IInv
    <3> QED
      BY <1>1, <2>2, <3>3 DEF JoinDone, IInv, CountsType, Loops
  <2> QED
    BY <1>1, <2>1, <2>2 DEF JoinDone
<1>2. CASE OpenDefault
  <2>1. CASE \E r : OpenFab(r)
    BY <1>2, <2>1, OpenStep DEF OpenDefault, IInv, CountsType, Loops
  <2>2. CASE UNCHANGED <<vec, counts>>
    <3>1. UseCounts'
      BY <1>2, <2>2, SameReferences, NoneChanged DEF OpenDefault, IInv
    <3> QED
      BY <1>2, <2>2, <3>1 DEF OpenDefault, IInv, CountsType, Loops
  <2> QED
    BY <1>2, <2>1, <2>2 DEF OpenDefault, OpenDevice
<1>3. CASE DefaultsDone
  BY <1>3, IdleStep DEF DefaultsDone, IInv, Loops
<1> QED
  BY <1>1, <1>2, <1>3

LEMMA UnmapStep ==
  ASSUME IInv, MAP_UNMAP \/ CLOSE_HANDLES \/ HandlesClosed \/ Remap
  PROVE  IInv'
<1>1. CASE MAP_UNMAP
  <2>1. UseCounts'
    BY <1>1, SameReferences, NoneChanged DEF MAP_UNMAP, IInv
  <2> QED
    BY <1>1, <2>1 DEF MAP_UNMAP, IInv, CountsType, Loops
<1>2. CASE CLOSE_HANDLES
  <2>1. /\ b \in Handle /\ HANDLES > 0 /\ pc = "unmap" /\ pc' # "dec" /\ pc' # "fork"
        /\ b' = b + 1 /\ UNCHANGED <<HANDLES, PROC_ID>>
    BY <1>2 DEF CLOSE_HANDLES, IInv, CountsType, Loops
  <2>2. CASE vec[HANDLES][b] # Null /\ CLOSE_FAB(b)
    BY <2>1, <2>2, CloseStep DEF Open, IInv, CountsType, Loops
  <2>3. CASE UNCHANGED <<vec, counts>>
    <3>1. UseCounts'
      BY <2>1, <2>3, SameReferences, NoneChanged DEF IInv
    <3> QED
      BY <2>1, <2>3, <3>1 DEF IInv, CountsType, Loops
  <2> QED
    BY <1>2, <2>2, <2>3 DEF CLOSE_HANDLES
<1>3. CASE HandlesClosed
  BY <1>3, IdleStep DEF HandlesClosed, IInv, Loops
<1>4. CASE Remap
  BY <1>4, IdleStep DEF Remap, IInv, Loops
<1> QED
  BY <1>1, <1>2, <1>3, <1>4

LEMMA StepIInv == ASSUME IInv, [Next]_vars PROVE IInv'
<1>1. CASE UNCHANGED vars
  <2>1. \A f \in Fabs : References(f)' = References(f)
    BY <1>1 DEF References, Counted
  <2>2. UseCounts'
    BY <1>1, <2>1, NoneChanged DEF IInv
  <2> QED
    BY <1>1, <2>2 DEF IInv, CountsType, Loops
<1> QED
  BY <1>1, FunctionStep, ForkStep, JoinStep, DefaultsStep, UnmapStep DEF Next

\* A FAB is allocated exactly as long as handles of some process refer to it,
\* and its use count is their number: through every interleaving of opening,
\* F_DUP, closing, F_FORK, F_JOIN and unmapping, with ABORT in the middle.
THEOREM UseCountsAreRight == Spec => []UseCounts
<1>1. IInv => UseCounts
  BY DEF IInv
<1> QED
  BY <1>1, InitIInv, StepIInv, PTL DEF Spec

-----------------------------------------------------------------------------
(* Types, and how far the loops of F_JOIN have come. *)

Limits == /\ refs \in [Fabs -> 0..MaxReferences]
          /\ pc \in {"idle", "fork", "dec", "ensure", "defaults", "unmap", "unmapped"}
          /\ want \in 0..MaxProcesses /\ v \in 0..MaxProcesses
          /\ b \in 0..(MAX_FILE_HANDLES + DefaultHandles)
          /\ pc \in {"dec", "ensure"} => HANDLES <= v
          /\ pc = "ensure" => b < MAX_FILE_HANDLES

\* A count only goes down while there is a handle to take off it.
LEMMA CountDown ==
  ASSUME IInv, Limits, NEW p \in Process, NEW g \in Handle, Counted(p, g),
         vec[p][g] # Null, DEC_FAB_REF(vec[p][g])
  PROVE  refs' \in [Fabs -> 0..MaxReferences]
<1> DEFINE f == vec[p][g]
<1>1. f \in Fabs /\ <<p, g>> \in References(f)
  BY DEF IInv, CountsType, References
<1>2. Cardinality(References(f)) # 0
  BY <1>1, FiniteReferences, FS_EmptySet
<1>3. refs[f] \in 1..MaxReferences
  BY <1>1, <1>2 DEF IInv, UseCounts, Limits
<1> QED
  BY <1>1, <1>3 DEF DEC_FAB_REF, Limits

\* The same for a handle of the current process that is closed.
LEMMA CloseDown ==
  ASSUME IInv, Limits, pc # "dec", NEW g \in Handle, Open(g), CLOSE_FAB(g)
  PROVE  refs' \in [Fabs -> 0..MaxReferences]
<1>1. HANDLES \in Process /\ Counted(HANDLES, g) /\ vec[HANDLES][g] # Null
  BY DEF Open, Counted, IInv, CountsType
<1> QED
  BY <1>1, CountDown DEF CLOSE_FAB

LEMMA LimitsStep == ASSUME IInv, Limits, [Next]_vars PROVE Limits'
<1>1. CASE F_OPEN
  <2>1. PICK r : OpenFab(r)
    BY <1>1 DEF F_OPEN, OpenFile, OpenDevice
  <2> QED
    BY <1>1, <2>1 DEF F_OPEN, OpenFab, Limits
<1>2. CASE F_CREATE
  <2>1. CASE \E r : OpenFab(r)
    BY <1>2, <2>1 DEF F_CREATE, OpenFab, Limits
  <2>2. CASE UNCHANGED counts
    BY <1>2, <2>2 DEF F_CREATE, Limits
  <2> QED
    BY <1>2, <2>1, <2>2 DEF F_CREATE, OpenFile
<1>3. CASE F_WRITE
  BY <1>3 DEF F_WRITE, Limits
<1>4. CASE F_ENSURE
  BY <1>4 DEF F_ENSURE, Limits
<1>5. CASE F_CLOSE
  BY <1>5, CloseDown DEF F_CLOSE, Limits
<1>6. CASE F_DUP
  <2>1. refs' \in [Fabs -> 0..MaxReferences]
    <3>1. PICK f \in Fabs : INC_FAB_REF(f)
      BY <1>6 DEF F_DUP, Open, IInv, CountsType
    <3> QED
      BY <3>1 DEF INC_FAB_REF, Limits
  <2> QED
    BY <1>6, <2>1 DEF F_DUP, Limits
<1>7. CASE F_HDELET
  BY <1>7, CloseDown DEF F_HDELET, Limits
<1>8. CASE F_HRENAM
  BY <1>8 DEF F_HRENAM, Limits
<1>9. CASE F_DELETE \/ F_RENAME
  BY <1>9 DEF F_DELETE, F_RENAME, Limits
<1>10. CASE F_FORK
  BY <1>10 DEF F_FORK, Limits
<1>11. CASE Inherit
  <2>1. refs' \in [Fabs -> 0..MaxReferences]
    BY <1>11 DEF Inherit, INC_FAB_REF, Limits
  <2> QED
    BY <1>11, <2>1 DEF Inherit, Limits
<1>12. CASE ForkDone
  BY <1>12 DEF ForkDone, Limits
<1>13. CASE F_JOIN
  BY <1>13 DEF F_JOIN, Limits, IInv, CountsType
<1>14. CASE Dereference
  <2>1. HANDLES \in Process /\ b \in Handle /\ Counted(HANDLES, b)
    BY <1>14 DEF Dereference, Counted, IInv, CountsType, Loops
  <2>2. refs' \in [Fabs -> 0..MaxReferences]
    BY <1>14, <2>1, CountDown DEF Dereference, Limits
  <2> QED
    BY <1>14, <2>2 DEF Dereference, Limits
<1>15. CASE NextProcess
  BY <1>15 DEF NextProcess, Limits, IInv, CountsType, Loops
<1>16. CASE EnsureFreed
  BY <1>16 DEF EnsureFreed, Limits, IInv, CountsType
<1>17. CASE JoinAborted
  BY <1>17 DEF JoinAborted, Limits
<1>18. CASE JoinDone
  BY <1>18 DEF JoinDone, Limits
<1>19. CASE OpenDefault
  <2>1. CASE \E r : OpenFab(r)
    BY <1>19, <2>1 DEF OpenDefault, OpenFab, Limits
  <2>2. CASE UNCHANGED counts
    BY <1>19, <2>2 DEF OpenDefault, Limits
  <2> QED
    BY <1>19, <2>1, <2>2 DEF OpenDefault, OpenDevice
<1>20. CASE DefaultsDone \/ MAP_UNMAP \/ HandlesClosed \/ Remap
  BY <1>20 DEF DefaultsDone, MAP_UNMAP, HandlesClosed, Remap, Limits
<1>21. CASE CLOSE_HANDLES
  <2>1. HANDLES \in Process /\ b \in Handle
    BY <1>21 DEF CLOSE_HANDLES, IInv, CountsType, Loops
  <2>2. refs' \in [Fabs -> 0..MaxReferences]
    BY <1>21, <2>1, CloseDown DEF CLOSE_HANDLES, Open, Limits
  <2> QED
    BY <1>21, <2>2 DEF CLOSE_HANDLES, Limits
<1>22. CASE UNCHANGED vars
  BY <1>22 DEF Limits
<1> QED
  BY <1>1, <1>2, <1>3, <1>4, <1>5, <1>6, <1>7, <1>8, <1>9, <1>10, <1>11, <1>12, <1>13,
     <1>14, <1>15, <1>16, <1>17, <1>18, <1>19, <1>20, <1>21, <1>22 DEF Next

-----------------------------------------------------------------------------
(* What the FABs in use and the directory say of each other. *)

\* A FAB that can be used has its own file in its place of directory d.
There(d, r) == r.slot # Device /\ ~r.dead
                   => d[r.slot] = [name |-> r.name, file |-> r.file]

\* No file is open as a device, and nothing is ever written to a device's FAB.
Sane(r) == IF r.slot = Device THEN r.name = Device /\ ~r.modified
           ELSE r.name \in Names /\ r.file \in Numbers

\* No two entries have one name, so that a search finds the file it is to find.
UniqueNames(d) == \A s, t \in Slots :
    d[s] # Free /\ d[t] # Free /\ d[s].name = d[t].name => s = t

Directory(d) == d \in [Slots -> Entry \cup {Free}] /\ UniqueNames(d)

FabsType == fab \in [Fabs -> Fab] /\ (\A f \in Fabs : Sane(fab[f])) /\ waived \subseteq Fabs

\* An update of the directory that is still to be made for a FAB.
Owed(f) == fab[f].modified /\ ~fab[f].dead /\ f \notin waived

\* The handles of the vectors being freed that F_JOIN is still to ensure.
ToEnsure(p, g) ==
    \/ pc = "dec" /\ p <= v /\ (p > HANDLES \/ (p = HANDLES /\ g < b))
    \/ pc = "ensure" /\ p > HANDLES /\ (p < v \/ (p = v /\ g >= b))

AllThere == \A f \in FAB_CHAIN : There(dir, fab[f])

\* F_JOIN brings the directory up to date for FABs that are freed already:
\* nothing must have become of their entries in between.
FreedThere == pc \in {"dec", "ensure"} => \A p \in Process, g \in Handle :
    p <= v /\ vec[p][g] # Null => There(dir, fab[vec[p][g]])

NoneOwed == \A f \in Fabs \ FAB_CHAIN : Owed(f) =>
    \E p \in Process, g \in Handle : ToEnsure(p, g) /\ vec[p][g] = f

FInv == Directory(dir) /\ FabsType /\ AllThere /\ FreedThere /\ NoneOwed

\* The same outside of F_JOIN.
Orderly == /\ Directory(dir) /\ FabsType /\ AllThere
           /\ \A f \in Fabs \ FAB_CHAIN : ~Owed(f)

LEMMA OrderlyIsAll == pc \notin {"dec", "ensure"} => (FInv <=> Orderly)
  BY DEF FInv, Orderly, FreedThere, NoneOwed, ToEnsure

\* The entry found for a FAB is its own.
LEMMA OwnEntry ==
  ASSUME Directory(dir), NEW f \in Fabs, fab[f] \in Fab, Sane(fab[f]),
         There(dir, fab[f]), ~fab[f].dead, fab[f].slot # Device
  PROVE  /\ fab[f].slot \in Slots /\ dir[fab[f].slot] # Free
         /\ Located(fab[f].name) = {fab[f].slot} /\ EntryOf(f) = fab[f].slot
         /\ Updated(f) = dir
<1> DEFINE s == fab[f].slot
<1>1. s \in Slots /\ fab[f].name \in Names /\ fab[f].file \in Numbers
  BY DEF Fab, Sane
<1>2. dir[s] = [name |-> fab[f].name, file |-> fab[f].file]
  BY DEF There
<1>3. dir[s] # Free /\ dir[s].name = fab[f].name /\ dir[s].file = fab[f].file
  BY <1>1, <1>2, FreeAssumption
<1>4. Located(fab[f].name) = {s}
  BY <1>1, <1>3 DEF Located, Directory, UniqueNames
<1>5. EntryOf(f) = s
  BY <1>4 DEF EntryOf
<1>6. [dir EXCEPT ![s].file = fab[f].file] = dir
  <2> DEFINE e == [dir[s] EXCEPT !.file = fab[f].file]
  <2>1. e = dir[s]
    BY <1>2
  <2>2. [dir EXCEPT ![s] = dir[s]] = dir
    BY <1>1 DEF Directory
  <2> QED
    BY <2>1, <2>2
<1> QED
  BY <1>1, <1>3, <1>4, <1>5, <1>6 DEF Updated

\* There is no entry with the name of a device.
LEMMA NoDeviceEntry ==
  ASSUME Directory(dir), NEW f \in Fabs, Sane(fab[f]), fab[f].slot = Device
  PROVE  Located(fab[f].name) = {}
<1>1. \A s \in Slots : dir[s] # Free => dir[s].name \in Names
  BY DEF Directory, Entry
<1> QED
  BY <1>1 DEF Located, Sane

\* What ENSURE_FAB leaves: the directory was right already.
UpToDate(f) ==
    /\ dir' = dir /\ fab' \in [Fabs -> Fab]
    /\ \A h \in Fabs \ {f} : fab'[h] = fab[h]
    /\ fab'[f] = [fab[f] EXCEPT !.modified = fab'[f].modified]
    /\ fab'[f].modified => fab[f].modified
    /\ ~fab'[f].modified \/ fab'[f].dead

LEMMA EnsuredKeeps ==
  ASSUME Directory(dir), FabsType, NEW f \in Fabs, There(dir, fab[f]), Ensured(f)
  PROVE  UpToDate(f)
<1>1. fab[f] \in Fab /\ Sane(fab[f]) /\ fab \in [Fabs -> Fab]
  BY DEF FabsType
<1>2. CASE ENSURE_FAB(f)
  <2>1. fab[f].modified /\ ~fab[f].dead /\ fab[f].slot # Device
    BY <1>1, <1>2 DEF ENSURE_FAB, Sane
  <2>2. EntryOf(f) = fab[f].slot /\ Updated(f) = dir
    BY <1>1, <2>1, OwnEntry
  <2>3. dir' = dir /\ fab' = [fab EXCEPT ![f] = [[fab[f] EXCEPT !.modified = FALSE]
                                                          EXCEPT !.slot = EntryOf(f)]]
    BY <1>1, <1>2, <2>2 DEF Ensured
  <2>4. [[fab[f] EXCEPT !.modified = FALSE] EXCEPT !.slot = EntryOf(f)]
          = [fab[f] EXCEPT !.modified = FALSE]
    BY <1>1, <2>2 DEF Fab
  <2>5. [fab[f] EXCEPT !.modified = FALSE] \in Fab
    BY <1>1 DEF Fab
  <2>6. fab' = [fab EXCEPT ![f] = [fab[f] EXCEPT !.modified = FALSE]]
    BY <2>3, <2>4
  <2>7. fab'[f] = [fab[f] EXCEPT !.modified = FALSE] /\ fab' \in [Fabs -> Fab]
    BY <1>1, <2>5, <2>6
  <2>8. ~fab'[f].modified
    BY <1>1, <2>7 DEF Fab
  <2> QED
    BY <1>1, <2>1, <2>3, <2>6, <2>7, <2>8 DEF UpToDate
<1>3. CASE ~ENSURE_FAB(f)
  <2>1. dir' = dir /\ fab' = fab
    BY <1>3 DEF Ensured
  <2>2. ~fab[f].modified \/ fab[f].dead
    <3> SUFFICES ASSUME fab[f].modified, ~fab[f].dead PROVE FALSE
      OBVIOUS
    <3>1. fab[f].slot # Device
      BY <1>1 DEF Sane
    <3>2. Located(fab[f].name) # {}
      BY <1>1, <3>1, OwnEntry
    <3> QED
      BY <1>3, <3>2 DEF ENSURE_FAB
  <2>3. fab[f] = [fab[f] EXCEPT !.modified = fab[f].modified]
    BY <1>1 DEF Fab
  <2> QED
    BY <1>1, <2>1, <2>2, <2>3 DEF UpToDate
<1> QED
  BY <1>2, <1>3

\* So nothing else can tell that a FAB has been ensured.
LEMMA UpToDateKeeps ==
  ASSUME FabsType, NEW f \in Fabs, UpToDate(f)
  PROVE  /\ \A h \in Fabs : There(dir', fab'[h]) <=> There(dir, fab[h])
         /\ \A h \in Fabs : Sane(fab'[h])
         /\ \A h \in Fabs : fab'[h].modified /\ ~fab'[h].dead
                               => h # f /\ fab[h].modified /\ ~fab[h].dead
<1>1. fab[f] \in Fab /\ fab'[f] \in Fab
  BY DEF FabsType, UpToDate
<1>2. /\ fab'[f].slot = fab[f].slot /\ fab'[f].name = fab[f].name
      /\ fab'[f].file = fab[f].file /\ fab'[f].dead = fab[f].dead
  BY <1>1 DEF Fab, UpToDate
<1>3. /\ There(dir', fab'[f]) <=> There(dir, fab[f])
      /\ Sane(fab'[f]) /\ ~(fab'[f].modified /\ ~fab'[f].dead)
  BY <1>2 DEF There, Sane, FabsType, UpToDate
<1>4. \A h \in Fabs \ {f} : fab'[h] = fab[h] /\ dir' = dir
  BY DEF UpToDate
<1> QED
  BY <1>3, <1>4 DEF FabsType

\* F_ENSURE, or F_CLOSE of a handle to FAB f, with the user aborting it or not.
LEMMA EnsureStep ==
  ASSUME Orderly, CountsType, NEW f \in FAB_CHAIN, EnsuredOrAborted(f),
         FAB_CHAIN' \in {FAB_CHAIN, FAB_CHAIN \ {f}}
  PROVE  Orderly'
<1>0. f \in Fabs /\ FabsType /\ Directory(dir) /\ FAB_CHAIN \subseteq Fabs
  BY DEF CountsType, Orderly
<1>1. CASE Ensured(f) /\ UNCHANGED waived
  <2>1. UpToDate(f)
    BY <1>0, <1>1, EnsuredKeeps DEF Orderly, AllThere
  <2>2. /\ \A h \in Fabs : There(dir', fab'[h]) <=> There(dir, fab[h])
        /\ \A h \in Fabs : Sane(fab'[h])
        /\ \A h \in Fabs : fab'[h].modified /\ ~fab'[h].dead
                              => h # f /\ fab[h].modified /\ ~fab[h].dead
    BY <1>0, <2>1, UpToDateKeeps
  <2>3. Directory(dir)' /\ FabsType'
    BY <1>0, <1>1, <2>1, <2>2 DEF Directory, UniqueNames, FabsType, UpToDate
  <2>4. AllThere'
    BY <1>0, <2>2 DEF AllThere, Orderly
  <2>5. \A h \in Fabs \ FAB_CHAIN' : ~Owed(h)'
    BY <1>0, <1>1, <2>2 DEF Owed, Orderly
  <2> QED
    BY <2>3, <2>4, <2>5 DEF Orderly
<1>2. CASE Aborted /\ UNCHANGED files
  BY <1>0, <1>2 DEF Aborted, Orderly, Directory, UniqueNames, FabsType, AllThere, Owed
<1> QED
  BY <1>1, <1>2 DEF EnsuredOrAborted

\* A new FAB, for a file that is in its place.
LEMMA NewFabStep ==
  ASSUME CountsType, FabsType, Directory(dir)',
         \A f \in FAB_CHAIN : There(dir', fab[f]),
         \A f \in Fabs \ FAB_CHAIN : ~Owed(f),
         NEW r \in Fab, Sane(r), There(dir', r), OpenFab(r)
  PROVE  Orderly'
<1>1. PICK f \in Fabs \ FAB_CHAIN :
        /\ FAB_CHAIN' = FAB_CHAIN \cup {f}
        /\ fab' = [fab EXCEPT ![f] = r] /\ waived' = waived \ {f}
  BY DEF OpenFab
<1>2. fab' \in [Fabs -> Fab] /\ fab'[f] = r /\ \A h \in Fabs \ {f} : fab'[h] = fab[h]
  BY <1>1 DEF FabsType
<1>3. FabsType'
  BY <1>1, <1>2 DEF FabsType
<1>4. AllThere'
  BY <1>1, <1>2 DEF AllThere, CountsType
<1>5. \A h \in Fabs \ FAB_CHAIN' : ~Owed(h)'
  BY <1>1, <1>2 DEF Owed
<1> QED
  BY <1>3, <1>4, <1>5 DEF Orderly

\* An entry changes that no FAB in use has, or only one that is dead.
LEMMA EntryStep ==
  ASSUME Orderly, CountsType, NEW s \in Slots, NEW d,
         \A t \in Slots \ {s} : d[t] = dir[t],
         dir[s] = Free \/ \A f \in FAB_CHAIN : fab[f].slot # s \/ fab[f].dead
  PROVE  \A f \in FAB_CHAIN : There(d, fab[f])
<1> SUFFICES ASSUME NEW f \in FAB_CHAIN, fab[f].slot # Device, ~fab[f].dead
             PROVE  There(d, fab[f])
  BY DEF There
<1>1. /\ f \in Fabs /\ fab[f] \in Fab /\ Sane(fab[f]) /\ There(dir, fab[f])
      /\ Directory(dir)
  BY DEF Orderly, CountsType, FabsType, AllThere
<1>2. fab[f].slot \in Slots /\ dir[fab[f].slot] # Free
  BY <1>1, OwnEntry
<1>3. fab[f].slot # s
  BY <1>2
<1> QED
  BY <1>1, <1>2, <1>3 DEF There

\* Steps that change neither files nor FABs.
LEMMA RestStep ==
  ASSUME Orderly, UNCHANGED <<dir, fab, FAB_CHAIN, waived>>
  PROVE  Orderly'
BY DEF Orderly, Directory, UniqueNames, FabsType, AllThere, Owed

\* The FAB of an open handle is in use.
LEMMA OpenFabInUse ==
  ASSUME IInv, pc # "dec", NEW g \in Handle, Open(g)
  PROVE  vec[HANDLES][g] \in FAB_CHAIN /\ vec[HANDLES][g] \in Fabs
<1>1. HANDLES \in Process /\ HANDLES <= HANDLES /\ vec[HANDLES][g] # Null
  BY DEF Open, IInv, CountsType
<1>2. vec[HANDLES][g] \in FAB_CHAIN
  BY <1>1, OpenInUse
<1> QED
  BY <1>2 DEF IInv, CountsType

LEMMA OpenFiles == ASSUME IInv, Orderly, F_OPEN PROVE Orderly'
<1>0. CountsType /\ dir' = dir /\ pc = "idle"
  BY DEF IInv, F_OPEN
<1>1. \A d : There(dir', d) <=> There(dir, d)
  BY <1>0
<1>2. Directory(dir)'
  BY <1>0 DEF Orderly, Directory, UniqueNames
<1>3. ASSUME NEW i \in BOOLEAN, NEW s \in Slots, dir[s] # Free,
             OpenFile(s, dir[s].name, dir[s].file, i)
      PROVE  Orderly'
  <2> DEFINE r == [slot |-> s, name |-> dir[s].name, file |-> dir[s].file, inherit |-> i,
                   modified |-> FALSE, dead |-> FALSE]
  <2>1. dir[s] \in Entry
    BY <1>3 DEF Orderly, Directory
  <2>2. r \in Fab /\ Sane(r)
    BY <2>1 DEF Fab, Entry, Sane
  <2>3. There(dir, r)
    BY <2>1 DEF There, Entry
  <2>4. OpenFab(r)
    BY <1>3 DEF OpenFile
  <2> HIDE DEF r
  <2> QED
    BY <1>0, <1>1, <1>2, <2>2, <2>3, <2>4, NewFabStep DEF Orderly, AllThere
<1>4. ASSUME NEW i \in BOOLEAN, OpenDevice(i) PROVE Orderly'
  <2> DEFINE r == [DeviceFab EXCEPT !.inherit = i]
  <2>1. r \in Fab /\ Sane(r) /\ There(dir, r)
    BY DEF Fab, Sane, There, DeviceFab
  <2>2. OpenFab(r)
    BY <1>4 DEF OpenDevice
  <2> HIDE DEF r
  <2> QED
    BY <1>0, <1>1, <1>2, <2>1, <2>2, NewFabStep DEF Orderly, AllThere
<1> QED
  BY <1>3, <1>4 DEF F_OPEN

LEMMA CreateFiles == ASSUME IInv, Orderly, F_CREATE PROVE Orderly'
<1>1. PICK nm \in Names, x \in Numbers, s \in Slots, i \in BOOLEAN :
        /\ \/ Located(nm) = {} /\ FirstFree(s)
           \/ s \in Located(nm) /\ ~FAB_SCAN(Null, s)
        /\ dir' = [dir EXCEPT ![s] = [name |-> nm, file |-> x]]
        /\ \/ OpenFile(s, nm, x, i)
           \/ UNCHANGED <<vec, counts, fab, waived>>
  BY DEF F_CREATE
<1>2. /\ dir \in [Slots -> Entry \cup {Free}] /\ CountsType /\ FabsType
      /\ [name |-> nm, file |-> x] \in Entry
  BY DEF Orderly, Directory, IInv, Entry
<1>3. dir'[s] = [name |-> nm, file |-> x] /\ \A t \in Slots \ {s} : dir'[t] = dir[t]
  BY <1>1, <1>2
<1>4. Directory(dir)'
  <2>1. dir' \in [Slots -> Entry \cup {Free}]
    BY <1>1, <1>2
  <2>2. \A t \in Slots \ {s} : dir[t] # Free => dir[t].name # nm
    BY <1>1 DEF Located, Orderly, Directory, UniqueNames
  <2> QED
    BY <1>3, <2>1, <2>2 DEF Directory, UniqueNames, Orderly
<1>5. dir[s] = Free \/ \A f \in FAB_CHAIN : fab[f].slot # s
  BY <1>1, <1>2 DEF FirstFree, FAB_SCAN, CountsType
<1>6. \A f \in FAB_CHAIN : There(dir', fab[f])
  BY <1>2, <1>3, <1>5, EntryStep
<1>7. CASE OpenFile(s, nm, x, i)
  <2> DEFINE r == [slot |-> s, name |-> nm, file |-> x, inherit |-> i,
                   modified |-> FALSE, dead |-> FALSE]
  <2>1. r \in Fab /\ Sane(r)
    BY DEF Fab, Sane
  <2>2. There(dir', r)
    BY <1>3 DEF There
  <2>3. OpenFab(r)
    BY <1>7 DEF OpenFile
  <2> HIDE DEF r
  <2> QED
    BY <1>2, <1>4, <1>6, <2>1, <2>2, <2>3, NewFabStep DEF Orderly
<1>8. CASE UNCHANGED <<vec, counts, fab, waived>>
  BY <1>4, <1>6, <1>8 DEF Orderly, FabsType, AllThere, Owed
<1> QED
  BY <1>1, <1>7, <1>8

LEMMA WriteFiles == ASSUME IInv, Orderly, F_WRITE PROVE Orderly'
<1>1. PICK g \in Handle :
        /\ pc = "idle" /\ Open(g) /\ fab[vec[HANDLES][g]].slot # Device
        /\ fab' = [fab EXCEPT ![vec[HANDLES][g]].modified = TRUE]
        /\ UNCHANGED <<counts, dir, waived>>
  BY DEF F_WRITE
<1> DEFINE f == vec[HANDLES][g]
<1>2. f \in FAB_CHAIN /\ f \in Fabs
  BY <1>1, OpenFabInUse
<1> HIDE DEF f
<1>3. fab' = [fab EXCEPT ![f] = [fab[f] EXCEPT !.modified = TRUE]] /\ fab[f] \in Fab
      /\ fab[f].slot # Device
  BY <1>1, <1>2 DEF f, Orderly, FabsType
<1>4. /\ fab'[f] \in Fab /\ fab'[f].slot = fab[f].slot /\ fab'[f].name = fab[f].name
      /\ fab'[f].file = fab[f].file /\ fab'[f].dead = fab[f].dead
      /\ \A h \in Fabs \ {f} : fab'[h] = fab[h]
  BY <1>2, <1>3 DEF Fab, Orderly, FabsType
<1>5. FabsType'
  <2>1. fab' \in [Fabs -> Fab] /\ Sane(fab'[f])
    BY <1>2, <1>3, <1>4 DEF Orderly, FabsType, Sane
  <2> QED
    BY <1>1, <1>4, <2>1 DEF Orderly, FabsType
<1>6. AllThere'
  <2>1. There(dir', fab'[f]) <=> There(dir, fab[f])
    BY <1>1, <1>4 DEF There
  <2>2. FAB_CHAIN' = FAB_CHAIN /\ FAB_CHAIN \subseteq Fabs /\ dir' = dir
    BY <1>1 DEF IInv, CountsType
  <2> QED
    BY <1>4, <2>1, <2>2 DEF Orderly, AllThere
<1>7. \A h \in Fabs \ FAB_CHAIN' : ~Owed(h)'
  BY <1>1, <1>2, <1>4 DEF Orderly, Owed
<1> QED
  BY <1>1, <1>5, <1>6, <1>7 DEF Orderly, Directory, UniqueNames

LEMMA EnsureFiles == ASSUME IInv, Orderly, F_ENSURE PROVE Orderly'
<1>1. PICK g \in Handle : /\ pc = "idle" /\ Open(g) /\ FAB_CHAIN' = FAB_CHAIN
                          /\ EnsuredOrAborted(vec[HANDLES][g])
  BY DEF F_ENSURE
<1>2. vec[HANDLES][g] \in FAB_CHAIN
  BY <1>1, OpenFabInUse
<1> QED
  BY <1>1, <1>2, EnsureStep DEF IInv

LEMMA CloseFiles == ASSUME IInv, Orderly, F_CLOSE PROVE Orderly'
<1>1. PICK g \in Handle : /\ pc = "idle" /\ Open(g) /\ DEC_FAB_REF(vec[HANDLES][g])
                          /\ EnsuredOrAborted(vec[HANDLES][g])
  BY DEF F_CLOSE, CLOSE_FAB
<1>2. vec[HANDLES][g] \in FAB_CHAIN
  BY <1>1, OpenFabInUse
<1>3. FAB_CHAIN' \in {FAB_CHAIN, FAB_CHAIN \ {vec[HANDLES][g]}}
  BY <1>1 DEF DEC_FAB_REF
<1> QED
  BY <1>1, <1>2, <1>3, EnsureStep DEF IInv

\* F_HDELET: the entry goes, or stays as it is, and the FAB is dead.
LEMMA DeleteHandleFiles == ASSUME IInv, Orderly, F_HDELET PROVE Orderly'
<1>1. PICK g \in Handle : /\ pc = "idle" /\ Open(g) /\ DEC_FAB_REF(vec[HANDLES][g])
                          /\ \/ HDeleted(vec[HANDLES][g]) /\ UNCHANGED waived
                             \/ Aborted /\ UNCHANGED files
  BY DEF F_HDELET, CLOSE_FAB
<1> DEFINE f == vec[HANDLES][g]
<1>2. f \in FAB_CHAIN /\ f \in Fabs
  BY <1>1, OpenFabInUse
<1>3. FAB_CHAIN' \in {FAB_CHAIN, FAB_CHAIN \ {f}}
  BY <1>1 DEF DEC_FAB_REF
<1>4. CASE Aborted /\ UNCHANGED files
  BY <1>2, <1>3, <1>4, EnsureStep DEF EnsuredOrAborted, IInv
<1>5. CASE HDeleted(f) /\ UNCHANGED waived
  <2> DEFINE s == EntryOf(f)
  <2>0. /\ Directory(dir) /\ FabsType /\ CountsType /\ AllThere
        /\ fab[f] \in Fab /\ Sane(fab[f]) /\ There(dir, fab[f])
    BY <1>2 DEF Orderly, FabsType, AllThere, IInv
  <2>1. /\ fab' \in [Fabs -> Fab] /\ fab'[f].dead /\ Sane(fab'[f])
        /\ \A h \in Fabs \ {f} : fab'[h] = fab[h]
    <3> DEFINE e1 == [fab[f] EXCEPT !.dead = TRUE]
               e2 == [[fab[f] EXCEPT !.dead = TRUE] EXCEPT !.modified = FALSE]
    <3>1. e1 \in Fab /\ e1.dead /\ Sane(e1) /\ e2 \in Fab /\ e2.dead /\ Sane(e2)
      BY <2>0 DEF Fab, Sane
    <3>2. \E e \in {e1, e2} : fab' = [fab EXCEPT ![f] = e]
      <4>1. \/ fab' = [fab EXCEPT ![f].dead = TRUE]
            \/ fab' = [fab EXCEPT ![f].dead = TRUE, ![f].modified = FALSE]
        BY <1>5 DEF HDeleted
      <4>2. fab \in [Fabs -> Fab]
        BY <2>0 DEF FabsType
      <4> QED
        BY <1>2, <4>1, <4>2
    <3> HIDE DEF e1, e2
    <3> QED
      BY <1>2, <2>0, <3>1, <3>2 DEF FabsType
  <2>2. dir' = dir \/ (/\ s \in Slots /\ ~FAB_SCAN(f, s)
                       /\ dir' = [dir EXCEPT ![s] = Free])
    <3>1. CASE fab[f].dead \/ Located(fab[f].name) = {}
      BY <1>5, <3>1 DEF HDeleted
    <3>2. CASE ~(fab[f].dead \/ Located(fab[f].name) = {})
      <4>1. fab[f].slot # Device
        BY <1>2, <2>0, <3>2, NoDeviceEntry
      <4>2. s \in Slots /\ Updated(f) = dir
        BY <1>2, <2>0, <3>2, <4>1, OwnEntry
      <4> QED
        BY <1>5, <3>2, <4>2 DEF HDeleted
    <3> QED
      BY <3>1, <3>2
  <2> HIDE DEF s
  <2>3. /\ Directory(dir)'
        /\ \A h \in FAB_CHAIN \ {f} : There(dir', fab[h])
    <3>1. CASE dir' = dir
      BY <2>0, <3>1 DEF Directory, UniqueNames, AllThere
    <3>2. CASE /\ s \in Slots /\ ~FAB_SCAN(f, s)
               /\ dir' = [dir EXCEPT ![s] = Free]
      <4>1. Directory(dir)'
        BY <2>0, <3>2 DEF Directory, UniqueNames
      <4>2. \A h \in FAB_CHAIN \ {f} : fab[h].slot # s
        BY <3>2 DEF FAB_SCAN
      <4>3. \A h \in FAB_CHAIN \ {f} : fab[h].slot # Device => fab[h].slot \in Slots
        BY <2>0 DEF CountsType, FabsType, Fab
      <4> QED
        BY <2>0, <3>2, <4>1, <4>2, <4>3 DEF AllThere, There, Directory
    <3> QED
      BY <2>2, <3>1, <3>2
  <2>4. FabsType'
    BY <1>5, <2>0, <2>1 DEF FabsType
  <2>5. AllThere'
    <3>1. There(dir', fab'[f])
      BY <2>1 DEF There
    <3> QED
      BY <1>3, <2>0, <2>1, <2>3, <3>1 DEF AllThere, CountsType
  <2>6. \A h \in Fabs \ FAB_CHAIN' : ~Owed(h)'
    BY <1>3, <1>5, <2>1 DEF Owed, Orderly
  <2> QED
    BY <2>3, <2>4, <2>5, <2>6 DEF Orderly
<1> QED
  BY <1>1, <1>4, <1>5

\* F_HRENAM: the FAB takes the name along.
LEMMA RenameHandleFiles == ASSUME IInv, Orderly, F_HRENAM PROVE Orderly'
<1>1. PICK g \in Handle, nm \in Names :
        LET f == vec[HANDLES][g] IN
        /\ pc = "idle" /\ Open(g)
        /\ ~fab[f].dead /\ Located(fab[f].name) # {}
        /\ REN_FIB(f, EntryOf(f), nm)
        /\ dir' = [Updated(f) EXCEPT ![EntryOf(f)].name = nm]
        /\ fab' = [fab EXCEPT ![f].name = nm, ![f].modified = FALSE, ![f].slot = EntryOf(f)]
        /\ UNCHANGED <<counts, waived>>
  BY Zenon DEF F_HRENAM
<1> DEFINE f == vec[HANDLES][g]
           s == fab[f].slot
<1>2. f \in FAB_CHAIN /\ f \in Fabs
  BY <1>1, OpenFabInUse
<1>3. /\ Directory(dir) /\ FabsType /\ CountsType /\ AllThere /\ fab \in [Fabs -> Fab]
      /\ fab[f] \in Fab /\ Sane(fab[f]) /\ There(dir, fab[f])
  BY <1>2 DEF Orderly, FabsType, AllThere, IInv
<1>4. s # Device
  BY <1>1, <1>2, <1>3, NoDeviceEntry
<1>14. ~fab[f].dead
  BY <1>1
<1>5. s \in Slots /\ dir[s] # Free /\ EntryOf(f) = s /\ Updated(f) = dir
  BY <1>2, <1>3, <1>4, <1>14, OwnEntry
<1>6. /\ dir' = [dir EXCEPT ![s] = [dir[s] EXCEPT !.name = nm]]
      /\ Located(nm) = {} /\ ~FAB_SCAN(f, s) /\ FAB_CHAIN' = FAB_CHAIN /\ waived' = waived
      /\ fab' = [fab EXCEPT ![f].name = nm, ![f].modified = FALSE, ![f].slot = s]
  <2>1. /\ REN_FIB(f, EntryOf(f), nm) /\ UNCHANGED <<counts, waived>>
        /\ dir' = [Updated(f) EXCEPT ![EntryOf(f)].name = nm]
        /\ fab' = [fab EXCEPT ![f].name = nm, ![f].modified = FALSE, ![f].slot = EntryOf(f)]
    BY <1>1
  <2> HIDE DEF f, s
  <2> QED
    BY <1>3, <1>5, <2>1 DEF REN_FIB, Directory
<1>7. dir[s] = [name |-> fab[f].name, file |-> fab[f].file] /\ fab[f].file \in Numbers
  BY <1>3, <1>4, <1>14 DEF There, Sane
<1> HIDE DEF f, s
<1>8. /\ fab'[f].slot = s /\ fab'[f].name = nm /\ fab'[f].file = fab[f].file
      /\ fab'[f] \in Fab /\ \A h \in Fabs \ {f} : fab'[h] = fab[h]
      /\ fab' \in [Fabs -> Fab]
  <2> DEFINE e == [[[fab[f] EXCEPT !.name = nm] EXCEPT !.modified = FALSE] EXCEPT !.slot = s]
  <2>1. e \in Fab /\ e.slot = s /\ e.name = nm /\ e.file = fab[f].file
    BY <1>3, <1>5 DEF Fab
  <2>2. fab' = [fab EXCEPT ![f] = e]
    BY <1>2, <1>3, <1>6
  <2> HIDE DEF e
  <2> QED
    BY <1>2, <1>3, <2>1, <2>2
<1>9. /\ dir'[s] = [name |-> nm, file |-> fab[f].file]
      /\ \A t \in Slots \ {s} : dir'[t] = dir[t]
  BY <1>3, <1>5, <1>6, <1>7 DEF Directory
<1>10. Directory(dir)'
  <2>1. dir' \in [Slots -> Entry \cup {Free}]
    BY <1>3, <1>5, <1>6, <1>7 DEF Directory, Entry
  <2>2. \A t \in Slots \ {s} : dir[t] # Free => dir[t].name # nm
    BY <1>6 DEF Located
  <2> QED
    BY <1>3, <1>9, <2>1, <2>2 DEF Directory, UniqueNames
<1>11. FabsType'
  BY <1>3, <1>4, <1>6, <1>7, <1>8 DEF FabsType, Sane
<1>12. AllThere'
  <2>1. There(dir', fab'[f])
    BY <1>8, <1>9 DEF There
  <2>2. ASSUME NEW h \in FAB_CHAIN \ {f} PROVE There(dir', fab'[h])
    <3>1. fab[h].slot # s /\ fab'[h] = fab[h] /\ There(dir, fab[h]) /\ fab[h] \in Fab
      BY <1>3, <1>6, <1>8 DEF FAB_SCAN, AllThere, CountsType
    <3> QED
      BY <1>9, <3>1 DEF There, Fab
  <2> QED
    BY <1>6, <2>1, <2>2 DEF AllThere
<1>13. \A h \in Fabs \ FAB_CHAIN' : ~Owed(h)'
  BY <1>2, <1>6, <1>8 DEF Owed, Orderly
<1> QED
  BY <1>10, <1>11, <1>12, <1>13 DEF Orderly

\* F_DELETE and F_RENAME leave alone what is open.
LEMMA NameFiles == ASSUME IInv, Orderly, F_DELETE \/ F_RENAME PROVE Orderly'
<1>0. Directory(dir) /\ FabsType /\ CountsType /\ UNCHANGED <<fab, FAB_CHAIN, waived>>
  BY DEF Orderly, IInv, F_DELETE, F_RENAME
<1>1. PICK s \in Slots :
        /\ dir[s] # Free /\ ~FAB_SCAN(Null, s)
        /\ \/ dir' = [dir EXCEPT ![s] = Free]
           \/ \E nm \in Names : Located(nm) = {} /\ dir' = [dir EXCEPT ![s].name = nm]
  <2>1. CASE F_DELETE
    BY <2>1 DEF F_DELETE
  <2>2. CASE F_RENAME
    BY <2>2 DEF F_RENAME, REN_FIB
  <2> QED
    BY <2>1, <2>2
<1>2. \A t \in Slots \ {s} : dir'[t] = dir[t]
  BY <1>0, <1>1 DEF Directory
<1>3. Directory(dir)'
  <2>1. CASE dir' = [dir EXCEPT ![s] = Free]
    BY <1>0, <2>1 DEF Directory, UniqueNames
  <2>2. ASSUME NEW nm \in Names, Located(nm) = {}, dir' = [dir EXCEPT ![s].name = nm]
        PROVE  Directory(dir)'
    <3>1. dir[s] \in Entry /\ dir \in [Slots -> Entry \cup {Free}]
      BY <1>0, <1>1 DEF Directory
    <3>2. [dir[s] EXCEPT !.name = nm] \in Entry /\ [dir[s] EXCEPT !.name = nm].name = nm
      BY <3>1 DEF Entry
    <3>3. dir' \in [Slots -> Entry \cup {Free}] /\ dir'[s].name = nm
      BY <2>2, <3>1, <3>2
    <3>4. \A t \in Slots \ {s} : dir[t] # Free => dir[t].name # nm
      BY <2>2 DEF Located
    <3> QED
      BY <1>0, <1>2, <3>3, <3>4 DEF Directory, UniqueNames
  <2> QED
    BY <1>1, <2>1, <2>2
<1>4. \A f \in FAB_CHAIN : fab[f].slot # s
  BY <1>0, <1>1 DEF FAB_SCAN, CountsType
<1>5. \A f \in FAB_CHAIN : There(dir', fab[f])
  BY <1>0, <1>2, <1>4, EntryStep
<1> QED
  BY <1>0, <1>3, <1>5 DEF Orderly, FabsType, AllThere, Owed

\* The loops of F_FORK and of F_MAPDRV, and the default handles.
LEMMA LoopFiles ==
  ASSUME IInv, Orderly,
         \/ F_DUP \/ F_FORK \/ Inherit \/ ForkDone \/ OpenDefault \/ DefaultsDone
         \/ MAP_UNMAP \/ CLOSE_HANDLES \/ HandlesClosed \/ Remap
  PROVE  Orderly'
<1>1. CASE F_DUP \/ F_FORK \/ Inherit \/ ForkDone
  BY <1>1, RestStep DEF F_DUP, F_FORK, Inherit, ForkDone
<1>2. CASE DefaultsDone \/ MAP_UNMAP \/ HandlesClosed \/ Remap
  BY <1>2, RestStep DEF DefaultsDone, MAP_UNMAP, HandlesClosed, Remap
<1>3. CASE OpenDefault
  <2>1. dir' = dir /\ CountsType
    BY <1>3 DEF OpenDefault, IInv
  <2>2. CASE OpenDevice(TRUE)
    <3> DEFINE r == [DeviceFab EXCEPT !.inherit = TRUE]
    <3>1. r \in Fab /\ Sane(r) /\ There(dir, r)
      BY DEF Fab, Sane, There, DeviceFab
    <3>2. OpenFab(r) /\ Directory(dir)'
      BY <2>1, <2>2 DEF OpenDevice, Orderly, Directory, UniqueNames
    <3> HIDE DEF r
    <3> QED
      BY <2>1, <3>1, <3>2, NewFabStep DEF Orderly, AllThere
  <2>3. CASE UNCHANGED <<vec, counts, fab, waived>>
    BY <2>1, <2>3, RestStep
  <2> QED
    BY <1>3, <2>2, <2>3 DEF OpenDefault
<1>4. CASE CLOSE_HANDLES
  <2> DEFINE f == vec[HANDLES][b]
  <2>1. CASE f # Null /\ CLOSE_FAB(b) /\ EnsuredOrAborted(f)
    <3>1. b \in Handle /\ Open(b) /\ pc # "dec"
      BY <1>4, <2>1 DEF CLOSE_HANDLES, IInv, CountsType, Loops, Open
    <3>2. f \in FAB_CHAIN
      BY <3>1, OpenFabInUse
    <3>3. FAB_CHAIN' \in {FAB_CHAIN, FAB_CHAIN \ {f}}
      BY <2>1 DEF CLOSE_FAB, DEC_FAB_REF
    <3> QED
      BY <2>1, <3>2, <3>3, EnsureStep DEF IInv
  <2>2. CASE UNCHANGED <<counts, files, waived>>
    BY <2>2, RestStep
  <2> QED
    BY <1>4, <2>1, <2>2 DEF CLOSE_HANDLES, EnsuredOrAborted
<1> QED
  BY <1>1, <1>2, <1>3, <1>4

-----------------------------------------------------------------------------
(* F_JOIN. *)

LEMMA JoinFiles == ASSUME IInv, Orderly, F_JOIN PROVE FInv'
<1>1. /\ pc = "idle" /\ pc' \in {"dec", "ensure"} /\ v' = HANDLES
      /\ UNCHANGED <<vec, counts, files, waived>>
  BY DEF F_JOIN
<1>2. ASSUME NEW p \in Process, NEW g \in Handle, p <= HANDLES, vec[p][g] # Null
      PROVE  There(dir, fab[vec[p][g]])
  BY <1>1, <1>2, OpenInUse DEF Orderly, AllThere
<1>3. FreedThere'
  BY <1>1, <1>2 DEF FreedThere
<1>4. Orderly'
  BY <1>1, RestStep
<1> QED
  BY <1>3, <1>4 DEF FInv, Orderly, NoneOwed

\* A FAB that is freed in the first loop is dealt with in the second.
LEMMA DereferenceFiles == ASSUME IInv, Limits, FInv, Dereference PROVE FInv'
<1>1. /\ pc = "dec" /\ pc' = pc /\ b \in Handle /\ HANDLES \in Process /\ b' = b + 1
      /\ UNCHANGED <<HANDLES, vec, files, v, waived>>
  BY DEF Dereference, IInv, CountsType, Loops
<1>2. FAB_CHAIN' \subseteq FAB_CHAIN /\ \A f \in FAB_CHAIN \ FAB_CHAIN' : f = vec[HANDLES][b]
  BY DEF Dereference, DEC_FAB_REF
<1>3. Directory(dir)' /\ FabsType' /\ AllThere' /\ FreedThere'
  BY <1>1, <1>2 DEF FInv, Directory, UniqueNames, FabsType, AllThere, FreedThere
<1>4. ASSUME NEW f \in Fabs \ FAB_CHAIN', Owed(f)'
      PROVE  \E p \in Process, g \in Handle : ToEnsure(p, g)' /\ vec'[p][g] = f
  <2>1. CASE f \in FAB_CHAIN
    <3>1. PICK p \in Process, g \in Handle : p = HANDLES /\ g = b /\ vec[p][g] = f
      BY <1>1, <1>2, <1>4, <2>1
    <3>2. HANDLES <= v
      BY <1>1 DEF Limits
    <3>3. ToEnsure(p, g)'
      BY <1>1, <3>1, <3>2 DEF ToEnsure
    <3> QED
      BY <1>1, <3>1, <3>3
  <2>2. CASE f \notin FAB_CHAIN
    <3>1. Owed(f)
      BY <1>1, <1>4 DEF Owed
    <3>2. PICK p \in Process, g \in Handle : ToEnsure(p, g) /\ vec[p][g] = f
      BY <1>4, <2>2, <3>1 DEF FInv, NoneOwed
    <3>3. ToEnsure(p, g)'
      BY <1>1, <3>2 DEF ToEnsure
    <3> QED
      BY <1>1, <3>2, <3>3
  <2> QED
    BY <2>1, <2>2
<1> QED
  BY <1>3, <1>4 DEF FInv, NoneOwed

LEMMA NextProcessFiles == ASSUME IInv, Limits, FInv, NextProcess PROVE FInv'
<1>1. /\ pc = "dec" /\ pc' \in {"dec", "ensure"} /\ b' = 0 /\ b = MAX_FILE_HANDLES
      /\ HANDLES \in Process /\ HANDLES' = HANDLES - 1
      /\ UNCHANGED <<vec, counts, files, v, waived>>
  BY DEF NextProcess, IInv, CountsType, Loops
<1>2. Directory(dir)' /\ FabsType' /\ AllThere' /\ FreedThere'
  BY <1>1 DEF FInv, Directory, UniqueNames, FabsType, AllThere, FreedThere
<1>3. ASSUME NEW p \in Process, NEW g \in Handle, ToEnsure(p, g)
      PROVE  ToEnsure(p, g)'
  BY <1>1, <1>3 DEF ToEnsure, Limits
<1>4. NoneOwed'
  BY <1>1, <1>3 DEF FInv, NoneOwed, Owed
<1> QED
  BY <1>2, <1>4 DEF FInv

\* The second loop: the entries it updates are those of the FABs still.
LEMMA EnsureFreedFiles == ASSUME IInv, Limits, FInv, EnsureFreed PROVE FInv'
<1> DEFINE f == vec[v][b]
<1>1. /\ pc = "ensure" /\ pc' = pc /\ v \in Process /\ b \in Handle /\ v > HANDLES
      /\ IF f = Null THEN UNCHANGED files ELSE Ensured(f)
      /\ IF b + 1 < MAX_FILE_HANDLES THEN b' = b + 1 /\ v' = v ELSE b' = 0 /\ v' = v - 1
      /\ UNCHANGED <<HANDLES, vec, counts, waived>>
  BY DEF EnsureFreed, IInv, CountsType, Limits
<1>2. /\ Directory(dir) /\ FabsType /\ f \in Fabs \cup {Null} /\ FAB_CHAIN \subseteq Fabs
      /\ vec \in [Process -> [Handle -> Fabs \cup {Null}]] /\ HANDLES \in Nat /\ v \in Nat
  BY <1>1 DEF FInv, IInv, CountsType
<1>3. /\ Directory(dir)' /\ FabsType'
      /\ \A h \in Fabs : There(dir, fab[h]) => There(dir', fab'[h])
      /\ \A h \in Fabs : Owed(h)' => Owed(h) /\ h # f
  <2>1. CASE f = Null
    <3>1. dir' = dir /\ fab' = fab /\ waived' = waived
      BY <1>1, <2>1
    <3> QED
      BY <1>2, <2>1, <3>1 DEF Directory, UniqueNames, FabsType, Owed
  <2>2. CASE f # Null
    <3>1. f \in Fabs /\ Ensured(f) /\ waived' = waived
      BY <1>1, <1>2, <2>2
    <3>2. There(dir, fab[f])
      BY <1>1, <2>2 DEF FInv, FreedThere
    <3> HIDE DEF f
    <3>3. UpToDate(f)
      BY <1>2, <3>1, <3>2, EnsuredKeeps
    <3>4. /\ \A h \in Fabs : There(dir', fab'[h]) <=> There(dir, fab[h])
          /\ \A h \in Fabs : Sane(fab'[h])
          /\ \A h \in Fabs : fab'[h].modified /\ ~fab'[h].dead
                                => h # f /\ fab[h].modified /\ ~fab[h].dead
      BY <1>2, <3>1, <3>3, UpToDateKeeps
    <3> QED
      BY <1>2, <3>1, <3>3, <3>4 DEF Directory, UniqueNames, FabsType, Owed, UpToDate
  <2> QED
    BY <2>1, <2>2
<1>4. AllThere'
  BY <1>1, <1>2, <1>3 DEF FInv, AllThere
<1>5. FreedThere'
  <2>1. v' <= v /\ v' \in Nat
    BY <1>1, <1>2
  <2> SUFFICES ASSUME NEW p \in Process, NEW g \in Handle, p <= v', vec[p][g] # Null
               PROVE  There(dir', fab'[vec[p][g]])
    BY <1>1 DEF FreedThere
  <2>2. p <= v /\ vec[p][g] \in Fabs
    BY <1>2, <2>1
  <2>3. There(dir, fab[vec[p][g]])
    BY <1>1, <2>2 DEF FInv, FreedThere
  <2> QED
    BY <1>3, <2>2, <2>3
<1>6. ASSUME NEW h \in Fabs \ FAB_CHAIN', Owed(h)'
      PROVE  \E p \in Process, g \in Handle : ToEnsure(p, g)' /\ vec'[p][g] = h
  <2>1. Owed(h) /\ h # f /\ h \in Fabs \ FAB_CHAIN
    BY <1>1, <1>3, <1>6
  <2>2. PICK p \in Process, g \in Handle : ToEnsure(p, g) /\ vec[p][g] = h
    BY <2>1 DEF FInv, NoneOwed
  <2>3. ~(p = v /\ g = b)
    BY <2>1, <2>2
  <2>4. ToEnsure(p, g)'
    BY <1>1, <1>2, <2>2, <2>3 DEF ToEnsure
  <2> QED
    BY <1>1, <2>2, <2>4
<1> QED
  BY <1>3, <1>4, <1>5, <1>6 DEF FInv, NoneOwed

\* ABORT: the user is told, and what is still owed is waived.
LEMMA JoinAbortedFiles == ASSUME IInv, FInv, JoinAborted PROVE Orderly'
<1>1. FAB_CHAIN' = FAB_CHAIN /\ Aborted /\ UNCHANGED files /\ FAB_CHAIN \subseteq Fabs
  BY DEF JoinAborted, IInv, CountsType
<1>2. Directory(dir)' /\ FabsType' /\ AllThere'
  BY <1>1 DEF FInv, Directory, UniqueNames, FabsType, AllThere, Aborted
<1>3. \A f \in Fabs \ FAB_CHAIN' : ~Owed(f)'
  BY <1>1 DEF Aborted, Owed
<1> QED
  BY <1>2, <1>3 DEF Orderly

\* With all vectors gone through nothing is owed.
LEMMA JoinDoneFiles == ASSUME IInv, Limits, FInv, JoinDone PROVE Orderly'
<1>1. pc = "ensure" /\ v = HANDLES /\ UNCHANGED <<counts, files, waived>>
  BY DEF JoinDone
<1>2. \A p \in Process, g \in Handle : ~ToEnsure(p, g)
  BY <1>1 DEF ToEnsure, IInv, CountsType
<1>3. Orderly
  BY <1>2 DEF FInv, Orderly, NoneOwed
<1> QED
  BY <1>1, <1>3, RestStep

-----------------------------------------------------------------------------
FilesInv == IInv /\ Limits /\ FInv

LEMMA InitFiles == ASSUME Init PROVE FilesInv
<1>1. IInv
  BY InitIInv
<1>2. Limits
  BY DEF Init, Limits
<1>3. DeviceFab \in Fab /\ Sane(DeviceFab) /\ ~DeviceFab.modified
  BY DEF DeviceFab, Fab, Sane
<1>4. FabsType /\ \A f \in Fabs : ~Owed(f)
  BY <1>3 DEF Init, FabsType, Owed
<1>5. Directory(dir) /\ AllThere
  BY DEF Init, Directory, UniqueNames, AllThere
<1>6. pc \notin {"dec", "ensure"} /\ Orderly
  BY <1>4, <1>5 DEF Init, Orderly
<1> QED
  BY <1>1, <1>2, <1>6, OrderlyIsAll DEF FilesInv

LEMMA StepFiles == ASSUME FilesInv, [Next]_vars PROVE FilesInv'
<1>0. IInv /\ Limits /\ FInv
  BY DEF FilesInv
<1>1. IInv' /\ Limits'
  BY <1>0, StepIInv, LimitsStep
<1> SUFFICES FInv'
  BY <1>1 DEF FilesInv
<1>2. Orderly' /\ pc' \notin {"dec", "ensure"} => FInv'
  BY DEF FInv, Orderly, FreedThere, NoneOwed, ToEnsure
<1>3. CASE \/ F_OPEN \/ F_CREATE \/ F_WRITE \/ F_ENSURE \/ F_CLOSE
           \/ F_HDELET \/ F_HRENAM \/ F_DELETE \/ F_RENAME
  <2>1. pc = "idle" /\ pc' = pc
    <3>1. CASE F_OPEN \/ F_CREATE \/ F_WRITE \/ F_ENSURE \/ F_CLOSE
      BY <3>1, Zenon DEF F_OPEN, F_CREATE, F_WRITE, F_ENSURE, F_CLOSE
    <3>2. CASE F_HDELET \/ F_HRENAM \/ F_DELETE \/ F_RENAME
      BY <3>2, Zenon DEF F_HDELET, F_HRENAM, F_DELETE, F_RENAME
    <3> QED
      BY <1>3, <3>1, <3>2
  <2>2. Orderly
    BY <1>0, <2>1, OrderlyIsAll
  <2>3. Orderly'
    <3>1. CASE F_OPEN \/ F_CREATE \/ F_WRITE \/ F_ENSURE \/ F_CLOSE
      BY <1>0, <2>2, <3>1, OpenFiles, CreateFiles, WriteFiles, EnsureFiles, CloseFiles
    <3>2. CASE F_HDELET \/ F_HRENAM \/ F_DELETE \/ F_RENAME
      BY <1>0, <2>2, <3>2, DeleteHandleFiles, RenameHandleFiles, NameFiles
    <3> QED
      BY <1>3, <3>1, <3>2
  <2> QED
    BY <1>2, <2>1, <2>3
<1>4. CASE \/ F_DUP \/ F_FORK \/ Inherit \/ ForkDone \/ OpenDefault \/ DefaultsDone
           \/ MAP_UNMAP \/ CLOSE_HANDLES \/ HandlesClosed \/ Remap
  <2>1. pc \notin {"dec", "ensure"} /\ pc' \notin {"dec", "ensure"}
    BY <1>4 DEF F_DUP, F_FORK, Inherit, ForkDone, OpenDefault, DefaultsDone,
                MAP_UNMAP, CLOSE_HANDLES, HandlesClosed, Remap
  <2>2. Orderly'
    BY <1>0, <1>4, <2>1, OrderlyIsAll, LoopFiles
  <2> QED
    BY <1>2, <2>1, <2>2
<1>5. CASE F_JOIN
  <2>1. Orderly
    BY <1>0, <1>5, OrderlyIsAll DEF F_JOIN
  <2> QED
    BY <1>0, <1>5, <2>1, JoinFiles
<1>6. CASE Dereference \/ NextProcess \/ EnsureFreed
  BY <1>0, <1>6, DereferenceFiles, NextProcessFiles, EnsureFreedFiles
<1>7. CASE JoinAborted \/ JoinDone
  <2>1. pc' \notin {"dec", "ensure"}
    BY <1>7 DEF JoinAborted, JoinDone
  <2> QED
    BY <1>0, <1>2, <1>7, <2>1, JoinAbortedFiles, JoinDoneFiles
<1>8. CASE UNCHANGED vars
  <2>1. Directory(dir)' /\ FabsType' /\ AllThere'
    BY <1>0, <1>8 DEF FInv, Directory, UniqueNames, FabsType, AllThere
  <2>2. FreedThere'
    BY <1>0, <1>8 DEF FInv, FreedThere
  <2>3. NoneOwed'
    BY <1>0, <1>8 DEF FInv, NoneOwed, Owed, ToEnsure
  <2> QED
    BY <2>1, <2>2, <2>3 DEF FInv
<1> QED
  BY <1>3, <1>4, <1>5, <1>6, <1>7, <1>8 DEF Next

\* Every loop over handles, vectors and default devices stays within its bound
\* and no use count passes MaxReferences, in every reachable state.
THEOREM HandlesTypeCorrect == Spec => []TypeOK
<1>1. FilesInv => TypeOK
  BY DEF FilesInv, IInv, CountsType, Loops, Limits, FInv, FabsType, Directory, TypeOK
<1> QED
  BY <1>1, InitFiles, StepFiles, PTL DEF Spec

\* The entry of an open file is its own whatever is created, renamed or deleted
\* by name or by handle, in any process (FAB_SCAN, REN_FIB, ENSURE_FAB).
THEOREM OpenFilesKept == Spec => []OpenFileThere
<1>1. FilesInv => OpenFileThere
  BY DEF FilesInv, FInv, AllThere, There, OpenFileThere
<1> QED
  BY <1>1, InitFiles, StepFiles, PTL DEF Spec

\* What was written through a handle is entered in the directory by the time its
\* FAB is gone, also for the FABs F_JOIN frees before it goes to the disk.
THEOREM WritesAreEntered == Spec => []NoWriteForgotten
<1>1. FilesInv => NoWriteForgotten
  BY OrderlyIsAll DEF FilesInv, Orderly, Owed, NoWriteForgotten
<1> QED
  BY <1>1, InitFiles, StepFiles, PTL DEF Spec
=============================================================================
