---------------------------- MODULE FatAllocProofs ----------------------------
(* The allocation hint of FatAlloc is sound, and its chains are the files'   *)
(* own, for every size of disk, number of files, split of the FAT into       *)
(* sectors and number of ABORT answers.                                      *)
EXTENDS FatAlloc, ProofLemmas

\* The search has looked at every cluster up to cur: only the one it took last
\* is still marked free.
Searched == \A c \in Clusters : c <= cur /\ fat[c] = 0 => c = prev

\* The clusters taken so far lie below the search.
Taken == /\ prev # EOC => FAT_CHAIN \in Clusters /\ FAT_CHAIN <= cur
         /\ prev = EOC => FAT_CHAIN = EOC

\* HintSound, strengthened to what holds in the middle of a request.
HintInv ==
    /\ pc \in {"scan", "end"} => Taken
    /\ pc = "end" => prev # EOC
    /\ pc = "link" => FAT_CHAIN \in Clusters
    /\ pc = "scan" => want \in Nat \ {0}
    /\ pc = "free" => FAT_CHAIN <= de
    /\ trusted =>
         /\ pc \in {"idle", "link", "cut", "scan", "end"} => NoFreeBelow(aclu)
         /\ pc \in {"scan", "end"} => aclu <= cur /\ Searched
         /\ pc = "free" => /\ FAT_CHAIN # 0
                           /\ \A c \in Clusters : c <= aclu /\ fat[c] = 0 => c >= FAT_CHAIN

IInv == TypeOK /\ HintInv

USE FatAssumption DEF Entries, Clusters, Links

\* A FAT entry that is looked up is a link, also when the number is no entry.
LEMMA LookupType == ASSUME TypeOK, NEW c PROVE FAT_LOOKUP(c) \in Links
  BY DEF TypeOK, FAT_LOOKUP

\* Setting an entry to a link keeps the FAT a FAT and changes no other entry.
LEMMA SetType ==
  ASSUME TypeOK, NEW c, NEW v \in Links
  PROVE  /\ FAT_SET(c, v) \in [Entries -> Links]
         /\ \A x \in Entries : FAT_SET(c, v)[x] = IF x = c THEN v ELSE fat[x]
  BY DEF TypeOK, FAT_SET

\* A walk along a chain ends in a link.
LEMMA WalkType == ASSUME TypeOK, NEW f \in Files, NEW n PROVE LOG_PHYS_CLU(f, n) \in Links
  BY LookupType DEF TypeOK, LOG_PHYS_CLU

LEMMA InitIInv == Init => IInv
  BY DEF Init, IInv, TypeOK, HintInv, NoFreeBelow

-----------------------------------------------------------------------------
(* Every action preserves the types. *)

\* What starting FR_CHAIN leaves behind.
LEMMA StartFreeType ==
  ASSUME TypeOK, NEW c \in Clusters \cup {0}, NEW ret \in {"full", "cut", "gone"},
         StartFree(c, ret), trusted' \in BOOLEAN,
         req' \in [file : Files, clusters : Nat, last : Links]
  PROVE  TypeOK'
  BY DEF TypeOK, StartFree, alloc, file

LEMMA TypeStep == ASSUME IInv, [Next]_vars PROVE TypeOK'
<1> USE DEF IInv, HintInv
<1>1. CASE Extend
  BY <1>1 DEF TypeOK, Extend, free, file, history
<1>2. ASSUME NEW f \in Files, NEW n \in 1..size[f],
             req' = [file |-> f, clusters |-> n, last |-> LOG_PHYS_CLU(f, n - 1)],
             LET tail == FAT_LOOKUP(LOG_PHYS_CLU(f, n - 1)) IN
             IF tail # EOC
             THEN StartFree(tail, "cut") /\ trusted' = (trusted /\ tail # 0)
             ELSE /\ pc' = "cut"
                  /\ UNCHANGED <<fat, medium, aclu, FAT_CHAIN, alloc, free, file, history>>
      PROVE  TypeOK'
  <2> DEFINE tail == FAT_LOOKUP(LOG_PHYS_CLU(f, n - 1))
  <2>1. req' \in [file : Files, clusters : Nat, last : Links]
    BY <1>2, WalkType DEF TypeOK
  <2>2. tail \in Links
    BY LookupType
  <2>3. CASE tail # EOC
    BY <1>2, <2>1, <2>2, <2>3, StartFreeType DEF TypeOK
  <2>4. CASE tail = EOC
    BY <1>2, <2>1, <2>4 DEF TypeOK, alloc, free, file, history
  <2> QED
    BY <2>3, <2>4
<1>3. CASE Truncate
  BY <1>2, <1>3 DEF Truncate
<1>4. CASE EmptyFile
  <2> PICK f \in Files : /\ req' = [file |-> f, clusters |-> 0, last |-> EOC]
                         /\ StartFree(head[f], "gone") /\ UNCHANGED trusted
    BY <1>4 DEF EmptyFile
  <2>1. head[f] \in Clusters \cup {0}
    BY DEF TypeOK
  <2>2. req' \in [file : Files, clusters : Nat, last : Links]
    OBVIOUS
  <2> QED
    BY <2>1, <2>2, StartFreeType DEF TypeOK
<1>5. CASE ScanUsed
  BY <1>5 DEF TypeOK, ScanUsed, free, file, history
<1>6. CASE ScanFree
  BY <1>6, SetType DEF TypeOK, ScanFree, free, file, history
<1>7. CASE DiskFull
  <2>1. CASE FAT_CHAIN = EOC
    BY <1>7, <2>1 DEF TypeOK, DiskFull, alloc, free, file
  <2>2. CASE FAT_CHAIN # EOC
    BY <1>7, <2>2 DEF TypeOK, DiskFull, alloc, free, file
  <2> QED
    BY <2>1, <2>2
<1>8. CASE EndChain
  BY <1>8, SetType DEF TypeOK, EndChain, Taken, alloc, free, file, history
<1>9. CASE Link
  <2>1. fat' \in [Entries -> Links]
    BY <1>9, SetType DEF TypeOK, Link
  <2>2. head' \in [Files -> Clusters \cup {0}]
    BY <1>9 DEF TypeOK, Link
  <2>3. size' \in [Files -> Nat]
    BY <1>9 DEF TypeOK, Link
  <2> QED
    BY <1>9, <2>1, <2>2, <2>3 DEF TypeOK, Link, alloc, free, history
<1>10. CASE FreeStep
  BY <1>10, SetType, LookupType DEF TypeOK, FreeStep, LowestFreed, alloc, file, history
<1>11. CASE FreeLast
  <2>1. fat' \in [Entries -> Links]
    BY <1>11, SetType DEF TypeOK, FreeLast, LoweredHint
  <2>2. aclu' \in 1..UD_CLUSTER_COUNT
    BY <1>11 DEF TypeOK, FreeLast, LoweredHint
  <2>3. trusted' \in BOOLEAN
    BY <1>11 DEF TypeOK, FreeLast, LoweredHint
  <2>4. head' \in [Files -> Clusters \cup {0}] /\ size' \in [Files -> Nat]
    BY <1>11 DEF TypeOK, FreeLast, LoweredHint, file
  <2>5. pc' \in {"cut", "idle"}
    BY <1>11 DEF FreeLast, LoweredHint
  <2> QED
    BY <1>11, <2>1, <2>2, <2>3, <2>4, <2>5 DEF TypeOK, FreeLast, LoweredHint, alloc, free
<1>12. CASE Cut
  BY <1>12, SetType DEF TypeOK, Cut, alloc, free, history
<1>13. CASE WriteBack
  BY <1>13 DEF TypeOK, WriteBack, alloc, free, file, history
<1>14. CASE WriteAbsolute
  BY <1>14 DEF TypeOK, WriteAbsolute, alloc, free, file
<1>15. CASE Abort
  BY <1>15 DEF TypeOK, Abort, alloc, free, file
<1>16. CASE UNCHANGED vars
  BY <1>16 DEF TypeOK, vars
<1> QED
  BY <1>1, <1>3, <1>4, <1>5, <1>6, <1>7, <1>8, <1>9, <1>10, <1>11, <1>12, <1>13,
     <1>14, <1>15, <1>16 DEF Next, Running

-----------------------------------------------------------------------------
(* Every action preserves the hint. *)

\* Entries other than c are untouched, and c gets a value that is not free.
LEMMA SetUsed ==
  ASSUME TypeOK, NEW c, NEW v \in Links \ {0}, NEW n, NoFreeBelow(n), fat' = FAT_SET(c, v)
  PROVE  \A x \in Clusters : x <= n => fat'[x] # 0
  BY SetType DEF NoFreeBelow

LEMMA HintStep == ASSUME IInv, TypeOK', [Next]_vars PROVE HintInv'
<1> USE DEF IInv, HintInv
<1>1. CASE Extend
  BY <1>1 DEF TypeOK, Extend, Taken, Searched, NoFreeBelow, free, file, history
<1>2. ASSUME NEW c, NEW ret, pc = "idle", StartFree(c, ret),
             trusted' => trusted /\ c # 0
      PROVE  HintInv'
  BY <1>2 DEF TypeOK, StartFree, NoFreeBelow, alloc, file
<1>3. CASE Truncate
  <2>1. CASE pc' = "cut"
    BY <1>3, <2>1 DEF Truncate, StartFree, NoFreeBelow, alloc, free, file, history
  <2>2. CASE pc' # "cut"
    BY <1>2, <1>3, <2>2 DEF Truncate
  <2> QED
    BY <2>1, <2>2
<1>4. CASE EmptyFile
  BY <1>2, <1>4 DEF EmptyFile
<1>5. CASE ScanUsed
  BY <1>5 DEF TypeOK, ScanUsed, Taken, Searched, NoFreeBelow, free, file, history
<1>6. CASE ScanFree
  BY <1>6, SetType DEF TypeOK, ScanFree, Taken, Searched, NoFreeBelow, free, file, history
<1>7. CASE DiskFull
  BY <1>7 DEF TypeOK, DiskFull, Taken, Searched, NoFreeBelow, alloc, free, file
<1>8. CASE EndChain
  <2>1. /\ pc' = "link" /\ aclu' = FAT_CHAIN /\ FAT_CHAIN' = FAT_CHAIN
        /\ FAT_CHAIN \in Clusters /\ FAT_CHAIN <= cur /\ trusted' = trusted
    BY <1>8 DEF EndChain, Taken, history
  <2>2. \A x \in Entries : fat'[x] = IF x = prev THEN EOC ELSE fat[x]
    BY <1>8, SetType DEF EndChain
  <2>3. ASSUME trusted, NEW x \in Clusters, x <= FAT_CHAIN PROVE fat'[x] # 0
    BY <1>8, <2>1, <2>2, <2>3 DEF TypeOK, EndChain, Searched
  <2> QED
    BY <2>1, <2>3 DEF NoFreeBelow
<1>9. CASE Link
  <2>1. pc' = "idle" /\ aclu' = aclu /\ trusted' = trusted
    BY <1>9 DEF Link, history
  <2>2. FAT_CHAIN \in Links \ {0}
    BY <1>9 DEF Link
  <2>3. ASSUME trusted PROVE \A x \in Clusters : x <= aclu => fat'[x] # 0
    <3>1. NoFreeBelow(aclu)
      BY <1>9, <2>3 DEF Link
    <3>2. CASE fat' = fat
      BY <3>1, <3>2 DEF NoFreeBelow
    <3>3. CASE \E last : fat' = FAT_SET(last, FAT_CHAIN)
      BY <2>2, <3>1, <3>3, SetUsed
    <3> QED
      BY <1>9, <3>2, <3>3 DEF Link
  <2> QED
    BY <2>1, <2>3 DEF NoFreeBelow
<1>10. CASE FreeStep
  <2>1. /\ pc = "free" /\ pc' = "free" /\ aclu' = aclu /\ trusted' = trusted
        /\ de' \in Clusters /\ FAT_CHAIN' = LowestFreed(de')
    BY <1>10, LookupType DEF FreeStep, history
  <2>2. \A x \in Entries : fat'[x] = IF x = de THEN 0 ELSE fat[x]
    BY <1>10, SetType DEF FreeStep
  <2>3. FAT_CHAIN' <= de' /\ FAT_CHAIN' <= FAT_CHAIN
    BY <2>1 DEF TypeOK, LowestFreed
  <2>4. trusted => FAT_CHAIN' # 0
    BY <2>1 DEF LowestFreed
  <2>5. ASSUME trusted, NEW c \in Clusters, c <= aclu, fat'[c] = 0 PROVE c >= FAT_CHAIN'
    BY <2>1, <2>2, <2>3, <2>5 DEF TypeOK
  <2> QED
    BY <2>1, <2>3, <2>4, <2>5
<1>11. CASE FreeLast
  <2>1. \A x \in Entries : fat'[x] = IF x = de THEN 0 ELSE fat[x]
    BY <1>11, SetType DEF FreeLast, LoweredHint
  <2>2. pc' \in {"idle", "cut"}
    BY <1>11 DEF FreeLast, LoweredHint
  <2>3. CASE after = "full"
    BY <1>11, <2>2, <2>3 DEF FreeLast, LoweredHint, NoFreeBelow
  <2>4. CASE after # "full"
    <3>1. trusted' => trusted
      BY <1>11, <2>4 DEF FreeLast, LoweredHint
    <3>2. ASSUME trusted PROVE NoFreeBelow(aclu)'
      <4>1. FAT_CHAIN \in Clusters /\ FAT_CHAIN <= de
        BY <1>11, <3>2 DEF TypeOK, FreeLast, LoweredHint
      <4>2. aclu' < FAT_CHAIN /\ aclu' <= aclu
        BY <1>11, <2>4, <4>1 DEF TypeOK, FreeLast, LoweredHint
      <4> QED
        BY <1>11, <2>1, <3>2, <4>1, <4>2 DEF TypeOK, FreeLast, LoweredHint, NoFreeBelow
    <3> QED
      BY <2>2, <3>1, <3>2
  <2> QED
    BY <2>3, <2>4
<1>12. CASE Cut
  BY <1>12, SetType DEF TypeOK, Cut, NoFreeBelow, alloc, free, history
<1>13. CASE WriteBack
  BY <1>13 DEF WriteBack, Taken, Searched, NoFreeBelow, alloc, free, file, history
<1>14. CASE WriteAbsolute
  BY <1>14 DEF WriteAbsolute, NoFreeBelow, alloc, free, file
<1>15. CASE Abort
  <2>1. pc' = "idle" /\ (trusted' => ~UF_DBD)
    BY <1>15 DEF Abort
  <2>2. ~UF_DBD => aclu' = 1
    BY <1>15 DEF Abort
  <2> QED
    BY <2>1, <2>2 DEF NoFreeBelow
<1>16. CASE UNCHANGED vars
  BY <1>16 DEF vars, Taken, Searched, NoFreeBelow, alloc
<1> QED
  BY <1>1, <1>3, <1>4, <1>5, <1>6, <1>7, <1>8, <1>9, <1>10, <1>11, <1>12, <1>13,
     <1>14, <1>15, <1>16 DEF Next, Running

-----------------------------------------------------------------------------
THEOREM Invariant == Spec => []IInv
<1>1. Init => IInv
  BY InitIInv
<1>2. IInv /\ [Next]_vars => IInv'
  BY TypeStep, HintStep DEF IInv
<1> QED
  BY <1>1, <1>2, PTL DEF Spec

\* The allocator's variables keep their ranges, whatever chain a file is left
\* with after an ABORT.
THEOREM TypeCorrect == Spec => []TypeOK
<1>1. IInv => TypeOK
  BY DEF IInv
<1> QED
  BY <1>1, Invariant, PTL

\* No free cluster lies below the hint of fat.mac between two requests.
THEOREM HintIsSound == Spec => []HintSound
<1>1. IInv => HintSound
  BY DEF IInv, HintInv, HintSound
<1> QED
  BY <1>1, Invariant, PTL

\* AL_CLUSTERS reports .DKFUL only on a full disk.
THEOREM DiskFullIsTruthful == Spec => []DiskFullTruthful
<1>1. IInv => DiskFullTruthful
  BY DEF IInv, TypeOK, HintInv, Searched, DiskFullTruthful
<1> QED
  BY <1>1, Invariant, PTL

-----------------------------------------------------------------------------
(* The chains. *)
HIDE FatAssumption DEF Entries, Clusters, Links

\* The clusters of a chain, in order: only those below its length count.
Chains == [Nat -> Clusters]
Fats == [Entries -> Links]
Lengths == [Files -> Nat]

\* No cluster number marks a free entry or the end of a chain.
LEMMA Marks ==
    /\ 0 \notin Clusters /\ EOC \notin Clusters /\ EOC # 0
    /\ Clusters \subseteq Entries /\ Links = Clusters \cup {0, EOC}
  BY FatAssumption DEF Entries, Clusters, Links

USE Marks

\* The first n clusters of c are linked in the FAT F, none of them twice.
Linked(F, c, n) == /\ \A i, j \in 0..n - 1 : c[i] = c[j] => i = j
                   /\ \A i \in 0..n - 2 : F[c[i]] = c[i + 1]

\* Cluster c is one of the first n of x.
Among(c, x, n) == \E i \in 0..n - 1 : c = x[i]

\* Each file f has L[f] clusters, linked and in use.
FilesLinked(F, L, ch) ==
    \A f \in Files : /\ Linked(F, ch[f], L[f])
                     /\ \A i \in 0..L[f] - 1 : F[ch[f][i]] # 0

\* No cluster of a file belongs to another file or to the request.
Apart(L, ch, x, k) ==
    \A c \in Clusters : \A f \in Files : Among(c, ch[f], L[f]) =>
        ~ Among(c, x, k) /\ \A g \in Files : Among(c, ch[g], L[g]) => f = g

\* Every cluster in use belongs to a file or to the request.
Covered(F, L, ch, x, k) ==
    \A c \in Clusters : F[c] # 0 => Among(c, x, k) \/ \E f \in Files : Among(c, ch[f], L[f])

\* Each file f has the first L[f] clusters of ch[f], the running request has the
\* first k of x, and no other cluster is in use.
Tiled(F, L, ch, x, k) == /\ FilesLinked(F, L, ch) /\ Linked(F, x, k)
                         /\ Apart(L, ch, x, k) /\ Covered(F, L, ch, x, k)

\* An entry that belongs to no file may change.
LEMMA OthersLinked ==
    ASSUME NEW F \in Fats, NEW L \in Lengths, NEW ch \in [Files -> Chains], FilesLinked(F, L, ch),
           NEW p \in Clusters, \A f \in Files : ~ Among(p, ch[f], L[f]), NEW v
    PROVE  FilesLinked([F EXCEPT ![p] = v], L, ch)
<1> SUFFICES ASSUME NEW f \in Files
             PROVE  /\ Linked([F EXCEPT ![p] = v], ch[f], L[f])
                    /\ \A i \in 0..L[f] - 1 : [F EXCEPT ![p] = v][ch[f][i]] # 0
  BY DEF FilesLinked
<1>1. \A i \in 0..L[f] - 1 : ch[f][i] # p /\ ch[f][i] \in Clusters
  BY DEF Among, Chains, Lengths
<1>2. \A i \in 0..L[f] - 1 : [F EXCEPT ![p] = v][ch[f][i]] = F[ch[f][i]]
  BY <1>1 DEF Fats
<1> QED
  BY <1>2 DEF FilesLinked, Linked, Lengths

\* A free cluster is none of a file, nor of a request but for its last.
LEMMA FreeIsNew ==
    ASSUME NEW F \in Fats, NEW L \in Lengths, NEW ch \in [Files -> Chains], NEW x \in Chains,
           NEW k \in Nat, Tiled(F, L, ch, x, k), NEW c \in Clusters, F[c] = 0
    PROVE  /\ \A f \in Files : ~ Among(c, ch[f], L[f])
           /\ Among(c, x, k) => c = x[k - 1]
<1>1. ASSUME NEW i \in 0..k - 1, c = x[i], i # k - 1 PROVE FALSE
  <2>1. F[x[i]] = x[i + 1] /\ x[i + 1] \in Clusters
    BY <1>1 DEF Tiled, Linked, Chains
  <2> QED
    BY <1>1, <2>1
<1>2. Among(c, x, k) => c = x[k - 1]
  BY <1>1 DEF Among
<1>3. \A f \in Files : \A i \in 0..L[f] - 1 : F[ch[f][i]] # 0
  BY DEF Tiled, FilesLinked
<1> QED
  BY <1>2, <1>3 DEF Among

\* Taking one more cluster, the first or the one after the last.
LEMMA Taking ==
    ASSUME NEW F \in Fats, NEW L \in Lengths, NEW ch \in [Files -> Chains], NEW x \in Chains,
           NEW k \in Nat, Tiled(F, L, ch, x, k),
           NEW c \in Clusters, F[c] = 0, k > 0 => c # x[k - 1] /\ F[x[k - 1]] = 0,
           NEW y \in Chains, y = [x EXCEPT ![k] = c],
           NEW G \in Fats, G = IF k = 0 THEN F ELSE [F EXCEPT ![x[k - 1]] = c]
    PROVE  Tiled(G, L, ch, y, k + 1)
<1>1. /\ \A f \in Files : ~ Among(c, ch[f], L[f])
      /\ ~ Among(c, x, k)
  BY FreeIsNew DEF Among
<1>2. /\ \A i \in 0..k - 1 : y[i] = x[i] /\ x[i] # c /\ x[i] \in Clusters
      /\ y[k] = c
  BY <1>1 DEF Among, Chains
<1>3. FilesLinked(G, L, ch)
  <2>1. CASE k = 0
    BY <2>1 DEF Tiled
  <2>2. CASE k > 0
    <3>1. \A f \in Files : ~ Among(x[k - 1], ch[f], L[f])
      BY <1>2, <2>2, FreeIsNew
    <3> QED
      BY <1>2, <2>2, <3>1, OthersLinked DEF Tiled
  <2> QED
    BY <2>1, <2>2
<1>4. Linked(G, y, k + 1)
  <2>1. \A i, j \in 0..k : y[i] = y[j] => i = j
    BY <1>2 DEF Tiled, Linked
  <2>2. ASSUME NEW i \in 0..k - 1 PROVE G[y[i]] = y[i + 1]
    <3>1. CASE i = k - 1
      BY <1>2, <3>1 DEF Fats
    <3>2. CASE i # k - 1
      <4>1. x[i] # x[k - 1] /\ F[x[i]] = x[i + 1] /\ i + 1 \in 0..k - 1
        BY <3>2 DEF Tiled, Linked
      <4> QED
        BY <1>2, <4>1 DEF Fats
    <3> QED
      BY <3>1, <3>2
  <2> QED
    BY <2>1, <2>2 DEF Linked
<1>5. \A d \in Clusters : Among(d, y, k + 1) <=> Among(d, x, k) \/ d = c
  BY <1>2 DEF Among
<1>6. Apart(L, ch, y, k + 1)
  <2>1. Apart(L, ch, x, k)
    BY DEF Tiled
  <2> QED
    <3> SUFFICES ASSUME NEW d \in Clusters, NEW f \in Files, Among(d, ch[f], L[f])
                 PROVE  ~ Among(d, y, k + 1) /\ \A g \in Files : Among(d, ch[g], L[g]) => f = g
      BY DEF Apart
    <3>1. ~ Among(d, x, k) /\ \A g \in Files : Among(d, ch[g], L[g]) => f = g
      BY <2>1 DEF Apart
    <3>2. d # c
      BY <1>1
    <3> QED
      BY <1>5, <3>1, <3>2
<1>7. Covered(G, L, ch, y, k + 1)
  <2> SUFFICES ASSUME NEW d \in Clusters, G[d] # 0
               PROVE  Among(d, y, k + 1) \/ \E f \in Files : Among(d, ch[f], L[f])
    BY DEF Covered
  <2>1. CASE k = 0 \/ d # x[k - 1]
    <3>1. F[d] # 0
      BY <2>1 DEF Fats
    <3>2. Covered(F, L, ch, x, k)
      BY DEF Tiled
    <3> QED
      BY <1>5, <3>1, <3>2 DEF Covered
  <2>2. CASE k > 0 /\ d = x[k - 1]
    BY <1>5, <2>2 DEF Among
  <2> QED
    BY <2>1, <2>2
<1> QED
  BY <1>3, <1>4, <1>6, <1>7 DEF Tiled

\* The last cluster of the request is marked as the end of a chain.
LEMMA Ending ==
    ASSUME NEW F \in Fats, NEW L \in Lengths, NEW ch \in [Files -> Chains], NEW x \in Chains,
           NEW k \in Nat \ {0}, Tiled(F, L, ch, x, k), NEW G \in Fats,
           G = [F EXCEPT ![x[k - 1]] = EOC]
    PROVE  Tiled(G, L, ch, x, k)
<1>1. x[k - 1] \in Clusters /\ Among(x[k - 1], x, k)
  BY DEF Among, Chains
<1>2. FilesLinked(G, L, ch)
  <2>1. \A f \in Files : ~ Among(x[k - 1], ch[f], L[f])
    BY <1>1 DEF Tiled, Apart
  <2> QED
    BY <1>1, <2>1, OthersLinked DEF Tiled
<1>3. Linked(G, x, k)
  <2>1. ASSUME NEW i \in 0..k - 2 PROVE G[x[i]] = x[i + 1]
    <3>1. x[i] # x[k - 1] /\ x[i] \in Clusters /\ F[x[i]] = x[i + 1]
      BY DEF Tiled, Linked, Chains
    <3> QED
      BY <3>1 DEF Fats
  <2> QED
    BY <2>1 DEF Tiled, Linked
<1>4. Covered(G, L, ch, x, k)
  BY <1>1 DEF Tiled, Covered, Fats
<1> QED
  BY <1>2, <1>3, <1>4 DEF Tiled

\* The first cluster of the request is freed.
LEMMA Freeing ==
    ASSUME NEW F \in Fats, NEW L \in Lengths, NEW ch \in [Files -> Chains], NEW x \in Chains,
           NEW k \in Nat \ {0}, Tiled(F, L, ch, x, k),
           NEW y \in Chains, \A i \in Nat : y[i] = x[i + 1],
           NEW G \in Fats, G = [F EXCEPT ![x[0]] = 0]
    PROVE  Tiled(G, L, ch, y, k - 1)
<1>1. x[0] \in Clusters /\ Among(x[0], x, k)
  BY DEF Among, Chains
<1>2. FilesLinked(G, L, ch)
  <2>1. \A f \in Files : ~ Among(x[0], ch[f], L[f])
    BY <1>1 DEF Tiled, Apart
  <2> QED
    BY <1>1, <2>1, OthersLinked DEF Tiled
<1>3. Linked(G, y, k - 1)
  <2>1. ASSUME NEW i \in 0..k - 3 PROVE G[y[i]] = y[i + 1]
    <3>1. x[i + 1] # x[0] /\ x[i + 1] \in Clusters /\ F[x[i + 1]] = x[i + 2]
      BY DEF Tiled, Linked, Chains
    <3>2. y[i] = x[i + 1] /\ y[i + 1] = x[i + 2]
      OBVIOUS
    <3> QED
      BY <3>1, <3>2 DEF Fats
  <2>2. ASSUME NEW i \in 0..k - 2, NEW j \in 0..k - 2, y[i] = y[j] PROVE i = j
    <3>1. x[i + 1] = x[j + 1] /\ i + 1 \in 0..k - 1 /\ j + 1 \in 0..k - 1
      BY <2>2
    <3> QED
      BY <3>1 DEF Tiled, Linked
  <2> QED
    BY <2>1, <2>2 DEF Linked
<1>4. \A d \in Clusters : Among(d, x, k) <=> d = x[0] \/ Among(d, y, k - 1)
  <2> TAKE d \in Clusters
  <2>1. ASSUME NEW i \in 0..k - 1, d = x[i], d # x[0] PROVE Among(d, y, k - 1)
    <3>1. i - 1 \in 0..(k - 1) - 1 /\ y[i - 1] = d
      BY <2>1
    <3> QED
      BY <3>1 DEF Among
  <2>2. ASSUME NEW i \in 0..k - 2, d = y[i] PROVE Among(d, x, k)
    <3>1. i + 1 \in 0..k - 1 /\ x[i + 1] = d
      BY <2>2
    <3> QED
      BY <3>1 DEF Among
  <2> QED
    BY <1>1, <2>1, <2>2 DEF Among
<1>5. Apart(L, ch, y, k - 1)
  BY <1>4 DEF Tiled, Apart
<1>6. Covered(G, L, ch, y, k - 1)
  BY <1>1, <1>4 DEF Tiled, Covered, Fats
<1> QED
  BY <1>2, <1>3, <1>5, <1>6 DEF Tiled

\* The clusters of the request are linked to the end of a file.
LEMMA Joining ==
    ASSUME NEW F \in Fats, NEW L \in Lengths, NEW ch \in [Files -> Chains], NEW x \in Chains,
           NEW k \in Nat \ {0}, Tiled(F, L, ch, x, k), F[x[k - 1]] # 0,
           NEW f \in Files,
           NEW G \in Fats, G = IF L[f] = 0 THEN F ELSE [F EXCEPT ![ch[f][L[f] - 1]] = x[0]],
           NEW y \in Chains, \A i \in Nat : y[i] = IF i < L[f] THEN ch[f][i] ELSE x[i - L[f]],
           NEW M \in Lengths, M = [L EXCEPT ![f] = L[f] + k],
           NEW c \in [Files -> Chains], c = [ch EXCEPT ![f] = y]
    PROVE  Tiled(G, M, c, x, 0)
<1> DEFINE n == L[f]
           last == ch[f][n - 1]
<1>1. /\ n \in Nat /\ M[f] = n + k /\ c[f] = y
      /\ \A g \in Files \ {f} : M[g] = L[g] /\ c[g] = ch[g]
  BY DEF Lengths
<1>2. /\ \A i \in 0..n - 1 : y[i] = ch[f][i]
      /\ \A j \in 0..k - 1 : n + j \in 0..(n + k) - 1 /\ y[n + j] = x[j]
  BY <1>1
<1>3. ASSUME NEW d \in Clusters
      PROVE  Among(d, y, n + k) <=> Among(d, ch[f], n) \/ Among(d, x, k)
  <2>1. ASSUME NEW i \in 0..(n + k) - 1, d = y[i] PROVE Among(d, ch[f], n) \/ Among(d, x, k)
    <3>1. CASE i < n
      BY <1>1, <1>2, <2>1, <3>1 DEF Among
    <3>2. CASE i >= n
      <4>1. i - n \in 0..k - 1 /\ d = x[i - n]
        BY <1>1, <2>1, <3>2
      <4> QED
        BY <4>1 DEF Among
    <3> QED
      BY <1>1, <3>1, <3>2
  <2>2. ASSUME NEW i \in 0..n - 1, d = ch[f][i] PROVE Among(d, y, n + k)
    BY <1>1, <1>2, <2>2 DEF Among
  <2>3. ASSUME NEW j \in 0..k - 1, d = x[j] PROVE Among(d, y, n + k)
    <3>1. n + j \in 0..(n + k) - 1 /\ d = y[n + j]
      BY <1>1, <1>2, <2>3
    <3> QED
      BY <3>1 DEF Among
  <2>4. Among(d, y, n + k) => Among(d, ch[f], n) \/ Among(d, x, k)
    BY <2>1 DEF Among
  <2>5. Among(d, ch[f], n) \/ Among(d, x, k) => Among(d, y, n + k)
    <3> HIDE DEF n
    <3> QED
      BY <2>2, <2>3, Zenon DEF Among
  <2> QED
    BY <2>4, <2>5
<1>4. /\ FilesLinked(F, L, ch) /\ Linked(F, x, k)
      /\ Apart(L, ch, x, k) /\ Covered(F, L, ch, x, k)
  BY DEF Tiled
<1>5. n > 0 => last \in Clusters /\ Among(last, ch[f], n)
  BY <1>1 DEF Among, Chains
<1>6. \A d \in Clusters : (n = 0 \/ d # last) => G[d] = F[d]
  BY DEF Fats
<1>7. n > 0 => G[last] = x[0] /\ x[0] \in Clusters
  BY <1>5 DEF Fats, Chains
<1>8. ASSUME NEW g \in Files, g # f
      PROVE  Linked(G, ch[g], L[g]) /\ \A i \in 0..L[g] - 1 : G[ch[g][i]] # 0
  <2>1. \A i \in 0..L[g] - 1 : ch[g][i] \in Clusters /\ Among(ch[g][i], ch[g], L[g])
    BY DEF Among, Chains, Lengths
  <2>2. \A i \in 0..L[g] - 1 : G[ch[g][i]] = F[ch[g][i]]
    <3> TAKE i \in 0..L[g] - 1
    <3>1. n > 0 => ch[g][i] # last
      BY <1>4, <1>5, <1>8, <2>1 DEF Apart
    <3> QED
      BY <1>1, <1>6, <2>1, <3>1
  <2> QED
    BY <1>4, <2>2 DEF FilesLinked, Linked, Lengths
<1>9. \A j \in 0..k - 1 : x[j] \in Clusters /\ G[x[j]] = F[x[j]] /\ F[x[j]] # 0
  <2> TAKE j \in 0..k - 1
  <2>1. x[j] \in Clusters /\ Among(x[j], x, k)
    BY DEF Among, Chains
  <2>2. n > 0 => x[j] # last
    BY <1>4, <1>5, <2>1 DEF Apart
  <2>3. F[x[j]] # 0
    <3>1. CASE j = k - 1
      BY <3>1
    <3>2. CASE j # k - 1
      <4>1. F[x[j]] = x[j + 1] /\ x[j + 1] \in Clusters
        BY <1>4, <3>2 DEF Linked, Chains
      <4> QED
        BY <4>1
    <3> QED
      BY <3>1, <3>2
  <2> QED
    BY <1>1, <1>6, <2>1, <2>2, <2>3
<1>10. \A i \in 0..n - 1 : ch[f][i] \in Clusters /\ F[ch[f][i]] # 0 /\ (i # n - 1 => ch[f][i] # last)
  BY <1>1, <1>4 DEF FilesLinked, Linked, Chains
<1>11. \A i \in 0..(n + k) - 1 : G[y[i]] # 0
  <2> TAKE i \in 0..(n + k) - 1
  <2>1. CASE i < n - 1
    BY <1>1, <1>2, <1>6, <1>10, <2>1
  <2>2. CASE i = n - 1
    BY <1>1, <1>2, <1>7, <2>2
  <2>3. CASE i >= n
    <3>1. i - n \in 0..k - 1 /\ y[i] = x[i - n]
      BY <1>1, <2>3
    <3> QED
      BY <1>9, <3>1
  <2> QED
    BY <1>1, <2>1, <2>2, <2>3
<1>12. \A i \in 0..(n + k) - 2 : G[y[i]] = y[i + 1]
  <2> TAKE i \in 0..(n + k) - 2
  <2>1. CASE i < n - 1
    <3>1. y[i] = ch[f][i] /\ y[i + 1] = ch[f][i + 1] /\ F[ch[f][i]] = ch[f][i + 1]
      BY <1>1, <1>4, <2>1 DEF FilesLinked, Linked
    <3> QED
      BY <1>1, <1>6, <1>10, <2>1, <3>1
  <2>2. CASE i = n - 1
    BY <1>1, <1>2, <1>7, <2>2
  <2>3. CASE i >= n
    <3>1. /\ i - n \in 0..k - 2 /\ i - n \in 0..k - 1 /\ i - n + 1 = i + 1 - n
          /\ y[i] = x[i - n] /\ y[i + 1] = x[i + 1 - n]
      BY <1>1, <2>3
    <3>2. F[x[i - n]] = x[i - n + 1]
      BY <1>4, <3>1 DEF Linked
    <3> QED
      BY <1>9, <3>1, <3>2
  <2> QED
    BY <1>1, <2>1, <2>2, <2>3
<1>13. \A i, j \in 0..(n + k) - 1 : y[i] = y[j] => i = j
  <2>1. ASSUME NEW i \in 0..(n + k) - 1, NEW j \in 0..(n + k) - 1, y[i] = y[j], i < j PROVE FALSE
    <3>1. CASE j < n
      <4>1. i \in 0..n - 1 /\ j \in 0..n - 1 /\ ch[f][i] = ch[f][j]
        BY <1>1, <2>1, <3>1
      <4> QED
        BY <1>4, <2>1, <4>1 DEF FilesLinked, Linked
    <3>2. CASE i < n /\ j >= n
      <4>1. /\ i \in 0..n - 1 /\ j - n \in 0..k - 1 /\ ch[f][i] = x[j - n]
            /\ x[j - n] \in Clusters
        BY <1>1, <1>9, <2>1, <3>2
      <4>2. Among(x[j - n], ch[f], n) /\ Among(x[j - n], x, k)
        BY <4>1 DEF Among
      <4> QED
        BY <1>4, <4>1, <4>2 DEF Apart
    <3>3. CASE i >= n
      <4>1. i - n \in 0..k - 1 /\ j - n \in 0..k - 1 /\ x[i - n] = x[j - n]
        BY <1>1, <2>1, <3>3
      <4>2. i - n = j - n
        BY <1>4, <4>1 DEF Linked
      <4> QED
        BY <1>1, <2>1, <4>2
    <3> QED
      BY <1>1, <2>1, <3>1, <3>2, <3>3
  <2> QED
    BY <1>1, <2>1
<1>14. Linked(G, y, n + k)
  BY <1>12, <1>13, Zenon DEF Linked
<1>15. FilesLinked(G, M, c)
  <2>1. Linked(G, c[f], M[f]) /\ \A i \in 0..M[f] - 1 : G[c[f][i]] # 0
    BY <1>1, <1>11, <1>14
  <2>2. ASSUME NEW g \in Files, g # f
        PROVE  Linked(G, c[g], M[g]) /\ \A i \in 0..M[g] - 1 : G[c[g][i]] # 0
    <3>1. M[g] = L[g] /\ c[g] = ch[g]
      BY <1>1, <2>2
    <3> QED
      BY <1>8, <2>2, <3>1
  <2> QED
    BY <2>1, <2>2 DEF FilesLinked
<1>16. Linked(G, x, 0) /\ \A d \in Clusters : ~ Among(d, x, 0)
  BY DEF Linked, Among
<1>17. Apart(M, c, x, 0)
  <2> SUFFICES ASSUME NEW d \in Clusters, NEW g \in Files, Among(d, c[g], M[g]),
                      NEW h \in Files, Among(d, c[h], M[h])
               PROVE  g = h
    BY <1>16 DEF Apart
  <2>1. \A e \in Files \ {f} : Among(d, c[e], M[e]) <=> Among(d, ch[e], L[e])
    BY <1>1
  <2>2. Among(d, c[f], M[f]) <=> Among(d, ch[f], L[f]) \/ Among(d, x, k)
    BY <1>1, <1>3
  <2> QED
    BY <1>4, <2>1, <2>2 DEF Apart
<1>18. Covered(G, M, c, x, 0)
  <2> SUFFICES ASSUME NEW d \in Clusters, G[d] # 0
               PROVE  \E g \in Files : Among(d, c[g], M[g])
    BY DEF Covered
  <2>1. \A e \in Files \ {f} : Among(d, ch[e], L[e]) => Among(d, c[e], M[e])
    BY <1>1
  <2>2. Among(d, ch[f], L[f]) \/ Among(d, x, k) => Among(d, c[f], M[f])
    BY <1>1, <1>3
  <2>3. CASE n > 0 /\ d = last
    BY <1>5, <2>2, <2>3
  <2>4. CASE n = 0 \/ d # last
    BY <1>4, <1>6, <2>1, <2>2, <2>4 DEF Covered
  <2> QED
    BY <1>1, <2>3, <2>4
<1> QED
  BY <1>15, <1>16, <1>17, <1>18 DEF Tiled

\* The tail of a file is handed to the request.
LEMMA Shortening ==
    ASSUME NEW F \in Fats, NEW L \in Lengths, NEW ch \in [Files -> Chains], NEW x \in Chains,
           Tiled(F, L, ch, x, 0), NEW f \in Files, NEW n \in 0..L[f],
           NEW y \in Chains, \A i \in Nat : y[i] = ch[f][n + i],
           NEW M \in Lengths, M = [L EXCEPT ![f] = n]
    PROVE  Tiled(F, M, ch, y, L[f] - n)
<1>1. /\ L[f] \in Nat /\ n \in Nat /\ n <= L[f] /\ M[f] = n
      /\ \A g \in Files \ {f} : M[g] = L[g]
  BY DEF Lengths
<1>2. FilesLinked(F, L, ch) /\ Apart(L, ch, x, 0) /\ Covered(F, L, ch, x, 0)
  BY DEF Tiled
<1>3. /\ \A i, j \in 0..L[f] - 1 : ch[f][i] = ch[f][j] => i = j
      /\ \A i \in 0..L[f] - 2 : F[ch[f][i]] = ch[f][i + 1]
      /\ \A i \in 0..L[f] - 1 : F[ch[f][i]] # 0 /\ ch[f][i] \in Clusters
  BY <1>1, <1>2 DEF FilesLinked, Linked, Chains
<1>4. FilesLinked(F, M, ch)
  BY <1>1, <1>2, <1>3 DEF FilesLinked, Linked
<1>5. Linked(F, y, L[f] - n)
  <2>1. ASSUME NEW i \in 0..L[f] - n - 1, NEW j \in 0..L[f] - n - 1, y[i] = y[j] PROVE i = j
    <3>1. n + i \in 0..L[f] - 1 /\ n + j \in 0..L[f] - 1 /\ ch[f][n + i] = ch[f][n + j]
      BY <1>1, <2>1
    <3>2. n + i = n + j
      BY <1>3, <3>1
    <3> QED
      BY <1>1, <3>2
  <2>2. ASSUME NEW i \in 0..L[f] - n - 2 PROVE F[y[i]] = y[i + 1]
    <3>1. n + i \in 0..L[f] - 2 /\ y[i] = ch[f][n + i] /\ y[i + 1] = ch[f][(n + i) + 1]
      BY <1>1
    <3> QED
      BY <1>3, <3>1
  <2> QED
    BY <2>1, <2>2 DEF Linked
<1>6. ASSUME NEW d \in Clusters
      PROVE  /\ Among(d, ch[f], L[f]) <=> Among(d, ch[f], n) \/ Among(d, y, L[f] - n)
             /\ ~ (Among(d, ch[f], n) /\ Among(d, y, L[f] - n))
  <2>1. ASSUME NEW i \in 0..L[f] - 1, d = ch[f][i], i >= n PROVE Among(d, y, L[f] - n)
    <3>1. i - n \in 0..L[f] - n - 1 /\ y[i - n] = d
      BY <1>1, <2>1
    <3> QED
      BY <3>1 DEF Among
  <2>2. ASSUME NEW i \in 0..L[f] - n - 1, d = y[i]
        PROVE  n + i \in 0..L[f] - 1 /\ d = ch[f][n + i]
    BY <1>1, <2>2
  <2>3. ASSUME NEW i \in 0..n - 1, NEW j \in 0..L[f] - n - 1, d = ch[f][i], d = y[j]
        PROVE  FALSE
    <3>1. n + j \in 0..L[f] - 1 /\ i \in 0..L[f] - 1 /\ ch[f][i] = ch[f][n + j]
      BY <1>1, <2>2, <2>3
    <3>2. i = n + j
      BY <1>3, <3>1
    <3> QED
      BY <1>1, <3>2
  <2> QED
    BY <1>1, <2>1, <2>2, <2>3 DEF Among
<1>7. Apart(M, ch, y, L[f] - n)
  <2> SUFFICES ASSUME NEW d \in Clusters, NEW g \in Files, Among(d, ch[g], M[g])
               PROVE  /\ ~ Among(d, y, L[f] - n)
                      /\ \A h \in Files : Among(d, ch[h], M[h]) => g = h
    BY DEF Apart
  <2>1. \A h \in Files : Among(d, ch[h], M[h]) => Among(d, ch[h], L[h])
    BY <1>1, <1>6
  <2>2. \A h \in Files : Among(d, ch[h], M[h]) => g = h
    BY <1>2, <2>1 DEF Apart
  <2>3. Among(d, y, L[f] - n) => g = f
    BY <1>2, <1>6, <2>1 DEF Apart
  <2> QED
    BY <1>1, <1>6, <2>2, <2>3
<1>8. Covered(F, M, ch, y, L[f] - n)
  <2> SUFFICES ASSUME NEW d \in Clusters, F[d] # 0
               PROVE  Among(d, y, L[f] - n) \/ \E g \in Files : Among(d, ch[g], M[g])
    BY DEF Covered
  <2>1. ~ Among(d, x, 0)
    BY DEF Among
  <2>2. PICK g \in Files : Among(d, ch[g], L[g])
    BY <1>2, <2>1 DEF Covered
  <2> QED
    BY <1>1, <1>6, <2>2
<1> QED
  BY <1>4, <1>5, <1>7, <1>8 DEF Tiled

\* The end of a file is marked.
LEMMA Marking ==
    ASSUME NEW F \in Fats, NEW L \in Lengths, NEW ch \in [Files -> Chains], NEW x \in Chains,
           Tiled(F, L, ch, x, 0), NEW f \in Files, L[f] > 0,
           NEW G \in Fats, G = [F EXCEPT ![ch[f][L[f] - 1]] = EOC]
    PROVE  Tiled(G, L, ch, x, 0)
<1> DEFINE last == ch[f][L[f] - 1]
<1>1. FilesLinked(F, L, ch) /\ Apart(L, ch, x, 0) /\ Covered(F, L, ch, x, 0)
  BY DEF Tiled
<1>2. L[f] \in Nat /\ last \in Clusters /\ Among(last, ch[f], L[f])
  BY DEF Among, Chains, Lengths
<1>3. /\ G[last] = EOC
      /\ \A d \in Clusters : d # last => G[d] = F[d]
  BY <1>2 DEF Fats
<1>4. ASSUME NEW g \in Files
      PROVE  Linked(G, ch[g], L[g]) /\ \A i \in 0..L[g] - 1 : G[ch[g][i]] # 0
  <2>1. L[g] \in Nat /\ \A i \in 0..L[g] - 1 : ch[g][i] \in Clusters /\ Among(ch[g][i], ch[g], L[g])
    BY DEF Among, Chains, Lengths
  <2>2. \A i \in 0..L[g] - 1 : ch[g][i] = last => g = f /\ i = L[f] - 1
    <3> TAKE i \in 0..L[g] - 1
    <3>1. ch[g][i] = last => g = f
      BY <1>1, <1>2, <2>1 DEF Apart
    <3> QED
      BY <1>1, <1>2, <3>1 DEF FilesLinked, Linked
  <2>3. \A i \in 0..L[g] - 1 : G[ch[g][i]] # 0
    BY <1>1, <1>3, <2>1 DEF FilesLinked
  <2>4. \A i \in 0..L[g] - 2 : G[ch[g][i]] = ch[g][i + 1]
    <3> TAKE i \in 0..L[g] - 2
    <3>1. ch[g][i] # last /\ F[ch[g][i]] = ch[g][i + 1] /\ ch[g][i] \in Clusters
      BY <1>1, <2>1, <2>2 DEF FilesLinked, Linked
    <3> QED
      BY <1>3, <3>1
  <2> QED
    BY <1>1, <2>3, <2>4 DEF FilesLinked, Linked
<1>5. FilesLinked(G, L, ch)
  BY <1>4 DEF FilesLinked
<1>6. Covered(G, L, ch, x, 0)
  BY <1>1, <1>2, <1>3 DEF Covered
<1> QED
  BY <1>1, <1>5, <1>6 DEF Tiled, Linked

\* g walks n steps along the FAT, from h.
Walk(g, n, h) == \A k \in 0..n : g[k] = IF k = 0 THEN h ELSE FAT_LOOKUP(g[k - 1])

\* Two walks from the same cluster are the same.
LEMMA OneWalk ==
    ASSUME NEW n \in Nat, NEW g, NEW w, NEW h, Walk(g, n, h), Walk(w, n, h)
    PROVE  \A k \in 0..n : g[k] = w[k]
<1> DEFINE T == {k \in 0..n : g[k] # w[k]}
<1>1. SUFFICES ASSUME T # {} PROVE FALSE
  OBVIOUS
<1>2. PICK m \in T : \A k \in T : m <= k
  <2>1. T \in SUBSET Nat
    OBVIOUS
  <2> HIDE DEF T
  <2> QED
    BY <1>1, <2>1, LeastNatural
<1>3. CASE m = 0
  <2>1. g[0] = h /\ w[0] = h
    BY DEF Walk
  <2> QED
    BY <1>3, <2>1
<1>4. CASE m # 0
  <2>1. m - 1 \in 0..n /\ m \in 0..n /\ m - 1 \notin T
    BY <1>2, <1>4
  <2>2. g[m - 1] = w[m - 1]
    BY <2>1
  <2>3. g[m] = FAT_LOOKUP(g[m - 1]) /\ w[m] = FAT_LOOKUP(w[m - 1])
    BY <1>4, <2>1 DEF Walk
  <2> QED
    BY <2>2, <2>3
<1> QED
  BY <1>3, <1>4

\* Walking a file of n clusters finds them one by one, and then the end.
LEMMA Walks ==
    ASSUME TypeOK, NEW f \in Files, NEW c \in Chains, NEW n \in Nat \ {0}, head[f] = c[0],
           \A i \in 0..n - 2 : fat[c[i]] = c[i + 1], fat[c[n - 1]] = EOC, NEW i \in 0..n
    PROVE  LOG_PHYS_CLU(f, i) = IF i < n THEN c[i] ELSE EOC
<1> DEFINE w == [k \in 0..i |-> IF k < n THEN c[k] ELSE EOC]
           Is(v) == v = [k \in 0..i |-> IF k = 0 THEN head[f] ELSE FAT_LOOKUP(v[k - 1])]
           g == CHOOSE v : Is(v)
<1>1. \A k \in 0..n - 1 : c[k] \in Clusters /\ FAT_LOOKUP(c[k]) = IF k + 1 < n THEN c[k + 1] ELSE EOC
  <2> TAKE k \in 0..n - 1
  <2>1. c[k] \in Clusters /\ c[k] \in Entries
    BY DEF Chains
  <2>2. fat[c[k]] = IF k + 1 < n THEN c[k + 1] ELSE EOC
    BY <2>1
  <2> QED
    BY <2>1, <2>2 DEF FAT_LOOKUP
<1>2. ASSUME NEW k \in 1..i PROVE FAT_LOOKUP(w[k - 1]) = w[k]
  <2>1. k - 1 \in 0..n - 1 /\ w[k - 1] = c[k - 1]
    BY <1>2
  <2> QED
    BY <1>1, <2>1
<1>3. Is(w)
  BY <1>2
<1>4. Is(g)
  <2> HIDE DEF Is
  <2> QED
    BY <1>3
<1>5. \A k \in 0..i : g[k] = w[k]
  <2>1. i \in Nat
    OBVIOUS
  <2>2. Walk(g, i, head[f])
    <3> HIDE DEF g
    <3> QED
      BY <1>4 DEF Walk
  <2>3. Walk(w, i, head[f])
    <3> HIDE DEF w
    <3> QED
      BY <1>3 DEF Walk
  <2> HIDE DEF Is, g, w
  <2> QED
    BY <2>1, <2>2, <2>3, OneWalk
<1>6. head[f] # 0
  BY DEF Chains
<1>7. LOG_PHYS_CLU(f, i) = IF i = 0 THEN head[f] ELSE FAT_LOOKUP(g[i - 1])
  BY <1>6, Zenon DEF LOG_PHYS_CLU
<1>8. CASE i = 0
  BY <1>7, <1>8
<1>9. CASE i # 0
  <2>0. i \in 1..i /\ i - 1 \in 0..i
    BY <1>9
  <2>1. g[i - 1] = w[i - 1] /\ FAT_LOOKUP(w[i - 1]) = w[i]
    <3> HIDE DEF g, w
    <3> QED
      BY <1>2, <1>5, <2>0
  <2>2. w[i] = IF i < n THEN c[i] ELSE EOC
    OBVIOUS
  <2> HIDE DEF g, w
  <2> QED
    BY <1>7, <1>9, <2>1, <2>2
<1> QED
  BY <1>8, <1>9

-----------------------------------------------------------------------------
\* The request is to leave its file fewer clusters than it has, and the end of
\* what is kept is not marked yet.
Shrinking == pc = "cut" \/ (pc = "free" /\ after # "full")
Kept == [f \in Files |-> IF Shrinking /\ f = req.file THEN req.clusters ELSE size[f]]

\* Head and end of the files.
Ends(ch) == \A f \in Files :
    /\ size[f] = 0 <=> head[f] = 0
    /\ Kept[f] > 0 => /\ head[f] = ch[f][0]
                      /\ ~ (Shrinking /\ f = req.file) => fat[ch[f][Kept[f] - 1]] = EOC

\* What the k clusters of the request are: those taken so far, the last of them
\* not yet marked, or those still to be freed.
Request(ch, x, k) ==
    /\ pc \in {"idle", "cut"} => k = 0
    /\ pc \in {"scan", "end"} =>
         /\ req.clusters = k + want /\ req.clusters > 0 /\ (prev = EOC <=> k = 0)
         /\ \A i \in 0..k - 1 : x[i] <= cur
         /\ k > 0 => FAT_CHAIN = x[0] /\ prev = x[k - 1] /\ fat[prev] = 0
    /\ pc = "end" => want = 0
    /\ pc = "link" => k > 0 /\ req.clusters = k /\ FAT_CHAIN = x[0] /\ fat[x[k - 1]] = EOC
    /\ pc = "free" => k > 0 /\ de = x[0] /\ fat[x[k - 1]] \in {0, EOC}
    /\ pc = "free" /\ after = "gone" => req.clusters = 0
    /\ pc = "cut" \/ (pc = "free" /\ after = "cut") =>
         req.clusters > 0 /\ req.last = ch[req.file][req.clusters - 1]

\* ch and x are the chains of the files and of the request, of k clusters.
Chaining(ch, x, k) == Tiled(fat, Kept, ch, x, k) /\ Ends(ch) /\ Request(ch, x, k)

\* There are chains for the files and the request that account for every cluster.
Accounted == \E ch \in [Files -> Chains], x \in Chains, k \in Nat : Chaining(ch, x, k)

\* An ABORT drops FAT entries that files point to (FAB_FIRST_PHYSICAL_CLUSTER).
ChainInv == aborts = 0 => Accounted

\* The sizes that are kept are numbers of clusters.
LEMMA KeptType == ASSUME TypeOK PROVE Kept \in Lengths /\ fat \in Fats
  BY DEF TypeOK, Kept, Lengths, Fats

\* Unless a file is being shortened, the sizes kept are the sizes.
LEMMA KeptAll == ASSUME TypeOK, ~ Shrinking PROVE Kept = size
  BY DEF TypeOK, Kept

\* Heads and ends stay while nothing but entries of no file change.
LEMMA EndsStay ==
    ASSUME TypeOK, NEW ch \in [Files -> Chains], Ends(ch), NEW p \in Clusters,
           \A f \in Files : ~ Among(p, ch[f], Kept[f]),
           \A c \in Clusters : c # p => fat'[c] = fat[c],
           head' = head, size' = size, req' = req, Shrinking' = Shrinking
    PROVE  Ends(ch)' /\ Kept' = Kept
<1>1. Kept' = Kept
  BY DEF Kept
<1>2. ASSUME NEW f \in Files, Kept[f] > 0
      PROVE  fat'[ch[f][Kept[f] - 1]] = fat[ch[f][Kept[f] - 1]]
  <2>1. Kept[f] \in Nat /\ ch[f][Kept[f] - 1] \in Clusters
    BY <1>2, KeptType DEF Chains, Lengths
  <2>2. Among(ch[f][Kept[f] - 1], ch[f], Kept[f])
    BY <1>2, <2>1 DEF Among
  <2> QED
    BY <2>1, <2>2
<1> QED
  BY <1>1, <1>2 DEF Ends

\* An empty disk has no chain and no cluster in use.
LEMMA InitChains == Init => ChainInv
<1> SUFFICES ASSUME Init PROVE Accounted
  BY DEF ChainInv
<1> DEFINE x == [i \in Nat |-> 2]
           ch == [f \in Files |-> x]
<1>1. x \in Chains /\ ch \in [Files -> Chains]
  BY FatAssumption DEF Chains, Clusters
<1>2. /\ pc = "idle" /\ \A c \in Clusters : fat[c] = 0
      /\ \A f \in Files : head[f] = 0 /\ size[f] = 0 /\ Kept[f] = 0
  BY DEF Init, Kept, Shrinking
<1>3. Tiled(fat, Kept, ch, x, 0)
  <2> HIDE DEF ch, x
  <2> QED
    BY <1>2 DEF Tiled, FilesLinked, Linked, Apart, Covered, Among
<1>4. Ends(ch) /\ Request(ch, x, 0)
  BY <1>2 DEF Ends, Request
<1> HIDE DEF ch, x
<1> QED
  BY <1>1, <1>3, <1>4 DEF Accounted, Chaining

\* Between requests the files have all clusters in use.
LEMMA ExtendChains ==
    ASSUME TypeOK, Accounted, Extend PROVE Accounted'
<1>1. PICK ch \in [Files -> Chains], x \in Chains, k \in Nat : Chaining(ch, x, k)
  BY DEF Accounted
<1>2. PICK n \in 1..MaxRequest : want' = n /\ req'.clusters = n
  BY DEF Extend
<1>3. /\ pc = "idle" /\ pc' = "scan" /\ fat' = fat /\ head' = head /\ size' = size
      /\ prev' = EOC
  BY DEF Extend, file
<1>4. ~ Shrinking /\ ~ Shrinking' /\ Kept' = Kept /\ n \in Nat \ {0} /\ k = 0
  BY <1>1, <1>3 DEF Shrinking, Kept, Chaining, Request
<1>5. Tiled(fat, Kept, ch, x, k)'
  BY <1>1, <1>3, <1>4 DEF Chaining
<1>6. Ends(ch)'
  BY <1>1, <1>3, <1>4 DEF Chaining, Ends
<1>7. Request(ch, x, k)'
  BY <1>2, <1>3, <1>4 DEF Request
<1> QED
  BY <1>5, <1>6, <1>7 DEF Accounted, Chaining

\* The search takes the next free cluster.
LEMMA ScanFreeChains ==
    ASSUME IInv, TypeOK', Accounted, ScanFree PROVE Accounted'
<1>1. PICK ch \in [Files -> Chains], x \in Chains, k \in Nat : Chaining(ch, x, k)
  BY DEF Accounted
<1> DEFINE c == cur + 1
<1>2. /\ pc = "scan" /\ c \in Clusters /\ fat[c] = 0 /\ cur' = c /\ prev' = c
      /\ cur \in Nat /\ want \in Nat \ {0} /\ prev \in Clusters \cup {EOC}
      /\ want' = want - 1 /\ FAT_CHAIN' = (IF prev = EOC THEN c ELSE FAT_CHAIN)
      /\ pc' = (IF want = 1 THEN "end" ELSE "scan")
      /\ head' = head /\ size' = size /\ req' = req
  BY FatAssumption DEF ScanFree, IInv, HintInv, TypeOK, Clusters, file
<1>3. /\ req.clusters = k + want /\ (prev = EOC <=> k = 0)
      /\ \A i \in 0..k - 1 : x[i] <= cur
      /\ k > 0 => FAT_CHAIN = x[0] /\ prev = x[k - 1] /\ fat[prev] = 0
  BY <1>1, <1>2 DEF Chaining, Request
<1>4. fat \in Fats /\ Kept \in Lengths /\ fat' \in Fats /\ TypeOK
  <2>1. TypeOK
    BY DEF IInv
  <2> QED
    BY <2>1, KeptType DEF TypeOK, Fats
<1>5. fat' = IF k = 0 THEN fat ELSE [fat EXCEPT ![x[k - 1]] = c]
  <2>1. k > 0 => prev \in Entries
    BY <1>2, <1>3
  <2>2. fat' = IF prev = EOC THEN fat ELSE FAT_SET(prev, c)
    BY DEF ScanFree
  <2>3. k > 0 => FAT_SET(prev, c) = [fat EXCEPT ![prev] = c]
    BY <2>1 DEF FAT_SET
  <2> HIDE DEF c
  <2> QED
    BY <1>3, <2>2, <2>3
<1>6. k > 0 => c # x[k - 1] /\ fat[x[k - 1]] = 0 /\ x[k - 1] \in Clusters
  BY <1>2, <1>3 DEF Chains
<1>7. PICK y \in Chains : y = [x EXCEPT ![k] = c]
  BY <1>2 DEF Chains
<1>8. Tiled(fat', Kept, ch, y, k + 1)
  <2> HIDE DEF c
  <2> QED
    BY <1>1, <1>2, <1>4, <1>5, <1>6, <1>7, Taking DEF Chaining
<1>9. ~ Shrinking /\ ~ Shrinking'
  BY <1>2 DEF Shrinking
<1>10. Ends(ch)' /\ Kept' = Kept
  <2>1. CASE k = 0
    <3>1. Kept' = Kept /\ fat' = fat
      BY <1>2, <1>5, <1>9, <2>1 DEF Kept
    <3> QED
      BY <1>1, <1>2, <1>9, <3>1 DEF Chaining, Ends
  <2>2. CASE k > 0
    <3>1. \A f \in Files : ~ Among(x[k - 1], ch[f], Kept[f])
      BY <1>1, <1>4, <1>6, <2>2, FreeIsNew DEF Chaining
    <3>2. \A d \in Clusters : d # x[k - 1] => fat'[d] = fat[d]
      BY <1>4, <1>5, <2>2 DEF Fats
    <3> QED
      <4>1. x[k - 1] \in Clusters /\ Ends(ch) /\ Shrinking' = Shrinking
        BY <1>1, <1>6, <1>9, <2>2 DEF Chaining, Shrinking
      <4> QED
        BY <1>2, <1>4, <3>1, <3>2, <4>1, EndsStay
  <2> QED
    BY <2>1, <2>2
<1>11. Request(ch, y, k + 1)'
  <2>1. /\ \A i \in 0..k - 1 : y[i] = x[i]
        /\ y[k] = c /\ (k + 1) - 1 = k
    BY <1>7 DEF Chains
  <2>2. fat'[c] = 0
    BY <1>2, <1>4, <1>5, <1>6 DEF Fats
  <2>3. \A i \in 0..(k + 1) - 1 : y[i] <= cur'
    <3> TAKE i \in 0..(k + 1) - 1
    <3>1. CASE i = k
      BY <1>2, <2>1, <3>1
    <3>2. CASE i # k
      <4>1. i \in 0..k - 1 /\ x[i] <= cur /\ x[i] \in Clusters
        BY <1>3, <3>2 DEF Chains
      <4>2. x[i] \in Nat
        BY <4>1, FatAssumption DEF Clusters
      <4> QED
        BY <1>2, <2>1, <4>1, <4>2
    <3> QED
      BY <3>1, <3>2
  <2>4. FAT_CHAIN' = y[0] /\ prev' = y[(k + 1) - 1] /\ fat'[prev'] = 0 /\ prev' # EOC
    BY <1>2, <1>3, <2>1, <2>2
  <2>5. req'.clusters = (k + 1) + want' /\ req'.clusters > 0 /\ (pc' = "end" => want' = 0)
    BY <1>2, <1>3
  <2> HIDE DEF c
  <2> QED
    BY <1>2, <2>3, <2>4, <2>5 DEF Request
<1> QED
  BY <1>8, <1>10, <1>11 DEF Accounted, Chaining

\* Nothing found: what was taken is to be given back.
LEMMA DiskFullChains ==
    ASSUME IInv, Accounted, DiskFull PROVE Accounted'
<1>1. PICK ch \in [Files -> Chains], x \in Chains, k \in Nat : Chaining(ch, x, k)
  BY DEF Accounted
<1>2. /\ pc = "scan" /\ fat' = fat /\ head' = head /\ size' = size /\ req' = req
      /\ IF FAT_CHAIN = EOC THEN pc' = "idle"
         ELSE pc' = "free" /\ de' = FAT_CHAIN /\ after' = "full"
  BY DEF DiskFull, file
<1>3. /\ k > 0 => FAT_CHAIN = x[0] /\ fat[x[k - 1]] = 0 /\ x[0] \in Clusters
      /\ k = 0 => FAT_CHAIN = EOC
  BY <1>1, <1>2 DEF Chaining, Request, Chains, IInv, HintInv, Taken
<1>4. ~ Shrinking /\ ~ Shrinking' /\ Kept' = Kept
  BY <1>2 DEF Shrinking, Kept
<1>5. Tiled(fat, Kept, ch, x, k)' /\ Ends(ch)'
  BY <1>1, <1>2, <1>4 DEF Chaining, Ends
<1>6. Request(ch, x, k)'
  BY <1>2, <1>3 DEF Request
<1> QED
  BY <1>5, <1>6 DEF Accounted, Chaining

\* The end of the new chain is marked.
LEMMA EndChainChains ==
    ASSUME IInv, TypeOK', Accounted, EndChain PROVE Accounted'
<1>1. PICK ch \in [Files -> Chains], x \in Chains, k \in Nat : Chaining(ch, x, k)
  BY DEF Accounted
<1>2. /\ pc = "end" /\ pc' = "link" /\ FAT_CHAIN' = FAT_CHAIN /\ head' = head
      /\ size' = size /\ req' = req /\ fat' = FAT_SET(prev, EOC)
  BY DEF EndChain, file
<1>3. k > 0 /\ req.clusters = k /\ prev = x[k - 1] /\ FAT_CHAIN = x[0] /\ prev \in Clusters
  BY <1>1, <1>2 DEF Chaining, Request, Chains, IInv, HintInv, TypeOK
<1>4. /\ fat \in Fats /\ Kept \in Lengths /\ fat' \in Fats /\ TypeOK
      /\ fat' = [fat EXCEPT ![x[k - 1]] = EOC]
  <2>1. TypeOK
    BY DEF IInv
  <2> QED
    BY <1>2, <1>3, <2>1, KeptType DEF TypeOK, Fats, FAT_SET
<1>5. Tiled(fat', Kept, ch, x, k)
  <2>1. k \in Nat \ {0} /\ Tiled(fat, Kept, ch, x, k)
    BY <1>1, <1>3 DEF Chaining
  <2> QED
    BY <1>4, <2>1, Ending
<1>6. \A f \in Files : ~ Among(x[k - 1], ch[f], Kept[f])
  <2>1. Among(x[k - 1], x, k)
    BY <1>3 DEF Among
  <2> QED
    BY <1>1, <1>3, <2>1 DEF Chaining, Tiled, Apart
<1>7. ~ Shrinking /\ ~ Shrinking'
  BY <1>2 DEF Shrinking
<1>8. \A d \in Clusters : d # x[k - 1] => fat'[d] = fat[d]
  BY <1>4 DEF Fats
<1>9. Ends(ch)' /\ Kept' = Kept
  <2>1. x[k - 1] \in Clusters /\ Ends(ch) /\ Shrinking' = Shrinking
    BY <1>1, <1>3, <1>7 DEF Chaining, Shrinking
  <2> QED
    BY <1>2, <1>4, <1>6, <1>8, <2>1, EndsStay
<1>10. fat'[x[k - 1]] = EOC
  BY <1>3, <1>4 DEF Fats
<1>11. Request(ch, x, k)'
  BY <1>2, <1>3, <1>10 DEF Request
<1> QED
  BY <1>5, <1>9, <1>11 DEF Accounted, Chaining

\* A file between requests: where walking its chain leads.
LEMMA FileWalk ==
    ASSUME TypeOK, NEW ch \in [Files -> Chains], NEW x, NEW k, Tiled(fat, Kept, ch, x, k), Ends(ch),
           ~ Shrinking, NEW f \in Files, NEW i \in 0..size[f]
    PROVE  /\ Kept = size /\ size[f] \in Nat
           /\ size[f] > 0 => /\ LOG_PHYS_CLU(f, i) = IF i < size[f] THEN ch[f][i] ELSE EOC
                             /\ fat[ch[f][size[f] - 1]] = EOC
           /\ size[f] = 0 => LOG_PHYS_CLU(f, i) = EOC
<1>1. Kept = size /\ size[f] \in Nat /\ ch[f] \in Chains
  BY KeptAll DEF TypeOK
<1>2. CASE size[f] > 0
  <2>1. /\ \A j \in 0..size[f] - 2 : fat[ch[f][j]] = ch[f][j + 1]
        /\ head[f] = ch[f][0] /\ fat[ch[f][size[f] - 1]] = EOC
    BY <1>1, <1>2 DEF Tiled, FilesLinked, Linked, Ends
  <2> QED
    BY <1>1, <1>2, <2>1, Walks
<1>3. CASE size[f] = 0
  BY <1>1, <1>3 DEF Ends, LOG_PHYS_CLU
<1> QED
  BY <1>1, <1>2, <1>3

\* The new chain becomes part of the file.
LEMMA LinkChains ==
    ASSUME IInv, TypeOK', Accounted, Link PROVE Accounted'
<1>1. PICK ch \in [Files -> Chains], x \in Chains, k \in Nat : Chaining(ch, x, k)
  BY DEF Accounted
<1>2. PICK f \in Files : f = req.file
  BY DEF IInv, TypeOK
<1> DEFINE n == size[f]
           last == LOG_PHYS_CLU(f, n - 1)
<1>3. /\ pc = "link" /\ pc' = "idle" /\ req' = req /\ ~ Shrinking /\ ~ Shrinking'
      /\ TypeOK /\ n \in Nat /\ size \in [Files -> Nat] /\ head \in [Files -> Clusters \cup {0}]
  BY DEF Link, Shrinking, IInv, TypeOK
<1>4. k > 0 /\ req.clusters = k /\ FAT_CHAIN = x[0] /\ x[0] \in Clusters /\ fat[x[k - 1]] = EOC
  BY <1>1, <1>3 DEF Chaining, Request, Chains
<1>5. Kept = size /\ (n > 0 => last = ch[f][n - 1] /\ last \in Clusters)
  <2>1. Tiled(fat, Kept, ch, x, k) /\ Ends(ch)
    BY <1>1 DEF Chaining
  <2>2. n \in 0..size[f] /\ Kept = size
    BY <1>3, KeptAll
  <2>3. CASE n > 0
    <3>1. n - 1 \in 0..size[f] /\ n - 1 < size[f]
      BY <1>3, <2>3
    <3>2. last = ch[f][n - 1]
      BY <1>3, <2>1, <2>3, <3>1, FileWalk
    <3> QED
      BY <1>3, <2>2, <2>3, <3>2 DEF Chains
  <2> QED
    BY <1>3, <2>2, <2>3
<1>6. /\ n = 0 => head' = [head EXCEPT ![f] = x[0]] /\ fat' = fat
      /\ n > 0 => head' = head /\ fat' = [fat EXCEPT ![ch[f][n - 1]] = x[0]]
      /\ size' = [size EXCEPT ![f] = n + k]
  <2>1. n > 0 => last # EOC
    BY <1>5
  <2> QED
    BY <1>2, <1>3, <1>4, <1>5, <2>1 DEF Link, FAT_SET
<1>7. PICK y \in Chains : \A i \in Nat : y[i] = IF i < n THEN ch[f][i] ELSE x[i - n]
  <2> DEFINE y == [i \in Nat |-> IF i < n THEN ch[f][i] ELSE x[i - n]]
  <2>1. y \in Chains
    BY <1>3 DEF Chains
  <2> QED
    BY <2>1
<1>8. PICK c \in [Files -> Chains] : c = [ch EXCEPT ![f] = y]
  OBVIOUS
<1>9. fat \in Fats /\ fat' \in Fats /\ size \in Lengths /\ size' \in Lengths /\ Kept' = size'
  BY <1>3, KeptAll DEF TypeOK, Fats, Lengths, Kept
<1>10. Tiled(fat', size', c, x, 0)
  <2>1. Tiled(fat, size, ch, x, k) /\ fat[x[k - 1]] # 0
    BY <1>1, <1>4, <1>5 DEF Chaining
  <2>2. fat' = IF size[f] = 0 THEN fat ELSE [fat EXCEPT ![ch[f][size[f] - 1]] = x[0]]
    BY <1>3, <1>6
  <2>3. /\ k \in Nat \ {0} /\ fat \in Fats /\ fat' \in Fats /\ size \in Lengths /\ size' \in Lengths
        /\ \A i \in Nat : y[i] = IF i < size[f] THEN ch[f][i] ELSE x[i - size[f]]
        /\ size' = [size EXCEPT ![f] = size[f] + k]
    BY <1>4, <1>6, <1>7, <1>9
  <2> HIDE DEF last, n
  <2> QED
    BY <1>8, <2>1, <2>2, <2>3, Joining
<1>11. Ends(c)'
  <2> SUFFICES ASSUME NEW g \in Files
               PROVE  /\ size'[g] = 0 <=> head'[g] = 0
                      /\ size'[g] > 0 => /\ head'[g] = c[g][0]
                                         /\ fat'[c[g][size'[g] - 1]] = EOC
    BY <1>3, <1>9 DEF Ends
  <2>1. /\ size[g] = 0 <=> head[g] = 0
        /\ size[g] > 0 => head[g] = ch[g][0] /\ fat[ch[g][size[g] - 1]] = EOC
    BY <1>1, <1>3, <1>5 DEF Chaining, Ends
  <2>2. CASE g = f
    <3>1. size'[g] = n + k /\ c[g] = y /\ n + k > 0
      BY <1>3, <1>4, <1>6, <1>8, <2>2
    <3>2. head'[g] = y[0] /\ head'[g] # 0
      <4>1. CASE n = 0
        BY <1>3, <1>4, <1>6, <1>7, <2>2, <4>1
      <4>2. CASE n > 0
        <5>1. y[0] = ch[f][0] /\ ch[f][0] \in Clusters
          BY <1>7, <4>2 DEF Chains
        <5> QED
          BY <1>6, <2>1, <2>2, <4>2, <5>1
      <4> QED
        BY <1>3, <4>1, <4>2
    <3>3. y[(n + k) - 1] = x[k - 1] /\ x[k - 1] \in Clusters
      <4>1. PICK i \in Nat : i = (n + k) - 1
        BY <1>3, <1>4
      <4>2. ~ (i < n) /\ i - n = k - 1 /\ k - 1 \in Nat
        BY <1>3, <1>4, <4>1
      <4>3. y[i] = x[i - n]
        BY <1>7, <4>2
      <4> QED
        BY <4>1, <4>2, <4>3 DEF Chains
    <3>4. fat'[x[k - 1]] = EOC
      <4>1. n > 0 => ch[f][n - 1] # x[k - 1]
        <5>1. Among(x[k - 1], x, k) /\ (n > 0 => Among(ch[f][n - 1], ch[f], n))
          BY <1>3, <1>4 DEF Among
        <5> QED
          BY <1>1, <1>5, <3>3, <5>1 DEF Chaining, Tiled, Apart
      <4> QED
        BY <1>3, <1>4, <1>6, <1>9, <3>3, <4>1 DEF Fats
    <3> QED
      BY <3>1, <3>2, <3>3, <3>4
  <2>3. CASE g # f
    <3>1. size'[g] = size[g] /\ head'[g] = head[g] /\ c[g] = ch[g]
      BY <1>3, <1>6, <1>8, <2>3
    <3>2. CASE size[g] > 0
      <4>1. Among(ch[g][size[g] - 1], ch[g], size[g]) /\ ch[g][size[g] - 1] \in Clusters
        BY <1>3, <3>2 DEF Among, Chains
      <4>2. n > 0 => Among(ch[f][n - 1], ch[f], n) /\ ch[f][n - 1] \in Clusters
        BY <1>3, <1>5 DEF Among
      <4>3. n > 0 => ch[g][size[g] - 1] # ch[f][n - 1]
        BY <1>1, <1>5, <2>3, <4>1, <4>2 DEF Chaining, Tiled, Apart
      <4>4. fat'[ch[g][size[g] - 1]] = fat[ch[g][size[g] - 1]]
        BY <1>3, <1>6, <1>9, <4>1, <4>3 DEF Fats
      <4> QED
        BY <2>1, <3>1, <3>2, <4>4
    <3>3. CASE size[g] = 0
      BY <2>1, <3>1, <3>3
    <3> QED
      BY <1>3, <3>2, <3>3
  <2> QED
    BY <2>2, <2>3
<1>12. Request(c, x, 0)'
  BY <1>3 DEF Request
<1> QED
  BY <1>9, <1>10, <1>11, <1>12 DEF Accounted, Chaining

\* A cluster in the middle of the chain is freed.
LEMMA FreeStepChains ==
    ASSUME IInv, TypeOK', Accounted, FreeStep PROVE Accounted'
<1>1. PICK ch \in [Files -> Chains], x \in Chains, k \in Nat : Chaining(ch, x, k)
  BY DEF Accounted
<1>2. /\ pc = "free" /\ pc' = "free" /\ FAT_LOOKUP(de) \notin {0, EOC} /\ de' = FAT_LOOKUP(de)
      /\ fat' = FAT_SET(de, 0) /\ after' = after /\ req' = req /\ head' = head /\ size' = size
      /\ TypeOK
  BY DEF FreeStep, file, IInv
<1>3. k > 0 /\ de = x[0] /\ x[0] \in Clusters /\ fat[x[k - 1]] \in {0, EOC}
  BY <1>1, <1>2 DEF Chaining, Request, Chains
<1>4. k > 1
  BY <1>2, <1>3 DEF FAT_LOOKUP
<1>5. de' = x[1]
  <2>1. fat[x[0]] = x[1]
    BY <1>1, <1>4 DEF Chaining, Tiled, Linked
  <2> QED
    BY <1>2, <1>3, <2>1 DEF FAT_LOOKUP
<1>6. fat \in Fats /\ fat' \in Fats /\ Kept \in Lengths /\ fat' = [fat EXCEPT ![x[0]] = 0]
  BY <1>2, <1>3, KeptType DEF TypeOK, Fats, FAT_SET
<1>7. PICK y \in Chains : \A i \in Nat : y[i] = x[i + 1]
  <2> DEFINE y == [i \in Nat |-> x[i + 1]]
  <2>1. y \in Chains
    BY DEF Chains
  <2> QED
    BY <2>1
<1>8. Tiled(fat', Kept, ch, y, k - 1)
  <2>1. k \in Nat \ {0} /\ Tiled(fat, Kept, ch, x, k)
    BY <1>1, <1>3 DEF Chaining
  <2> QED
    BY <1>6, <1>7, <2>1, Freeing
<1>9. \A f \in Files : ~ Among(x[0], ch[f], Kept[f])
  <2>1. Among(x[0], x, k)
    BY <1>3 DEF Among
  <2> QED
    BY <1>1, <1>3, <2>1 DEF Chaining, Tiled, Apart
<1>10. Shrinking' = Shrinking
  BY <1>2 DEF Shrinking
<1>11. \A d \in Clusters : d # x[0] => fat'[d] = fat[d]
  BY <1>6 DEF Fats
<1>12. Ends(ch)' /\ Kept' = Kept
  BY <1>1, <1>2, <1>3, <1>9, <1>10, <1>11, EndsStay DEF Chaining
<1>13. Request(ch, y, k - 1)'
  <2>1. y[0] = x[1] /\ y[(k - 1) - 1] = x[k - 1]
    BY <1>4, <1>7
  <2>2. x[k - 1] \in Clusters /\ x[k - 1] # x[0]
    BY <1>1, <1>4 DEF Chaining, Tiled, Linked, Chains
  <2>3. fat'[x[k - 1]] \in {0, EOC}
    BY <1>3, <1>11, <2>2
  <2> QED
    BY <1>1, <1>2, <1>4, <1>5, <2>1, <2>3 DEF Chaining, Request
<1>14. k - 1 \in Nat
  BY <1>3
<1> QED
  BY <1>8, <1>12, <1>13, <1>14 DEF Accounted, Chaining

\* The last cluster of the chain is freed.
LEMMA FreeLastChains ==
    ASSUME IInv, TypeOK', Accounted, FreeLast PROVE Accounted'
<1>1. PICK ch \in [Files -> Chains], x \in Chains, k \in Nat : Chaining(ch, x, k)
  BY DEF Accounted
<1>2. /\ pc = "free" /\ FAT_LOOKUP(de) \in {0, EOC}
      /\ fat' = FAT_SET(de, 0) /\ after' = after /\ req' = req
      /\ pc' = (IF after = "cut" THEN "cut" ELSE "idle")
      /\ IF after = "gone"
         THEN head' = [head EXCEPT ![req.file] = 0] /\ size' = [size EXCEPT ![req.file] = 0]
         ELSE head' = head /\ size' = size
      /\ TypeOK /\ after \in {"full", "cut", "gone"}
      /\ size \in [Files -> Nat] /\ head \in [Files -> Clusters \cup {0}] /\ req.file \in Files
  BY DEF FreeLast, file, free, IInv, TypeOK
<1>3. k > 0 /\ de = x[0] /\ x[0] \in Clusters
  BY <1>1, <1>2 DEF Chaining, Request, Chains
<1>4. k = 1
  <2>1. k > 1 => fat[x[0]] = x[1] /\ x[1] \in Clusters
    BY <1>1 DEF Chaining, Tiled, Linked, Chains
  <2> QED
    BY <1>2, <1>3, <2>1 DEF FAT_LOOKUP
<1>5. fat \in Fats /\ fat' \in Fats /\ Kept \in Lengths /\ fat' = [fat EXCEPT ![x[0]] = 0]
  BY <1>2, <1>3, KeptType DEF TypeOK, Fats, FAT_SET
<1>6. PICK y \in Chains : \A i \in Nat : y[i] = x[i + 1]
  <2> DEFINE y == [i \in Nat |-> x[i + 1]]
  <2>1. y \in Chains
    BY DEF Chains
  <2> QED
    BY <2>1
<1>7. Tiled(fat', Kept, ch, y, 0)
  <2>1. k \in Nat \ {0} /\ Tiled(fat, Kept, ch, x, k)
    BY <1>1, <1>3 DEF Chaining
  <2>2. Tiled(fat', Kept, ch, y, k - 1)
    BY <1>5, <1>6, <2>1, Freeing
  <2> QED
    BY <1>4, <2>2
<1>8. \A f \in Files : ~ Among(x[0], ch[f], Kept[f])
  <2>1. Among(x[0], x, k)
    BY <1>3 DEF Among
  <2> QED
    BY <1>1, <1>3, <2>1 DEF Chaining, Tiled, Apart
<1>9. \A d \in Clusters : d # x[0] => fat'[d] = fat[d]
  BY <1>5 DEF Fats
<1>10. CASE after = "gone"
  <2>1. Kept[req.file] = 0 /\ Kept' = Kept /\ \A f \in Files : f # req.file => Kept[f] = size[f]
    <3>1. Kept[req.file] = 0
      BY <1>1, <1>2, <1>10 DEF Chaining, Request, Kept, Shrinking
    <3>2. Kept' = size' /\ \A f \in Files : f # req.file => Kept[f] = size[f]
      BY <1>2, <1>10 DEF Kept, Shrinking
    <3>3. \A f \in Files : size'[f] = Kept[f]
      BY <1>2, <1>10, <3>1, <3>2
    <3> QED
      BY <1>2, <1>10, <3>1, <3>2, <3>3 DEF Kept
  <2>2. Ends(ch)'
    <3> SUFFICES ASSUME NEW f \in Files
                 PROVE  /\ size'[f] = 0 <=> head'[f] = 0
                        /\ Kept[f] > 0 => /\ head'[f] = ch[f][0]
                                          /\ fat'[ch[f][Kept[f] - 1]] = EOC
      BY <2>1 DEF Ends
    <3>1. CASE f = req.file
      BY <1>2, <1>10, <2>1, <3>1
    <3>2. CASE f # req.file
      <4>1. Kept[f] = size[f] /\ size'[f] = size[f] /\ head'[f] = head[f] /\ size[f] \in Nat
        BY <1>2, <1>10, <2>1, <3>2
      <4>2. /\ size[f] = 0 <=> head[f] = 0
            /\ size[f] > 0 => head[f] = ch[f][0] /\ fat[ch[f][size[f] - 1]] = EOC
        BY <1>1, <3>2, <4>1 DEF Chaining, Ends
      <4>3. size[f] > 0 => /\ ch[f][size[f] - 1] \in Clusters
                           /\ Among(ch[f][size[f] - 1], ch[f], size[f])
        BY <4>1 DEF Among, Chains
      <4>4. size[f] > 0 => fat'[ch[f][size[f] - 1]] = EOC
        BY <1>8, <1>9, <4>1, <4>2, <4>3
      <4> QED
        BY <4>1, <4>2, <4>4
    <3> QED
      BY <3>1, <3>2
  <2>3. Request(ch, y, 0)'
    BY <1>2, <1>10 DEF Request
  <2> QED
    BY <1>7, <2>1, <2>2, <2>3 DEF Accounted, Chaining
<1>11. CASE after # "gone"
  <2>1. Shrinking' = Shrinking /\ head' = head /\ size' = size
    BY <1>2, <1>11 DEF Shrinking
  <2>2. Ends(ch)' /\ Kept' = Kept
    BY <1>1, <1>2, <1>3, <1>8, <1>9, <2>1, EndsStay DEF Chaining
  <2>3. Request(ch, y, 0)'
    BY <1>1, <1>2, <1>11 DEF Chaining, Request
  <2> QED
    BY <1>7, <2>2, <2>3 DEF Accounted, Chaining
<1> QED
  BY <1>10, <1>11

\* A file is cut down to n clusters, or to none: the rest is to be freed.
LEMMA StartFreeChains ==
    ASSUME TypeOK, NEW ch \in [Files -> Chains], NEW x \in Chains, Chaining(ch, x, 0), pc = "idle",
           NEW f \in Files, NEW n \in Nat, n < size[f],
           NEW c, c = ch[f][n], NEW ret, StartFree(c, ret),
           req'.file = f, req'.clusters = n,
           \/ n = 0 /\ ret = "gone"
           \/ n > 0 /\ ret = "cut" /\ req'.last = ch[f][n - 1]
    PROVE  Accounted'
<1>1. /\ pc' = "free" /\ de' = ch[f][n] /\ after' = ret /\ fat' = fat /\ head' = head
      /\ size' = size /\ size \in [Files -> Nat] /\ size[f] \in Nat
  BY DEF StartFree, file, TypeOK
<1>2. ~ Shrinking /\ Shrinking' /\ Kept = size
  BY <1>1, KeptAll DEF Shrinking
<1>3. PICK y \in Chains : \A i \in Nat : y[i] = ch[f][n + i]
  <2> DEFINE y == [i \in Nat |-> ch[f][n + i]]
  <2>1. y \in Chains
    BY DEF Chains
  <2> QED
    BY <2>1
<1> DEFINE m == size[f] - n
<1>4. Kept' = [size EXCEPT ![f] = n]
  BY <1>1, <1>2 DEF Kept
<1>5. Tiled(fat', Kept', ch, y, m)
  <2>1. Tiled(fat, size, ch, x, 0) /\ fat \in Fats /\ size \in Lengths /\ n \in 0..size[f]
    BY <1>1, <1>2 DEF Chaining, TypeOK, Fats, Lengths
  <2>2. PICK M \in Lengths : M = [size EXCEPT ![f] = n]
    BY <1>1 DEF Lengths
  <2>3. Tiled(fat, M, ch, y, size[f] - n)
    BY <1>3, <2>1, <2>2, Shortening
  <2> QED
    BY <1>1, <1>4, <2>2, <2>3
<1>6. \A g \in Files : /\ size[g] = 0 <=> head[g] = 0
                       /\ size[g] > 0 => head[g] = ch[g][0] /\ fat[ch[g][size[g] - 1]] = EOC
  BY <1>2 DEF Chaining, Ends
<1>7. Ends(ch)'
  <2> SUFFICES ASSUME NEW g \in Files
               PROVE  /\ size[g] = 0 <=> head[g] = 0
                      /\ Kept'[g] > 0 => /\ head[g] = ch[g][0]
                                         /\ g # f => fat[ch[g][Kept'[g] - 1]] = EOC
    BY <1>1, <1>2 DEF Ends
  <2>1. g = f => size[g] > 0
    BY <1>1
  <2>2. g # f => Kept'[g] = size[g]
    BY <1>1, <1>4
  <2> QED
    BY <1>6, <2>1, <2>2
<1>8. \A k \in Nat : k = m => Request(ch, y, k)'
  <2>1. size[f] - n \in Nat /\ size[f] - n > 0 /\ n + ((size[f] - n) - 1) = size[f] - 1
        /\ (size[f] - n) - 1 \in Nat
    BY <1>1
  <2>2. y[0] = ch[f][n] /\ y[(size[f] - n) - 1] = ch[f][size[f] - 1]
    BY <1>3, <2>1
  <2>3. fat'[y[(size[f] - n) - 1]] = EOC
    BY <1>1, <1>6, <2>2
  <2> QED
    BY <1>1, <2>1, <2>2, <2>3 DEF Request
<1>9. PICK k \in Nat : k = m
  BY <1>1
<1> QED
  BY <1>5, <1>7, <1>8, <1>9 DEF Accounted, Chaining

\* A file is cut down to some of its clusters.
LEMMA TruncateChains ==
    ASSUME IInv, Accounted, Truncate PROVE Accounted'
<1>1. PICK ch \in [Files -> Chains], x \in Chains, k \in Nat : Chaining(ch, x, k)
  BY DEF Accounted
<1>2. PICK f \in Files, n \in Int :
        LET last == LOG_PHYS_CLU(f, n - 1)
            tail == FAT_LOOKUP(last)
        IN  /\ n \in 1..size[f] /\ pc = "idle" /\ last # EOC
            /\ req' = [file |-> f, clusters |-> n, last |-> last]
            /\ IF tail # EOC
               THEN StartFree(tail, "cut") /\ trusted' = (trusted /\ tail # 0)
               ELSE /\ pc' = "cut"
                    /\ UNCHANGED <<fat, medium, aclu, FAT_CHAIN, alloc, free, file, history>>
  BY DEF Truncate
<1> DEFINE last == LOG_PHYS_CLU(f, n - 1)
           tail == FAT_LOOKUP(last)
<1>3. /\ pc = "idle" /\ k = 0 /\ ~ Shrinking /\ TypeOK
      /\ n \in Nat \ {0} /\ size[f] \in Nat /\ n <= size[f]
  BY <1>1, <1>2 DEF Chaining, Request, Shrinking, IInv, TypeOK
<1>4. last = ch[f][n - 1] /\ Kept = size
  <2>1. n - 1 \in 0..size[f] /\ n - 1 < size[f]
    BY <1>3
  <2>2. Tiled(fat, Kept, ch, x, k) /\ Ends(ch)
    BY <1>1 DEF Chaining
  <2> QED
    BY <1>3, <2>1, <2>2, FileWalk
<1>5. /\ n < size[f] => tail = ch[f][n] /\ tail # EOC
      /\ n = size[f] => tail = EOC
  <2>1. last \in Clusters /\ ch[f][n] \in Clusters
    BY <1>3, <1>4 DEF Chains
  <2>2. n < size[f] => fat[ch[f][n - 1]] = ch[f][n]
    <3>1. n < size[f] => n - 1 \in 0..size[f] - 2 /\ (n - 1) + 1 = n
      BY <1>3
    <3>2. Linked(fat, ch[f], size[f])
      BY <1>1, <1>4 DEF Chaining, Tiled, FilesLinked
    <3> QED
      BY <3>1, <3>2 DEF Linked
  <2>3. n = size[f] => fat[ch[f][n - 1]] = EOC
    BY <1>1, <1>3, <1>4 DEF Chaining, Ends
  <2> QED
    BY <1>4, <2>1, <2>2, <2>3 DEF FAT_LOOKUP
<1>6. CASE n < size[f]
  <2>1. StartFree(ch[f][n], "cut")
    BY <1>2, <1>5, <1>6
  <2>2. req'.file = f /\ req'.clusters = n /\ req'.last = ch[f][n - 1]
    BY <1>2, <1>4
  <2>3. Chaining(ch, x, 0)
    BY <1>1, <1>3
  <2> HIDE DEF last, tail
  <2> QED
    BY <1>3, <1>6, <2>1, <2>2, <2>3, StartFreeChains
<1>7. CASE n = size[f]
  <2>1. /\ pc' = "cut" /\ fat' = fat /\ head' = head /\ size' = size
        /\ req'.file = f /\ req'.clusters = n /\ req'.last = ch[f][n - 1]
    BY <1>2, <1>4, <1>5, <1>7 DEF file
  <2>2. Kept' = Kept
    <3>1. \A g \in Files : (IF Shrinking' /\ g = req'.file THEN req'.clusters ELSE size'[g]) = size[g]
      BY <1>7, <2>1
    <3> QED
      BY <1>3, <1>4, <3>1, KeptAll DEF Kept, TypeOK, IInv
  <2>3. Ends(ch)'
    BY <1>1, <1>3, <2>1, <2>2 DEF Chaining, Ends
  <2>4. Request(ch, x, k)' /\ Tiled(fat, Kept, ch, x, k)'
    BY <1>1, <1>3, <2>1, <2>2 DEF Chaining, Request
  <2> QED
    BY <2>3, <2>4 DEF Accounted, Chaining
<1> QED
  BY <1>3, <1>6, <1>7

\* A file is cut down to nothing, or deleted.
LEMMA EmptyFileChains ==
    ASSUME IInv, Accounted, EmptyFile PROVE Accounted'
<1>1. PICK ch \in [Files -> Chains], x \in Chains, k \in Nat : Chaining(ch, x, k)
  BY DEF Accounted
<1>2. PICK f \in Files : /\ pc = "idle" /\ head[f] # 0
                         /\ req' = [file |-> f, clusters |-> 0, last |-> EOC]
                         /\ StartFree(head[f], "gone")
  BY DEF EmptyFile
<1>3. Chaining(ch, x, 0) /\ ~ Shrinking /\ TypeOK /\ size[f] \in Nat /\ Kept = size
  BY <1>1, <1>2, KeptAll DEF Chaining, Request, Shrinking, IInv, TypeOK
<1>4. size[f] > 0 /\ head[f] = ch[f][0]
  BY <1>2, <1>3 DEF Chaining, Ends
<1> QED
  BY <1>2, <1>3, <1>4, StartFreeChains

\* The end of the shortened chain is marked.
LEMMA CutChains ==
    ASSUME IInv, TypeOK', Accounted, Cut PROVE Accounted'
<1>1. PICK ch \in [Files -> Chains], x \in Chains, k \in Nat : Chaining(ch, x, k)
  BY DEF Accounted
<1>2. PICK f \in Files : f = req.file
  BY DEF IInv, TypeOK
<1>3. /\ pc = "cut" /\ pc' = "idle" /\ fat' = FAT_SET(req.last, EOC) /\ head' = head /\ req' = req
      /\ size' = [size EXCEPT ![f] = req.clusters] /\ TypeOK
      /\ Shrinking /\ ~ Shrinking' /\ req.clusters \in Nat /\ size \in [Files -> Nat]
  BY <1>2 DEF Cut, IInv, TypeOK, Shrinking
<1>4. k = 0 /\ req.clusters > 0 /\ Kept[f] = req.clusters /\ req.last = ch[f][Kept[f] - 1]
      /\ Tiled(fat, Kept, ch, x, 0)
  BY <1>1, <1>2, <1>3 DEF Chaining, Request, Kept
<1>5. Kept' = Kept
  BY <1>2, <1>3 DEF Kept
<1>6. req.last \in Clusters /\ Among(req.last, ch[f], Kept[f])
  BY <1>3, <1>4 DEF Among, Chains
<1>7. fat \in Fats /\ fat' \in Fats /\ Kept \in Lengths
      /\ fat' = [fat EXCEPT ![ch[f][Kept[f] - 1]] = EOC]
  BY <1>3, <1>4, <1>6, KeptType DEF TypeOK, Fats, FAT_SET
<1>8. Tiled(fat', Kept, ch, x, 0)
  BY <1>4, <1>7, Marking
<1>9. Ends(ch)'
  <2> SUFFICES ASSUME NEW g \in Files
               PROVE  /\ size'[g] = 0 <=> head[g] = 0
                      /\ Kept[g] > 0 => head[g] = ch[g][0] /\ fat'[ch[g][Kept[g] - 1]] = EOC
    BY <1>3, <1>5 DEF Ends
  <2>1. /\ size[g] = 0 <=> head[g] = 0
        /\ Kept[g] > 0 => head[g] = ch[g][0]
        /\ Kept[g] > 0 /\ g # f => fat[ch[g][Kept[g] - 1]] = EOC
    BY <1>1, <1>2 DEF Chaining, Ends
  <2>2. CASE g = f
    <3>1. size'[f] > 0 /\ head[f] = ch[f][0] /\ ch[f][0] \in Clusters
      BY <1>3, <1>4, <2>1, <2>2 DEF Chains
    <3>2. fat'[ch[f][Kept[f] - 1]] = EOC
      BY <1>4, <1>6, <1>7 DEF Fats
    <3> QED
      BY <2>2, <3>1, <3>2
  <2>3. CASE g # f
    <3>1. size'[g] = size[g] /\ Kept[g] \in Nat
      BY <1>3, <1>7, <2>3 DEF Lengths
    <3>2. Kept[g] > 0 => /\ ch[g][Kept[g] - 1] \in Clusters
                         /\ Among(ch[g][Kept[g] - 1], ch[g], Kept[g])
      BY <3>1 DEF Among, Chains
    <3>3. Kept[g] > 0 => ch[g][Kept[g] - 1] # ch[f][Kept[f] - 1]
      BY <1>4, <1>6, <2>3, <3>2 DEF Tiled, Apart
    <3>4. Kept[g] > 0 => fat'[ch[g][Kept[g] - 1]] = fat[ch[g][Kept[g] - 1]]
      BY <1>4, <1>6, <1>7, <3>2, <3>3 DEF Fats
    <3> QED
      BY <2>1, <2>3, <3>1, <3>4
  <2> QED
    BY <2>2, <2>3
<1>10. Request(ch, x, 0)'
  BY <1>3 DEF Request
<1> QED
  BY <1>5, <1>8, <1>9, <1>10 DEF Accounted, Chaining

\* The search passes a cluster in use.
LEMMA ScanUsedChains ==
    ASSUME IInv, Accounted, ScanUsed PROVE Accounted'
<1>1. PICK ch \in [Files -> Chains], x \in Chains, k \in Nat : Chaining(ch, x, k)
  BY DEF Accounted
<1>2. /\ pc = "scan" /\ pc' = "scan" /\ cur' = cur + 1 /\ fat' = fat /\ head' = head /\ size' = size
      /\ req' = req /\ want' = want /\ prev' = prev /\ FAT_CHAIN' = FAT_CHAIN /\ cur \in Nat
  BY FatAssumption DEF ScanUsed, free, file, IInv, TypeOK
<1>3. ~ Shrinking /\ ~ Shrinking' /\ Kept' = Kept
  BY <1>2 DEF Shrinking, Kept
<1>4. Tiled(fat, Kept, ch, x, k)' /\ Ends(ch)'
  BY <1>1, <1>2, <1>3 DEF Chaining, Ends
<1>5. Request(ch, x, k)'
  <2>1. \A i \in 0..k - 1 : x[i] <= cur /\ x[i] \in Nat
    BY <1>1, <1>2, FatAssumption DEF Chaining, Request, Chains, Clusters
  <2>2. \A i \in 0..k - 1 : x[i] <= cur'
    BY <1>2, <2>1
  <2> QED
    BY <1>1, <1>2, <2>2 DEF Chaining, Request
<1> QED
  BY <1>4, <1>5 DEF Accounted, Chaining

\* Writing the buffers, or the hint, changes no chain.
LEMMA SameChains ==
    ASSUME Accounted, fat' = fat, head' = head, size' = size, req' = req, pc' = pc, after' = after,
           cur' = cur, want' = want, prev' = prev, FAT_CHAIN' = FAT_CHAIN, de' = de
    PROVE  Accounted'
<1>1. PICK ch \in [Files -> Chains], x \in Chains, k \in Nat : Chaining(ch, x, k)
  BY DEF Accounted
<1>2. Shrinking' = Shrinking /\ Kept' = Kept
  BY DEF Shrinking, Kept
<1>3. Tiled(fat, Kept, ch, x, k)' /\ Ends(ch)'
  BY <1>1, <1>2 DEF Chaining, Ends
<1>4. Request(ch, x, k)'
  BY <1>1, <1>2 DEF Chaining, Request
<1> QED
  BY <1>3, <1>4 DEF Accounted, Chaining

\* Every step keeps every cluster in use in one chain.
LEMMA ChainStep == ASSUME IInv, TypeOK', ChainInv, [Next]_vars PROVE ChainInv'
<1> SUFFICES ASSUME aborts' = 0 PROVE Accounted'
  BY DEF ChainInv
<1>1. aborts \in Nat
  BY DEF IInv, TypeOK
<1>2. ASSUME aborts' = aborts PROVE Accounted
  BY <1>2 DEF ChainInv
<1>3. CASE Extend
  BY <1>2, <1>3, ExtendChains DEF Extend, history, IInv
<1>4. CASE Truncate
  BY <1>2, <1>4, TruncateChains DEF Truncate, StartFree, history
<1>5. CASE EmptyFile
  BY <1>2, <1>5, EmptyFileChains DEF EmptyFile, StartFree
<1>6. CASE ScanUsed
  BY <1>2, <1>6, ScanUsedChains DEF ScanUsed, history
<1>7. CASE ScanFree
  BY <1>2, <1>7, ScanFreeChains DEF ScanFree, history
<1>8. CASE DiskFull
  BY <1>2, <1>8, DiskFullChains DEF DiskFull
<1>9. CASE EndChain
  BY <1>2, <1>9, EndChainChains DEF EndChain, history
<1>10. CASE Link
  BY <1>2, <1>10, LinkChains DEF Link, history
<1>11. CASE FreeStep
  BY <1>2, <1>11, FreeStepChains DEF FreeStep, history
<1>12. CASE FreeLast
  BY <1>2, <1>12, FreeLastChains DEF FreeLast
<1>13. CASE Cut
  BY <1>2, <1>13, CutChains DEF Cut, history
<1>14. CASE WriteBack
  BY <1>2, <1>14, SameChains DEF WriteBack, alloc, free, file, history
<1>15. CASE WriteAbsolute
  BY <1>2, <1>15, SameChains DEF WriteAbsolute, alloc, free, file
<1>16. CASE Abort
  BY <1>1, <1>16 DEF Abort
<1>17. CASE UNCHANGED vars
  BY <1>2, <1>17, SameChains DEF vars, alloc, free, file, history
<1> QED
  BY <1>3, <1>4, <1>5, <1>6, <1>7, <1>8, <1>9, <1>10, <1>11, <1>12, <1>13, <1>14, <1>15, <1>16, <1>17
     DEF Next, Running

\* The chains of the invariant are the ones LOG_PHYS_CLU walks along.
LEMMA ChainsFollow == ASSUME IInv, ChainInv PROVE ChainsSound
<1> SUFFICES ASSUME pc = "idle", aborts = 0
             PROVE  /\ \A f \in Files : /\ Cardinality(ClustersOf(f)) = size[f]
                                        /\ LOG_PHYS_CLU(f, size[f]) = EOC
                    /\ \A f, g \in Files : f # g => ClustersOf(f) \cap ClustersOf(g) = {}
                    /\ {c \in Clusters : fat[c] # 0} = UNION {ClustersOf(f) : f \in Files}
  BY DEF ChainsSound
<1>1. PICK ch \in [Files -> Chains], x \in Chains, k \in Nat : Chaining(ch, x, k)
  BY DEF ChainInv, Accounted
<1>2. k = 0 /\ ~ Shrinking /\ TypeOK /\ Kept = size /\ size \in [Files -> Nat]
  BY <1>1, KeptAll DEF Chaining, Request, Shrinking, IInv, TypeOK
<1>3. FilesLinked(fat, size, ch) /\ Apart(size, ch, x, 0) /\ Covered(fat, size, ch, x, 0) /\ Ends(ch)
  BY <1>1, <1>2 DEF Chaining, Tiled
<1>4. ASSUME NEW f \in Files, NEW i \in 0..size[f]
      PROVE  LOG_PHYS_CLU(f, i) = IF i < size[f] THEN ch[f][i] ELSE EOC
  <2>1. Tiled(fat, Kept, ch, x, k) /\ Ends(ch)
    BY <1>1 DEF Chaining
  <2>2. /\ size[f] \in Nat
        /\ size[f] > 0 => LOG_PHYS_CLU(f, i) = IF i < size[f] THEN ch[f][i] ELSE EOC
        /\ size[f] = 0 => LOG_PHYS_CLU(f, i) = EOC
    BY <1>2, <2>1, FileWalk
  <2> QED
    BY <2>2
<1>5. \A f \in Files : \A i \in 0..(size[f] - 1) : LOG_PHYS_CLU(f, i) = ch[f][i] /\ ch[f][i] \in Clusters
  <2> TAKE f \in Files
  <2> TAKE i \in 0..(size[f] - 1)
  <2>1. i \in 0..size[f] /\ i < size[f] /\ ch[f][i] \in Clusters
    BY <1>2 DEF Chains
  <2> QED
    BY <1>4, <2>1
<1>6. ASSUME NEW f \in Files, NEW c
      PROVE  c \in ClustersOf(f) <=> c \in Clusters /\ Among(c, ch[f], size[f])
  BY <1>5 DEF ClustersOf, Among
<1>7. ASSUME NEW f \in Files
      PROVE  Cardinality(ClustersOf(f)) = size[f] /\ LOG_PHYS_CLU(f, size[f]) = EOC
  <2> DEFINE S == 0..(size[f] - 1)
             h == [i \in S |-> ch[f][i]]
  <2>1. size[f] \in Nat /\ size[f] \in 0..size[f]
    BY <1>2
  <2>2. IsFiniteSet(S) /\ Cardinality(S) = size[f]
    <3>1. PICK n \in Int : n = size[f] - 1
      BY <2>1
    <3>2. IsFiniteSet(0..n) /\ Cardinality(0..n) = IF 0 > n THEN 0 ELSE n - 0 + 1
      BY FS_Interval
    <3> QED
      BY <2>1, <3>1, <3>2
  <2>3. h \in Bijection(S, ClustersOf(f))
    <3>1. h \in [S -> ClustersOf(f)]
      BY <1>5 DEF ClustersOf
    <3>2. \A i, j \in S : h[i] = h[j] => i = j
      BY <1>3 DEF FilesLinked, Linked
    <3>3. \A c \in ClustersOf(f) : \E i \in S : h[i] = c
      BY <1>5 DEF ClustersOf
    <3> QED
      BY <3>1, <3>2, <3>3 DEF Bijection, Injection, Surjection, IsInjective
  <2>4. Cardinality(S) = Cardinality(ClustersOf(f))
    <3> HIDE DEF S, h
    <3> QED
      BY <2>2, <2>3, FS_Bijection DEF ExistsBijection
  <2> QED
    BY <1>4, <2>1, <2>2, <2>4
<1>8. ASSUME NEW f \in Files, NEW g \in Files, f # g PROVE ClustersOf(f) \cap ClustersOf(g) = {}
  BY <1>3, <1>6, <1>8 DEF Apart
<1>9. ASSUME NEW c \in Clusters PROVE fat[c] # 0 <=> \E f \in Files : c \in ClustersOf(f)
  <2>1. \A f \in Files : \A i \in 0..size[f] - 1 : fat[ch[f][i]] # 0
    BY <1>3 DEF FilesLinked
  <2>2. ~ Among(c, x, 0)
    BY DEF Among
  <2>3. \A f \in Files : Among(c, ch[f], size[f]) => fat[c] # 0
    BY <2>1 DEF Among
  <2>4. fat[c] # 0 => \E f \in Files : Among(c, ch[f], size[f])
    BY <1>3, <2>2 DEF Covered
  <2> QED
    BY <1>6, <2>3, <2>4
<1>10. {c \in Clusters : fat[c] # 0} = UNION {ClustersOf(f) : f \in Files}
  <2>1. \A f \in Files : ClustersOf(f) \subseteq Clusters
    BY <1>6
  <2> QED
    BY <1>9, <2>1
<1> QED
  BY <1>7, <1>8, <1>10

\* As long as no access was aborted, growing, shrinking, deleting and failed
\* allocation (AL_CLUSTERS, FR_CHAIN, fat.mac) lose and share no cluster: between
\* requests every file has a chain of its own of exactly its size, and every
\* cluster in use is in one of them.
THEOREM ChainsAreSound == Spec => []ChainsSound
<1>1. Init => IInv /\ ChainInv
  BY InitIInv, InitChains
<1>2. IInv /\ ChainInv /\ [Next]_vars => (IInv /\ ChainInv)'
  <2> SUFFICES ASSUME IInv, ChainInv, [Next]_vars PROVE (IInv /\ ChainInv)'
    OBVIOUS
  <2>1. TypeOK' /\ HintInv'
    BY TypeStep, HintStep
  <2> QED
    BY <2>1, ChainStep DEF IInv
<1>3. IInv /\ ChainInv => ChainsSound
  BY ChainsFollow
<1> QED
  BY <1>1, <1>2, <1>3, PTL DEF Spec
=============================================================================
