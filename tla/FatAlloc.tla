------------------------------- MODULE FatAlloc -------------------------------
(***************************************************************************)
(* Cluster allocation: AL_CLUSTERS, FR_CHAIN and the hint                  *)
(* UD_ALLOCATION_CLUSTER that says where to start looking                  *)
(* (kernel/bank2/fat.mac), with the callers that extend, truncate and      *)
(* empty a file (START_RW in files.mac).                                   *)
(*                                                                         *)
(* One action is one access to the FAT, because each of them may have to   *)
(* read or write a sector and may end in ABORT, which forgets the buffered *)
(* FAT sectors.  FAT sectors reach the medium one by one, in any order:    *)
(* the order in which the buffers are re-used is left open.                *)
(***************************************************************************)
EXTENDS Naturals, FiniteSets

CONSTANTS UD_CLUSTER_COUNT,  \* the highest cluster number
          EOC,               \* 0FFFFh: end of chain, and "no cluster"
          Files,             \* the open files (FABs)
          FatSectors,        \* sets of FAT entries, one per sector of the FAT
          UF_DBD,            \* does a Nextor driver control the unit?
          MaxRequest,        \* bound: clusters asked for at a time
          MaxFileSize,       \* bound: clusters of a file
          MaxAborts          \* bound: number of ABORT answers

Entries == 0..UD_CLUSTER_COUNT
Clusters == 2..UD_CLUSTER_COUNT

ASSUME FatAssumption ==
    /\ UD_CLUSTER_COUNT \in Nat /\ UD_CLUSTER_COUNT >= 2
    /\ EOC \in Nat /\ EOC > UD_CLUSTER_COUNT
    /\ FatSectors \subseteq SUBSET Entries
    /\ UF_DBD \in BOOLEAN
    /\ MaxRequest \in Nat /\ MaxFileSize \in Nat /\ MaxAborts \in Nat

VARIABLES fat,       \* the FAT as the kernel sees it, through the buffers
          medium,    \* the FAT on the disk
          aclu,      \* UD_ALLOCATION_CLUSTER
          pc,        \* where the running routine is
          FAT_CHAIN, \* first cluster allocated, or lowest cluster freed
          cur,       \* DE in AL_CLUSTERS: the cluster tried last
          prev,      \* AL_CLUSTERS: the cluster allocated last, EOC if none
          want,      \* AL_CLUSTERS: clusters still to be found
          de,        \* FR_CHAIN: the cluster to free next
          after,     \* what FR_CHAIN returns to: "full", "cut" or "gone"
          req,       \* the request: file, clusters asked for or to keep, its end
          head,      \* FAB_FIRST_PHYSICAL_CLUSTER
          size,      \* FAB_FILE_SIZE, in clusters
          trusted,   \* history: since the hint was last reset, no ABORT and no
                     \* truncation of a chain that an ABORT had cut short
          aborts     \* history: number of ABORT answers

vars == <<fat, medium, aclu, pc, FAT_CHAIN, cur, prev, want, de, after, req,
          head, size, trusted, aborts>>

file == <<head, size>>
alloc == <<cur, prev, want>>
free == <<de, after>>
history == <<trusted, aborts>>

Links == Clusters \cup {0, EOC}

TypeOK == /\ fat \in [Entries -> Links] /\ medium \in [Entries -> Links]
          /\ aclu \in 1..UD_CLUSTER_COUNT
          /\ pc \in {"idle", "scan", "end", "link", "free", "cut"}
          /\ FAT_CHAIN \in Links /\ cur \in 1..UD_CLUSTER_COUNT
          /\ prev \in Clusters \cup {EOC} /\ want \in Nat
          /\ de \in Clusters \cup {0} /\ after \in {"full", "cut", "gone"}
          /\ req \in [file : Files, clusters : Nat, last : Links]
          /\ head \in [Files -> Clusters \cup {0}] /\ size \in [Files -> Nat]
          /\ trusted \in BOOLEAN /\ aborts \in Nat

Init == /\ fat = [c \in Entries |-> IF c \in Clusters THEN 0 ELSE EOC]
        /\ medium = fat
        /\ aclu = 1
        /\ pc = "idle" /\ FAT_CHAIN = EOC /\ cur = 1 /\ prev = EOC /\ want = 0
        /\ de = 0 /\ after = "gone"
        /\ req \in [file : Files, clusters : {0}, last : {0}]
        /\ head = [f \in Files |-> 0] /\ size = [f \in Files |-> 0]
        /\ trusted = TRUE /\ aborts = 0

FAT_LOOKUP(c) == IF c \in Entries THEN fat[c] ELSE EOC
FAT_SET(c, v) == IF c \in Entries THEN [fat EXCEPT ![c] = v] ELSE fat

\* The n-th cluster of file f, EOC when its chain is shorter.
LOG_PHYS_CLU(f, n) ==
    LET walk[k \in 0..n] == IF k = 0 THEN head[f] ELSE FAT_LOOKUP(walk[k - 1])
    IN  IF head[f] = 0 THEN EOC
        ELSE IF n = 0 THEN head[f]
        ELSE FAT_LOOKUP(walk[n - 1])

-----------------------------------------------------------------------------
(* AL_CLUSTERS. *)

\* A write past the last cluster of the file (extend_file).
Extend == \E f \in Files, n \in 1..MaxRequest :
    /\ pc = "idle" /\ size[f] + n <= MaxFileSize
    /\ pc' = "scan"
    /\ req' = [file |-> f, clusters |-> n, last |-> EOC]
    /\ want' = n /\ cur' = aclu /\ prev' = EOC /\ FAT_CHAIN' = EOC
    /\ UNCHANGED <<fat, medium, aclu, free, file, history>>

\* Mutant: the highest cluster is taken for one past the end.
ScanUsed_LastSkipped ==
    /\ pc = "scan" /\ cur < UD_CLUSTER_COUNT
    /\ fat[cur + 1] # 0 \/ cur + 1 = UD_CLUSTER_COUNT
    /\ cur' = cur + 1
    /\ UNCHANGED <<fat, medium, aclu, pc, FAT_CHAIN, prev, want, free, req, file, history>>

ScanUsed ==
    /\ pc = "scan" /\ cur < UD_CLUSTER_COUNT /\ fat[cur + 1] # 0
    /\ cur' = cur + 1
    /\ UNCHANGED <<fat, medium, aclu, pc, FAT_CHAIN, prev, want, free, req, file, history>>

\* A free cluster: it becomes the head of the chain or is linked to its end.
ScanFree ==
    /\ pc = "scan" /\ cur < UD_CLUSTER_COUNT /\ fat[cur + 1] = 0
    /\ cur' = cur + 1 /\ prev' = cur + 1 /\ want' = want - 1
    /\ FAT_CHAIN' = IF prev = EOC THEN cur + 1 ELSE FAT_CHAIN
    /\ fat' = IF prev = EOC THEN fat ELSE FAT_SET(prev, cur + 1)
    /\ pc' = IF want = 1 THEN "end" ELSE "scan"
    /\ UNCHANGED <<medium, aclu, free, req, file, history>>

\* Mutant: FR_CHAIN is called although nothing was taken, and never returns.
DiskFull_Nothing ==
    /\ pc = "scan" /\ cur = UD_CLUSTER_COUNT /\ FAT_CHAIN # EOC
    /\ pc' = "free" /\ de' = FAT_CHAIN /\ after' = "full"
    /\ UNCHANGED <<fat, medium, aclu, FAT_CHAIN, alloc, req, file, history>>

\* disk_full: what was taken is given back, .DKFUL, search from 1 next time.
DiskFull ==
    /\ pc = "scan" /\ cur = UD_CLUSTER_COUNT
    /\ IF FAT_CHAIN = EOC
       THEN pc' = "idle" /\ aclu' = 1 /\ trusted' = TRUE /\ UNCHANGED free
       ELSE pc' = "free" /\ de' = FAT_CHAIN /\ after' = "full" /\ UNCHANGED <<aclu, trusted>>
    /\ UNCHANGED <<fat, medium, FAT_CHAIN, alloc, req, file, aborts>>

\* The end of the new chain is marked; the hint is its first cluster.  CLEAN_DISK, called
\* at its end (fat.mac 624), changes other sectors and is in FatCopies.
EndChain ==
    /\ pc = "end"
    /\ fat' = FAT_SET(prev, EOC)
    /\ aclu' = FAT_CHAIN
    /\ pc' = "link"
    /\ UNCHANGED <<medium, FAT_CHAIN, alloc, free, req, file, history>>

\* The new chain is given to the file, or .FILE if the file's own is too short.
Link ==
    LET f == req.file
        last == LOG_PHYS_CLU(f, size[f] - 1)
    IN
    /\ pc = "link"
    /\ pc' = "idle"
    /\ IF size[f] = 0
       THEN head' = [head EXCEPT ![f] = FAT_CHAIN] /\ fat' = fat
       ELSE fat' = FAT_SET(last, FAT_CHAIN) /\ head' = head
    /\ size' = IF size[f] # 0 /\ last = EOC THEN size
               ELSE [size EXCEPT ![f] = @ + req.clusters]
    /\ UNCHANGED <<medium, aclu, FAT_CHAIN, alloc, free, req, history>>

-----------------------------------------------------------------------------
(* FR_CHAIN. *)

StartFree(c, ret) == /\ pc' = "free" /\ de' = c /\ FAT_CHAIN' = c /\ after' = ret
                     /\ UNCHANGED <<fat, medium, aclu, alloc, file, aborts>>

\* Truncation to n > 0 clusters: the tail is freed before the end is marked.
Truncate == \E f \in Files : \E n \in 1..size[f] :
    LET last == LOG_PHYS_CLU(f, n - 1)
        tail == FAT_LOOKUP(last)
    IN
    /\ pc = "idle" /\ last # EOC
    /\ req' = [file |-> f, clusters |-> n, last |-> last]
    /\ IF tail # EOC
       THEN StartFree(tail, "cut") /\ trusted' = (trusted /\ tail # 0)
       ELSE /\ pc' = "cut"
            /\ UNCHANGED <<fat, medium, aclu, FAT_CHAIN, alloc, free, file, history>>

\* new_size_zero, and the deletion of the file.
EmptyFile == \E f \in Files :
    /\ pc = "idle" /\ head[f] # 0
    /\ req' = [file |-> f, clusters |-> 0, last |-> EOC]
    /\ StartFree(head[f], "gone") /\ UNCHANGED trusted

\* Mutant: the first cluster freed instead of the lowest.
LowestFreed_First(c) == FAT_CHAIN

LowestFreed(c) == IF FAT_CHAIN < c THEN FAT_CHAIN ELSE c

FreeStep ==
    LET next == FAT_LOOKUP(de) IN
    /\ pc = "free" /\ next \notin {0, EOC}
    /\ fat' = FAT_SET(de, 0)
    /\ de' = next /\ FAT_CHAIN' = LowestFreed(next)
    /\ UNCHANGED <<medium, aclu, pc, alloc, after, req, file, history>>

\* Mutant: 0 is lowered too.
LoweredHint_NoGuard == IF aclu >= FAT_CHAIN - 1 THEN FAT_CHAIN - 1 ELSE aclu

LoweredHint == IF FAT_CHAIN > 0 /\ aclu >= FAT_CHAIN - 1 THEN FAT_CHAIN - 1 ELSE aclu

\* The last cluster of the chain: the hint comes down to the lowest one freed.
FreeLast ==
    /\ pc = "free" /\ FAT_LOOKUP(de) \in {0, EOC}
    /\ fat' = FAT_SET(de, 0)
    /\ aclu' = IF after = "full" THEN 1 ELSE LoweredHint
    /\ trusted' = IF after = "full" THEN TRUE ELSE trusted
    /\ pc' = IF after = "cut" THEN "cut" ELSE "idle"
    /\ IF after = "gone"
       THEN head' = [head EXCEPT ![req.file] = 0] /\ size' = [size EXCEPT ![req.file] = 0]
       ELSE UNCHANGED file
    /\ UNCHANGED <<medium, FAT_CHAIN, alloc, free, req, aborts>>

\* Mutant: the end of the shortened chain is not marked.
Cut_NoEnd ==
    /\ pc = "cut"
    /\ size' = [size EXCEPT ![req.file] = req.clusters]
    /\ pc' = "idle"
    /\ UNCHANGED <<fat, medium, aclu, FAT_CHAIN, alloc, free, req, head, history>>

Cut ==
    /\ pc = "cut"
    /\ fat' = FAT_SET(req.last, EOC)
    /\ size' = [size EXCEPT ![req.file] = req.clusters]
    /\ pc' = "idle"
    /\ UNCHANGED <<medium, aclu, FAT_CHAIN, alloc, free, req, head, history>>

-----------------------------------------------------------------------------
(* The buffers underneath. *)

\* A buffered FAT sector is written: re-use of its buffer, or a flush.
WriteBack == \E s \in FatSectors :
    /\ medium' = [c \in Entries |-> IF c \in s THEN fat[c] ELSE medium[c]]
    /\ UNCHANGED <<fat, aclu, pc, FAT_CHAIN, alloc, free, req, file, history>>

\* F_WRABS and F_WRDRV flush the unit and reset the hint.
WriteAbsolute ==
    /\ pc = "idle"
    /\ medium' = fat /\ aclu' = 1 /\ trusted' = TRUE
    /\ UNCHANGED <<fat, pc, FAT_CHAIN, alloc, free, req, file, aborts>>

\* The user aborts an access to the unit: its buffers are forgotten (INV_UD).
\* Without a Nextor driver the unit descriptor will be built again (UD_TIME).
Abort ==
    /\ aborts < MaxAborts
    /\ aborts' = aborts + 1
    /\ fat' = medium
    /\ pc' = "idle"
    /\ aclu' = IF UF_DBD THEN aclu ELSE 1
    /\ trusted' = ~UF_DBD
    /\ UNCHANGED <<medium, FAT_CHAIN, alloc, free, req, file>>

Running == ScanUsed \/ ScanFree \/ DiskFull \/ EndChain \/ Link \/ FreeStep \/ FreeLast \/ Cut

Next == Extend \/ Truncate \/ EmptyFile \/ Running \/ WriteBack \/ WriteAbsolute \/ Abort

Spec == Init /\ [][Next]_vars
FairSpec == Spec /\ WF_vars(Running)

-----------------------------------------------------------------------------
(* Properties. *)

NoFreeBelow(n) == \A c \in Clusters : c <= n => fat[c] # 0

\* Every cluster up to the allocation hint is in use, so that a search that
\* starts there misses none: true again after every truncation, deletion,
\* disk full and direct write of sectors (the comment at fat.mac 747-750).
HintSound == trusted /\ pc = "idle" => NoFreeBelow(aclu)

\* AL_CLUSTERS gives up (disk_full) only when no cluster is free but the one it
\* took last, whose link is not written yet.
DiskFullTruthful == trusted /\ pc = "scan" /\ cur = UD_CLUSTER_COUNT =>
    \A c \in Clusters : fat[c] = 0 => c = prev

ClustersOf(f) == {LOG_PHYS_CLU(f, n) : n \in 0..(size[f] - 1)}

\* As long as no access was aborted, between requests every file has a chain
\* of its own of exactly its size, and every cluster in use belongs to one:
\* growing, shrinking and a failed allocation lose and share no cluster.
ChainsSound == pc = "idle" /\ aborts = 0 =>
    /\ \A f \in Files : /\ Cardinality(ClustersOf(f)) = size[f]
                        /\ LOG_PHYS_CLU(f, size[f]) = EOC
    /\ \A f, g \in Files : f # g => ClustersOf(f) \cap ClustersOf(g) = {}
    /\ {c \in Clusters : fat[c] # 0} = UNION {ClustersOf(f) : f \in Files}

\* Every request ends, also on chains that an ABORT left broken.
RequestEnds == pc # "idle" ~> pc = "idle"

\* "If insufficient free clusters can be found" (fat.mac 542-545): what
\* .DKFUL means to the caller, ABORT or not.
DiskFullMeansFull == pc = "scan" /\ cur = UD_CLUSTER_COUNT =>
    Cardinality({c \in Clusters : fat[c] = 0 /\ c # prev}) < want
=============================================================================
