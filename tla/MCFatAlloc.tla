----------------------------- MODULE MCFatAlloc -----------------------------
(* FatAlloc on a disk of three clusters whose FAT takes two sectors. *)
EXTENDS FatAlloc, TLC

CONSTANTS f1, f2

MCFiles == {f1, f2}
MCFatSectors == {{0, 1, 2}, {3, 4}}
Symmetry == Permutations(MCFiles)

\* What a finished routine leaves in its variables is never looked at again, nor
\* is the medium after the last ABORT.
MCView == <<fat, IF aborts < MaxAborts THEN medium ELSE <<>>, aclu, pc, head, size, trusted, aborts,
            IF pc \in {"scan", "end", "link"} THEN <<FAT_CHAIN, cur, prev, want, req>>
            ELSE IF pc \in {"free", "cut"} THEN <<FAT_CHAIN, de, after, req>> ELSE <<>>>>
=============================================================================
