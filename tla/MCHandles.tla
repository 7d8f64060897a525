------------------------------ MODULE MCHandles ------------------------------
(* Handles with few handles, FABs and files, all interchangeable but in order. *)
EXTENDS Handles, TLC

CONSTANTS f1, f2, n1, n2, x1, x2, x3, x4, null, free, device

MCFabs == {f1, f2}
MCNames == {n1, n2}
MCNumbers == {x1, x2, x3, x4}
Symmetry == Permutations(MCFabs) \cup Permutations(MCNames) \cup Permutations(MCNumbers)

\* What a freed FAB or vector holds is only looked at by F_JOIN; whether it
\* was written to is kept for NoWriteForgotten.
MCView == <<HANDLES, PROC_ID, FAB_CHAIN, refs, dir, pc,
            IF pc \in {"dec", "ensure"} THEN <<vec, fab, want, v>>
            ELSE <<[p \in 1..HANDLES |-> vec[p]],
                   [f \in Fabs |-> IF f \in FAB_CHAIN THEN <<fab[f]>>
                                   ELSE <<fab[f].modified, fab[f].dead>>]>>,
            IF pc \in {"idle", "unmapped"} THEN 0 ELSE b, waived>>
=============================================================================
