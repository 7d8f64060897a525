----------------------------- MODULE MCFatCopies -----------------------------
(* FatCopies with FATs of two sectors.  The chains are interchangeable. *)
EXTENDS FatCopies, TLC

CONSTANTS o1, o2, none
MCOwners == {o1, o2}
Symmetry == Permutations(MCOwners)

\* What is left of the snapshot where it is not owed any more is never looked at.
MCView == <<copy, boot, buf, bootbuf, UD_DIRTY_DISK_FLAG, pc, todo, taken, current,
            [s \in kept |-> snapshot[s]], torn, agreed, aborts>>

\* The run whose properties claim nothing once the flags disagree looks at one
\* such state for each place in the routines.
MCAgreedView == IF agreed THEN MCView ELSE <<pc>>
=============================================================================
