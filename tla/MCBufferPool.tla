---------------------------- MODULE MCBufferPool ----------------------------
(* BufferPool on a small instance: buffers and units are interchangeable. *)
EXTENDS BufferPool, TLC

CONSTANTS b1, b2, u1, u2, none

MCBuffers == {b1, b2}
MCUnits == {u1, u2}

\* States that differ in a free buffer's leftovers or in the history of the
\* last answer only have the same continuations.
MCView == <<chain, cache, disk, waived, [b \in Buffers |-> IF Valid(buf[b]) THEN buf[b] ELSE Empty]>>

Symmetry == Permutations(MCBuffers) \cup Permutations(MCUnits)
=============================================================================
