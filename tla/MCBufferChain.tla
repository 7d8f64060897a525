---------------------------- MODULE MCBufferChain ----------------------------
(* BufferChain with four buffers. *)
EXTENDS BufferChain, TLC
CONSTANTS b1, b2, b3, b4, head, null
MCDescriptors == {b1, b2, b3, b4}
=============================================================================
