---------------------------- MODULE MCBufferPool -----------------------------
(***************************************************************************)
(* A small instance of BufferPool for TLC.                                 *)
(***************************************************************************)
EXTENDS BufferPool, TLC

CONSTANTS c1, c2, c3, b1, b2, b3

ThreeClients == {c1, c2, c3}
ThreeBuffers == {b1, b2, b3}

Alike == Permutations(ThreeClients) \cup Permutations(ThreeBuffers)

=============================================================================
