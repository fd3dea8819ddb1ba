---------------------------- MODULE MCBufferPool -----------------------------
(* Model-checking instances of the buffer pool. *)
EXTENDS BufferPool, TLC

Symmetry == Permutations(Clients)
==============================================================================
