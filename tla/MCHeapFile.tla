----------------------------- MODULE MCHeapFile ------------------------------
(* A heap file of a few small pages.  Liveness is checked, which rules     *)
(* symmetry out.                                                           *)
EXTENDS HeapFile
==============================================================================
