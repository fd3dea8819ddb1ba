------------------------- MODULE MCLockFreeHashTable -------------------------
(* The hash table with a few threads and nodes; two of the three keys      *)
(* share a bucket.                                                         *)
EXTENDS LockFreeHashTable

CONSTANTS k1, k2, k3

MCHash == [k \in Key |-> IF k = k3 THEN 1 ELSE 0]
==============================================================================
