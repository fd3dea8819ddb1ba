----------------------------- MODULE MCBPlusTree -----------------------------
(* A B+ tree of small pages; key 2 is also inserted with a second rid. *)
EXTENDS BPlusTree

MCRids == [k \in Keys |-> IF k = 2 THEN {2, 102} ELSE {k}]
MCRanges == {<<1, 6>>, <<2, 4>>}
==============================================================================
