----------------------------- MODULE LRUReplacer -----------------------------
(***************************************************************************)
(* The replacement policy of the buffer pool (storage/lru_replacer.cpp).   *)
(*                                                                         *)
(* The class is a passive structure guarded by the latch of the buffer     *)
(* pool, so each method is an operator from one value of its state to the  *)
(* next.  The state is a record                                            *)
(*   lru_list_   the sequence of frame ids, most recently used first       *)
(*   evictable_  the set of frame ids that may be evicted                  *)
(* lru_map_ holds an iterator for each element of lru_list_ and is derived *)
(* from it.                                                                *)
(***************************************************************************)
EXTENDS Integers, Sequences, FiniteSetsExt

EmptyReplacer == [lru_list_ |-> << >>, evictable_ |-> {}]

(* lru_map_.find(f) succeeds. *)
InList(r, f) == f \in Range(r.lru_list_)

(* lru_list_.erase(lru_map_[f]): drop the one node that holds f. *)
Erase(list, f) ==
  LET i == CHOOSE j \in 1..Len(list) : list[j] = f
  IN  SubSeq(list, 1, i - 1) \o SubSeq(list, i + 1, Len(list))

(* Evict scans lru_list_ from the back and stops at the first evictable    *)
(* frame: f is the frame it returns.  Evict returns false when no frame    *)
(* satisfies this.                                                         *)
IsVictim(r, f) ==
  \E i \in 1..Len(r.lru_list_) :
    /\ r.lru_list_[i] = f
    /\ f \in r.evictable_
    /\ \A j \in (i + 1)..Len(r.lru_list_) : r.lru_list_[j] \notin r.evictable_

(* The state Evict leaves when it returns f. *)
Evict(r, f) == [lru_list_  |-> Erase(r.lru_list_, f),
                evictable_ |-> r.evictable_ \ {f}]

RecordAccess(r, f) ==
  [r EXCEPT !.lru_list_ = <<f>> \o (IF InList(r, f) THEN Erase(@, f) ELSE @)]

(* Mistake: a frame once evictable stays so. *)
SetEvictable_NeverErases(r, f, evictable) ==
  [r EXCEPT !.evictable_ = IF evictable THEN @ \cup {f} ELSE @]

SetEvictable(r, f, evictable) ==
  [r EXCEPT !.evictable_ = IF evictable THEN @ \cup {f} ELSE @ \ {f}]

RemoveFrame(r, f) ==
  [lru_list_  |-> IF InList(r, f) THEN Erase(r.lru_list_, f) ELSE r.lru_list_,
   evictable_ |-> r.evictable_ \ {f}]
==============================================================================
