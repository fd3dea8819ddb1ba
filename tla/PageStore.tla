------------------------------ MODULE PageStore ------------------------------
(***************************************************************************)
(* What the buffer pool promises the code above it: an array of pages with *)
(* a current and a durable version of each.  A client gets hold of a page  *)
(* (Allocate, Fetch), may write to the pages it holds, and releases them;  *)
(* nothing else changes the current version of a page.  The durable        *)
(* version is always one the current version had; the pool may bring any   *)
(* set S of pages up to date with any call.  Closing the pool makes every  *)
(* page durable.                                                           *)
(*                                                                         *)
(* Two steps give contents up: a crash falls back to the durable versions, *)
(* and so does a page that is deleted, which nobody may hold.              *)
(***************************************************************************)
EXTENDS Integers

CONSTANTS Value, Zero, MaxPages, Clients

VARIABLES
  pages,    \* how many pages have been allocated
  current,  \* page id -> contents a client sees
  durable,  \* page id -> contents a crash leaves
  held      \* client -> the pages it may read and write

storeVars == <<pages, current, durable, held>>

PageIds == 0..(MaxPages - 1)

NothingHeld == [c \in Clients |-> {}]

Init ==
  /\ pages = 0
  /\ current = [p \in PageIds |-> Zero]
  /\ durable = [p \in PageIds |-> Zero]
  /\ held = NothingHeld

(* The pages of S become durable. *)
Synced(S) == [p \in PageIds |-> IF p \in S THEN current[p] ELSE durable[p]]

Allocate(c, S) ==
  /\ pages' = pages + 1
  /\ current' = [current EXCEPT ![pages] = Zero]
  /\ durable' = [Synced(S) EXCEPT ![pages] = Zero]
  /\ held' = [held EXCEPT ![c] = @ \cup {pages}]

Fetch(c, p, S) ==
  /\ p < pages /\ p \notin held[c]
  /\ held' = [held EXCEPT ![c] = @ \cup {p}]
  /\ durable' = Synced(S)
  /\ UNCHANGED <<pages, current>>

Release(c, p) ==
  /\ p \in held[c]
  /\ held' = [held EXCEPT ![c] = @ \ {p}]
  /\ UNCHANGED <<pages, current, durable>>

(* Page p gets the contents v. *)
Put(p, v) ==
  /\ p < pages
  /\ current' = [current EXCEPT ![p] = v]
  /\ UNCHANGED <<pages, durable>>

Write(c, p, v) == p \in held[c] /\ Put(p, v) /\ UNCHANGED held

Sync(S) ==
  /\ UNCHANGED <<pages, current, held>>
  /\ durable' = Synced(S)

Close ==
  /\ held = NothingHeld
  /\ durable' = current
  /\ UNCHANGED <<pages, current, held>>

Delete(p) ==
  /\ \A c \in Clients : p \notin held[c]
  /\ current' = [current EXCEPT ![p] = durable[p]]
  /\ UNCHANGED <<pages, durable, held>>

Crash ==
  /\ current' = durable
  /\ held' = NothingHeld
  /\ UNCHANGED <<pages, durable>>

(* What the pool does of its own or on request: no page that exists gets   *)
(* other contents.                                                         *)
Serve ==
  \/ \E c \in Clients, p \in PageIds : Release(c, p)
  \/ \E S \in SUBSET PageIds : Sync(S)
  \/ \E c \in Clients, S \in SUBSET PageIds : Allocate(c, S)
  \/ \E c \in Clients, p \in PageIds, S \in SUBSET PageIds : Fetch(c, p, S)
  \/ Close

(* The steps after which a client still sees all that was written. *)
KeepNext ==
  \/ Serve
  \/ \E c \in Clients, p \in PageIds, v \in Value : Write(c, p, v)

Next ==
  \/ KeepNext
  \/ \E p \in PageIds : Delete(p)
  \/ Crash

Spec == Init /\ [][Next]_storeVars
KeepSpec == Init /\ [][KeepNext]_storeVars
==============================================================================
