------------------------- MODULE ParallelQueryProofs -------------------------
(***************************************************************************)
(* Proofs about the parallel operators and the query they form, for every  *)
(* table, every number of threads and every number of frames.              *)
(***************************************************************************)
EXTENDS ParallelQuery, QueueLemmas, FiniteSetTheorems

(* A task has an index while it fetches or reads a page, and a pin while   *)
(* it reads; a task returns when the pages are used up.                    *)
TaskAt(t) ==
  /\ idx[t] # None <=> pc[t] \in {"fetch", "read"}
  /\ pin[t] = IF pc[t] = "read" THEN idx[t] ELSE None
  /\ idx[t] < next_page_idx
  /\ pc[t] = "done" => next_page_idx = Len(page_ids) + 1

PageClaims ==
  /\ \A t \in Tasks : TaskAt(t)
  /\ \A t, u \in Tasks : t # u /\ idx[t] # None => idx[t] # idx[u]

(* The pages the tasks are through with. *)
Visited == {i \in Index : i < next_page_idx /\ \A t \in Tasks : idx[t] # i}

(* The tasks have the tuples of the pages they are through with, except    *)
(* for those they could not fetch, and no two have the same tuple.         *)
RowsSeen ==
  /\ skipped \subseteq Visited
  /\ \A t \in Tasks : IsInjective(local[t])
  /\ \A t, u \in Tasks : t # u => Range(local[t]) \cap Range(local[u]) = {}
  /\ UNION {Range(local[t]) : t \in Tasks} = RowsOf(Visited \ skipped)

(* Next has returned the first cursor_ tuples of the result.               *)
Owner ==
  /\ call = "scanning" => returned = << >> /\ cursor_ = 0
  /\ call = "open" =>
       /\ \A t \in Tasks : pc[t] = "done"
       /\ IsInjective(buffer_) /\ Range(buffer_) = RowsOf(Index \ skipped)
       /\ cursor_ <= Len(buffer_) /\ Len(returned) = cursor_
       /\ \A i \in 1..cursor_ : returned[i] = buffer_[i]

Frames ==
  /\ Cardinality(Pinned) <= pool_size_
  /\ Cardinality(Tasks) <= pool_size_ => skipped = {}

ScanInv == TypeOK /\ PageClaims /\ RowsSeen /\ Owner /\ Frames
-----------------------------------------------------------------------------
LEMMA TasksAreFinite ==
  /\ Cardinality(Tasks) \in Nat /\ Tasks = 1..Cardinality(Tasks) /\ IsFiniteSet(Tasks)
  /\ Len(page_ids) \in Nat /\ Index \subseteq Nat \ {0}
  /\ Len(page_ids) # 0 => 1 \in Tasks
<1>1. n_threads_ \in Nat \ {0} /\ Len(page_ids) \in Nat
  BY ScanAssumption
<1> DEFINE m == IF n_threads_ < Len(page_ids) THEN n_threads_ ELSE Len(page_ids)
<1>2. Tasks = 1..m /\ m \in Nat /\ (Len(page_ids) # 0 => m # 0)
  BY <1>1 DEF Tasks
<1> HIDE DEF m
<1>3. IsFiniteSet(1..m) /\ Cardinality(1..m) = m
  BY <1>2, FS_Interval
<1> QED BY <1>1, <1>2, <1>3 DEF Index

(* The tuples of a page are different, and no other page has one of them.  *)
LEMMA RowsOfPage ==
  ASSUME NEW S \in SUBSET Index, NEW i \in Index
  PROVE  LET rows == Rows[page_ids[i]]
         IN /\ rows \in Seq(Table) /\ IsInjective(rows)
            /\ RowsOf(S \cup {i}) = RowsOf(S) \cup Range(rows)
            /\ i \notin S => Range(rows) \cap RowsOf(S) = {}
            /\ RowsOf(S) \subseteq Table
<1> DEFINE rows == Rows[page_ids[i]]
<1>1. /\ page_ids \in Seq(Nat) /\ DOMAIN page_ids = Index
      /\ \A j \in Index : page_ids[j] \in Range(page_ids)
      /\ \A j, k \in Index : page_ids[j] = page_ids[k] => j = k
  BY ScanAssumption DEF Index, Range, IsInjective
<1>2. \A j \in Index : /\ Rows[page_ids[j]] \in Seq(Nat \X Nat) /\ IsInjective(Rows[page_ids[j]])
                       /\ \A r \in Range(Rows[page_ids[j]]) : r[1] = page_ids[j]
  BY <1>1, ScanAssumption
<1>3. RowsOf(S \cup {i}) = RowsOf(S) \cup Range(rows) /\ RowsOf(S) \subseteq Table
  BY DEF RowsOf, Table
<1>4. ASSUME i \notin S, NEW r \in Range(rows), r \in RowsOf(S) PROVE FALSE
  <2>1. PICK j \in S : r \in Range(Rows[page_ids[j]])
    BY <1>4 DEF RowsOf
  <2>2. r[1] = page_ids[i] /\ r[1] = page_ids[j] /\ j \in Index
    BY <1>2, <1>4, <2>1
  <2> QED BY Zenon, <1>1, <1>4, <2>1, <2>2
<1>5. rows \in Seq(Table)
  <2>1. Range(rows) \subseteq Table
    BY DEF RowsOf, Table
  <2>2. rows \in Seq(Nat \X Nat)
    BY <1>2
  <2> QED BY <2>1, <2>2, RangeType
<1> QED BY Zenon, <1>2, <1>3, <1>4, <1>5

(* Nothing has been claimed, read or pinned (Init, StartScan, Close).      *)
Fresh ==
  /\ next_page_idx = 1 /\ skipped = {}
  /\ pc = [t \in Tasks |-> "claim"] /\ idx = [t \in Tasks |-> None]
  /\ pin = [t \in Tasks |-> None] /\ local = [t \in Tasks |-> << >>]
  /\ pool_size_ \in PoolSizes

LEMMA FreshHolds == Fresh => PageClaims /\ RowsSeen /\ Frames
<1> SUFFICES ASSUME Fresh PROVE PageClaims /\ RowsSeen /\ Frames
  OBVIOUS
<1> USE DEF Fresh
<1>1. PageClaims
  BY DEF PageClaims, TaskAt, None
<1>2. Visited = {}
  <2>1. \A i \in Index : ~(i < 1)
    BY TasksAreFinite
  <2> QED BY <2>1 DEF Visited
<1>3. \A t \in Tasks : Range(local[t]) = {} /\ IsInjective(local[t])
  BY DEF Range, IsInjective
<1>4. RowsOf({}) = {}
  BY DEF RowsOf
<1>5. RowsSeen
  BY <1>2, <1>3, <1>4 DEF RowsSeen
<1>6. Pinned = {}
  BY DEF Pinned
<1>7. pool_size_ \in Nat
  BY ScanAssumption
<1>8. Frames
  BY <1>6, <1>7, FS_EmptySet DEF Frames
<1> QED BY <1>1, <1>5, <1>8

LEMMA ScanInitHolds == Init => ScanInv
<1> SUFFICES ASSUME Init PROVE ScanInv
  OBVIOUS
<1>1. PageClaims /\ RowsSeen /\ Frames
  BY FreshHolds DEF Init, Fresh
<1>2. TypeOK
  BY TasksAreFinite DEF Init, TypeOK, None
<1>3. Owner
  BY DEF Init, Owner
<1> QED BY <1>1, <1>2, <1>3 DEF ScanInv

(* StartScan and Close begin with fresh tasks.                             *)
LEMMA FreshKeepsScan ==
  ASSUME ScanInv, StartScan \/ Close
  PROVE  ScanInv'
<1>1. pool_size_' \in PoolSizes /\ pool_size_' = pool_size_ /\ FreshTasks
  BY DEF ScanInv, TypeOK, StartScan, Close
<1>2. Fresh'
  BY <1>1 DEF FreshTasks, Fresh
<1>3. Fresh' => (PageClaims /\ RowsSeen /\ Frames)'
  BY FreshHolds, PTL
<1>4. TypeOK'
  <2>1. /\ call' \in {"closed", "scanning", "open"} /\ cursor_' \in Nat
        /\ buffer_' = << >> /\ returned' = << >>
    BY DEF ScanInv, TypeOK, StartScan, Close
  <2>2. /\ next_page_idx' \in 1..(Len(page_ids) + 1)
        /\ pc' \in [Tasks -> {"claim", "fetch", "read", "done"}]
        /\ idx' \in [Tasks -> Index \cup {None}] /\ pin' \in [Tasks -> Index \cup {None}]
        /\ local' \in [Tasks -> Seq(Table)] /\ skipped' \subseteq Index
    BY <1>1, TasksAreFinite DEF FreshTasks
  <2>3. << >> \in Seq(Table)
    OBVIOUS
  <2> QED BY <1>1, <2>1, <2>2, <2>3 DEF TypeOK
<1>5. Owner'
  BY DEF Owner, StartScan, Close
<1> QED BY <1>2, <1>3, <1>4, <1>5 DEF ScanInv

(* Claim: the page next_page_idx, which nobody has or has had, is taken.   *)
LEMMA ClaimKeepsScan ==
  ASSUME ScanInv, NEW t \in Tasks, Claim(t)
  PROVE  ScanInv'
<1>0. TypeOK /\ PageClaims /\ RowsSeen /\ Owner /\ Frames
  BY DEF ScanInv
<1>1. /\ call = "scanning" /\ pc[t] = "claim" /\ next_page_idx \in Index
      /\ next_page_idx' = next_page_idx + 1
      /\ idx' = [idx EXCEPT ![t] = next_page_idx] /\ pc' = [pc EXCEPT ![t] = "fetch"]
      /\ UNCHANGED <<pin, local, skipped, pool_size_, call, buffer_, cursor_, returned>>
  BY <1>0, TasksAreFinite DEF Claim, PagesLeft, Claimed, Goto, ownerVars, TypeOK, Index
<1>2. /\ \A u \in Tasks : idx'[u] = IF u = t THEN next_page_idx ELSE idx[u]
      /\ \A u \in Tasks : pc'[u] = IF u = t THEN "fetch" ELSE pc[u]
      /\ next_page_idx \in Nat \ {0} /\ \A u \in Tasks : idx[u] \in Nat
      /\ idx[t] = None /\ pin[t] = None
  <2>1. /\ \A u \in Tasks : idx'[u] = IF u = t THEN next_page_idx ELSE idx[u]
        /\ \A u \in Tasks : pc'[u] = IF u = t THEN "fetch" ELSE pc[u]
    BY <1>0, <1>1 DEF TypeOK
  <2>2. next_page_idx \in Nat \ {0}
    BY <1>1, TasksAreFinite
  <2>3. ASSUME NEW u \in Tasks PROVE idx[u] \in Nat
    <3>1. idx[u] \in Index \/ idx[u] = 0
      BY <1>0 DEF TypeOK, None
    <3>2. \A i \in Index : i \in Nat
      BY TasksAreFinite
    <3> QED BY <3>1, <3>2
  <2>4. idx[t] = None /\ pin[t] = None
    BY <1>0, <1>1 DEF PageClaims, TaskAt
  <2> QED BY <2>1, <2>2, <2>3, <2>4
<1>3. TypeOK'
  BY <1>0, <1>1, TasksAreFinite DEF TypeOK, Index
<1>4. PageClaims'
  <2>1. ASSUME NEW u \in Tasks PROVE TaskAt(u)'
    <3>1. TaskAt(u) /\ ~(next_page_idx = Len(page_ids) + 1)
      BY <1>0, <1>1, TasksAreFinite DEF PageClaims, Index
    <3> QED BY <3>1, <1>1, <1>2 DEF TaskAt, None
  <2>2. \A u, v \in Tasks : u # v /\ idx'[u] # None => idx'[u] # idx'[v]
    BY <1>0, <1>2 DEF PageClaims, TaskAt
  <2> QED BY <2>1, <2>2 DEF PageClaims
<1>5. Visited' = Visited
  <2>1. ASSUME NEW i \in Index PROVE i \in Visited' <=> i \in Visited
    <3>1. i \in Nat \ {0}
      BY TasksAreFinite
    <3>2. i < next_page_idx' <=> i < next_page_idx \/ i = next_page_idx
      BY <1>1, <1>2, <3>1
    <3>3. (\A u \in Tasks : idx'[u] # i) <=> i # next_page_idx /\ \A u \in Tasks : idx[u] # i
      BY <1>2, <3>1 DEF None
    <3>4. i = next_page_idx => ~(i < next_page_idx)
      BY <1>2
    <3> QED BY <3>2, <3>3, <3>4 DEF Visited
  <2>2. Visited \subseteq Index /\ Visited' \subseteq Index
    BY DEF Visited
  <2> QED BY <2>1, <2>2, Zenon
<1>6. RowsSeen' /\ Owner' /\ Frames'
  <2>1. Pinned' = Pinned
    BY <1>1 DEF Pinned
  <2> QED BY Zenon, <1>0, <1>1, <1>5, <2>1 DEF RowsSeen, Owner, Frames
<1> QED BY <1>3, <1>4, <1>6 DEF ScanInv

LEMMA NothingLeftKeepsScan ==
  ASSUME ScanInv, NEW t \in Tasks, NothingLeft(t)
  PROVE  ScanInv'
<1>0. TypeOK /\ PageClaims /\ RowsSeen /\ Owner /\ Frames
  BY DEF ScanInv
<1>1. /\ call = "scanning" /\ pc[t] = "claim" /\ ~(next_page_idx <= Len(page_ids))
      /\ pc' = [pc EXCEPT ![t] = "done"]
      /\ UNCHANGED <<next_page_idx, idx, pin, local, skipped>>
      /\ UNCHANGED <<pool_size_, call, buffer_, cursor_, returned>>
  BY DEF NothingLeft, PagesLeft, Goto, AfterLast, ownerVars
<1>2. \A u \in Tasks : pc'[u] = IF u = t THEN "done" ELSE pc[u]
  BY <1>0, <1>1 DEF TypeOK
<1>3. TypeOK'
  BY <1>0, <1>1 DEF TypeOK
<1>4. PageClaims'
  <2>1. next_page_idx = Len(page_ids) + 1
    BY <1>0, <1>1, TasksAreFinite DEF TypeOK
  <2> QED BY <1>0, <1>1, <1>2, <2>1 DEF PageClaims, TaskAt
<1>5. RowsSeen' /\ Owner' /\ Frames'
  <2>1. Pinned' = Pinned /\ Visited' = Visited
    BY <1>1 DEF Pinned, Visited
  <2> QED BY Zenon, <1>0, <1>1, <2>1 DEF RowsSeen, Owner, Frames
<1> QED BY <1>3, <1>4, <1>5 DEF ScanInv

LEMMA PinnedIsFinite ==
  ASSUME TypeOK
  PROVE  IsFiniteSet(Pinned) /\ Cardinality(Pinned) \in Nat /\ pool_size_ \in Nat
<1>1. IsFiniteSet(Index)
  BY TasksAreFinite, FS_Interval DEF Index
<1>2. Pinned \subseteq Index
  BY DEF Pinned, TypeOK
<1>3. pool_size_ \in Nat
  BY ScanAssumption DEF TypeOK
<1> QED BY <1>1, <1>2, <1>3, FS_Subset, FS_CardinalityType

(* FetchPage pins one page more.                                           *)
LEMMA FetchPageKeepsScan ==
  ASSUME ScanInv, NEW t \in Tasks, FetchPage(t)
  PROVE  ScanInv'
<1>0. TypeOK /\ PageClaims /\ RowsSeen /\ Owner /\ Frames
  BY DEF ScanInv
<1>1. /\ pc[t] = "fetch" /\ ~PoolIsFull(idx[t])
      /\ pin' = [pin EXCEPT ![t] = idx[t]] /\ pc' = [pc EXCEPT ![t] = "read"]
      /\ UNCHANGED <<next_page_idx, idx, local, skipped>>
      /\ UNCHANGED <<pool_size_, call, buffer_, cursor_, returned>>
  BY DEF FetchPage, Goto, ownerVars
<1>2. /\ \A u \in Tasks : pin'[u] = IF u = t THEN idx[t] ELSE pin[u]
      /\ \A u \in Tasks : pc'[u] = IF u = t THEN "read" ELSE pc[u]
      /\ idx[t] # None /\ pin[t] = None
  BY <1>0, <1>1 DEF TypeOK, PageClaims, TaskAt
<1>3. TypeOK'
  BY <1>0, <1>1 DEF TypeOK
<1>4. PageClaims'
  BY <1>0, <1>1, <1>2 DEF PageClaims, TaskAt
<1>5. call # "open"
  BY <1>0, <1>1 DEF Owner
<1>6. Pinned' = Pinned \cup {idx[t]}
  BY <1>2 DEF Pinned
<1>7. IsFiniteSet(Pinned) /\ Cardinality(Pinned) \in Nat /\ pool_size_ \in Nat
  BY <1>0, PinnedIsFinite
<1>8. Cardinality(Pinned') <= pool_size_
  <2>1. Cardinality(Pinned \cup {idx[t]}) =
          IF idx[t] \in Pinned THEN Cardinality(Pinned) ELSE Cardinality(Pinned) + 1
    BY Zenon, <1>7, FS_AddElement
  <2> QED BY <1>0, <1>1, <1>6, <1>7, <2>1 DEF Frames, PoolIsFull
<1>9. RowsSeen' /\ Owner' /\ Frames'
  <2>1. Visited' = Visited
    BY <1>1 DEF Visited
  <2> QED BY Zenon, <1>0, <1>1, <1>5, <1>8, <2>1 DEF RowsSeen, Owner, Frames
<1> QED BY <1>3, <1>4, <1>9 DEF ScanInv

(* With a frame for every task the others never hold all the frames.       *)
LEMMA EnoughFrames ==
  ASSUME TypeOK, NEW t \in Tasks, pin[t] = None
  PROVE  Cardinality(Pinned) < Cardinality(Tasks)
<1> DEFINE Others == {u \in Tasks : pin[u] # None}
<1>1. Others \subseteq Tasks \ {t}
  OBVIOUS
<1>2. /\ IsFiniteSet(Tasks \ {t}) /\ Cardinality(Tasks \ {t}) = Cardinality(Tasks) - 1
  BY Zenon, TasksAreFinite, FS_RemoveElement
<1>3. IsFiniteSet(Others) /\ Cardinality(Others) <= Cardinality(Tasks) - 1
  BY <1>1, <1>2, FS_Subset
<1> DEFINE f == [u \in Others |-> pin[u]]
<1>4. f \in Surjection(Others, Pinned)
  BY DEF Surjection, Pinned
<1> HIDE DEF f, Others
<1>5. IsFiniteSet(Pinned) /\ Cardinality(Pinned) <= Cardinality(Others)
  BY <1>3, <1>4, FS_Surjection
<1>6. Cardinality(Pinned) \in Nat /\ Cardinality(Others) \in Nat /\ Cardinality(Tasks) \in Nat
  BY <1>3, <1>5, FS_CardinalityType, TasksAreFinite
<1> QED BY <1>3, <1>5, <1>6

(* The task gives its index back: it is through with the page.             *)
LEMMA VisitedGrows ==
  ASSUME TypeOK, PageClaims, NEW t \in Tasks, idx[t] # None,
         idx' = [idx EXCEPT ![t] = None], next_page_idx' = next_page_idx
  PROVE  /\ Visited' = Visited \cup {idx[t]} /\ idx[t] \in Index /\ idx[t] \notin Visited
         /\ \A u \in Tasks : idx'[u] = IF u = t THEN None ELSE idx[u]
<1>1. \A u \in Tasks : idx'[u] = IF u = t THEN None ELSE idx[u]
  BY DEF TypeOK
<1>2. idx[t] \in Index /\ idx[t] < next_page_idx
  BY DEF TypeOK, PageClaims, TaskAt
<1>3. ASSUME NEW i \in Index PROVE i \in Visited' <=> i \in Visited \/ i = idx[t]
  <2>1. i # None
    BY TasksAreFinite DEF None
  <2>2. \A u \in Tasks : u # t => idx[u] # idx[t]
    BY DEF PageClaims
  <2>3. (\A u \in Tasks : idx'[u] # i) <=> i = idx[t] \/ \A u \in Tasks : idx[u] # i
    BY <1>1, <2>1, <2>2
  <2> QED BY <1>2, <2>3 DEF Visited
<1>4. Visited \subseteq Index /\ Visited' \subseteq Index /\ idx[t] \notin Visited
  BY DEF Visited
<1>5. Visited' = Visited \cup {idx[t]}
  BY <1>2, <1>3, <1>4, Zenon
<1> QED BY <1>1, <1>2, <1>4, <1>5

(* FetchPage returns nullptr: the page is skipped.                         *)
LEMMA FetchFailsKeepsScan ==
  ASSUME ScanInv, NEW t \in Tasks, FetchFails(t)
  PROVE  ScanInv'
<1>0. TypeOK /\ PageClaims /\ RowsSeen /\ Owner /\ Frames
  BY DEF ScanInv
<1>1. /\ pc[t] = "fetch" /\ PoolIsFull(idx[t]) /\ skipped' = skipped \cup {idx[t]}
      /\ idx' = [idx EXCEPT ![t] = None] /\ pc' = [pc EXCEPT ![t] = "claim"]
      /\ UNCHANGED <<next_page_idx, pin, local>>
      /\ UNCHANGED <<pool_size_, call, buffer_, cursor_, returned>>
  BY DEF FetchFails, Goto, ownerVars
<1>2. idx[t] # None /\ pin[t] = None
  BY <1>0, <1>1 DEF PageClaims, TaskAt
<1>3. /\ Visited' = Visited \cup {idx[t]} /\ idx[t] \in Index /\ idx[t] \notin Visited
      /\ \A u \in Tasks : idx'[u] = IF u = t THEN None ELSE idx[u]
  BY Zenon, <1>0, <1>1, <1>2, VisitedGrows
<1>4. \A u \in Tasks : pc'[u] = IF u = t THEN "claim" ELSE pc[u]
  BY <1>0, <1>1 DEF TypeOK
<1>5. TypeOK'
  <2>1. idx' \in [Tasks -> Index \cup {None}] /\ pc' \in [Tasks -> {"claim", "fetch", "read", "done"}]
    BY <1>0, <1>1 DEF TypeOK
  <2> QED BY <1>0, <1>1, <1>3, <2>1 DEF TypeOK
<1>6. PageClaims'
  <2>1. ASSUME NEW u \in Tasks PROVE TaskAt(u)'
    <3>1. TaskAt(u) /\ None < next_page_idx
      BY <1>0 DEF PageClaims, TypeOK, None
    <3> QED BY <3>1, <1>1, <1>2, <1>3, <1>4 DEF TaskAt
  <2>2. \A u, v \in Tasks : u # v /\ idx'[u] # None => idx'[u] # idx'[v]
    BY Zenon, <1>0, <1>3 DEF PageClaims
  <2> QED BY <2>1, <2>2 DEF PageClaims
<1>7. call # "open"
  BY <1>0, <1>1 DEF Owner
<1>8. Owner'
  BY Zenon, <1>0, <1>1, <1>7 DEF Owner
<1>9. RowsSeen'
  <2>1. Visited' \ skipped' = Visited \ skipped /\ skipped' \subseteq Visited'
    BY Zenon, <1>0, <1>1, <1>3 DEF RowsSeen
  <2> QED BY Zenon, <1>0, <1>1, <2>1 DEF RowsSeen
<1>10. Frames'
  <2>1. Pinned' = Pinned
    BY <1>1 DEF Pinned
  <2>2. Cardinality(Pinned) < Cardinality(Tasks)
    BY <1>0, <1>2, EnoughFrames
  <2>3. Cardinality(Pinned) = pool_size_
    <3>1. Cardinality(Pinned) <= pool_size_ /\ Cardinality(Pinned) >= pool_size_
      BY <1>0, <1>1 DEF Frames, PoolIsFull
    <3> QED BY <1>0, <3>1, PinnedIsFinite
  <2>4. ~(Cardinality(Tasks) <= pool_size_)
    BY <2>2, <2>3, TasksAreFinite, <1>0, ScanAssumption DEF TypeOK
  <2> QED BY <1>0, <1>1, <2>1, <2>4 DEF Frames
<1> QED BY <1>5, <1>6, <1>8, <1>9, <1>10 DEF ScanInv

(* ReadPage: the task has the tuples of its page and unpins it.            *)
LEMMA ReadPageKeepsScan ==
  ASSUME ScanInv, NEW t \in Tasks, ReadPage(t)
  PROVE  ScanInv'
<1> DEFINE rows == Rows[page_ids[idx[t]]]
<1>0. TypeOK /\ PageClaims /\ RowsSeen /\ Owner /\ Frames
  BY DEF ScanInv
<1>1. /\ pc[t] = "read" /\ local' = [local EXCEPT ![t] = @ \o rows]
      /\ idx' = [idx EXCEPT ![t] = None] /\ pc' = [pc EXCEPT ![t] = "claim"]
      /\ pin' = [pin EXCEPT ![t] = None]
      /\ UNCHANGED <<next_page_idx, skipped>>
      /\ UNCHANGED <<pool_size_, call, buffer_, cursor_, returned>>
  BY DEF ReadPage, PinAfterRead, Goto, ownerVars
<1>2. idx[t] # None
  BY <1>0, <1>1 DEF PageClaims, TaskAt
<1>3. /\ Visited' = Visited \cup {idx[t]} /\ idx[t] \in Index /\ idx[t] \notin Visited
      /\ \A u \in Tasks : idx'[u] = IF u = t THEN None ELSE idx[u]
  BY Zenon, <1>0, <1>1, <1>2, VisitedGrows
<1>4. /\ \A u \in Tasks : pc'[u] = IF u = t THEN "claim" ELSE pc[u]
      /\ \A u \in Tasks : pin'[u] = IF u = t THEN None ELSE pin[u]
  BY <1>0, <1>1 DEF TypeOK
<1> DEFINE seen == Visited \ skipped
<1>5. seen \in SUBSET Index /\ idx[t] \notin seen
  BY <1>3 DEF Visited
<1>6. /\ rows \in Seq(Table) /\ IsInjective(rows)
      /\ RowsOf(seen \cup {idx[t]}) = RowsOf(seen) \cup Range(rows)
      /\ Range(rows) \cap RowsOf(seen) = {}
  <2> HIDE DEF seen
  <2> QED BY Zenon, <1>3, <1>5, RowsOfPage
<1> HIDE DEF rows
<1>7. /\ local \in [Tasks -> Seq(Table)]
      /\ \A u \in Tasks : IsInjective(local[u])
      /\ \A u, v \in Tasks : u # v => Range(local[u]) \cap Range(local[v]) = {}
      /\ UNION {Range(local[u]) : u \in Tasks} = RowsOf(seen)
  BY Zenon, <1>0 DEF TypeOK, RowsSeen
<1> HIDE DEF seen
<1>8. \A u \in Tasks : Range(local[u]) \cap Range(rows) = {}
  BY <1>6, <1>7
<1>9. /\ local[t] \o rows \in Seq(Table) /\ IsInjective(local[t] \o rows)
      /\ Range(local[t] \o rows) = Range(local[t]) \cup Range(rows)
  BY Zenon, <1>6, <1>7, <1>8, ConcatRange
<1>10. /\ local' \in [Tasks -> Seq(Table)]
       /\ \A u \in Tasks : local'[u] = IF u = t THEN local[t] \o rows ELSE local[u]
  BY <1>1, <1>7, <1>9
<1>11. TypeOK'
  <2>1. /\ idx' \in [Tasks -> Index \cup {None}] /\ pin' \in [Tasks -> Index \cup {None}]
        /\ pc' \in [Tasks -> {"claim", "fetch", "read", "done"}]
    BY <1>0, <1>1 DEF TypeOK
  <2> QED BY <1>0, <1>1, <1>10, <2>1 DEF TypeOK
<1>12. PageClaims'
  <2>1. ASSUME NEW u \in Tasks PROVE TaskAt(u)'
    <3>1. TaskAt(u) /\ None < next_page_idx
      BY <1>0 DEF PageClaims, TypeOK, None
    <3> QED BY <3>1, <1>1, <1>3, <1>4 DEF TaskAt
  <2>2. \A u, v \in Tasks : u # v /\ idx'[u] # None => idx'[u] # idx'[v]
    BY Zenon, <1>0, <1>3 DEF PageClaims
  <2> QED BY <2>1, <2>2 DEF PageClaims
<1>13. Owner'
  <2>1. call # "open"
    BY <1>0, <1>1 DEF Owner
  <2> QED BY Zenon, <1>0, <1>1, <2>1 DEF Owner
<1>14. RowsSeen'
  <2>1. Visited' \ skipped' = seen \cup {idx[t]} /\ skipped' \subseteq Visited'
    BY Zenon, <1>0, <1>1, <1>3 DEF RowsSeen, seen
  <2>2. \A u \in Tasks : IsInjective(local'[u])
    BY Zenon, <1>7, <1>9, <1>10
  <2>3. \A u \in Tasks : Range(local'[u]) = IF u = t THEN Range(local[t]) \cup Range(rows) ELSE Range(local[u])
    BY Zenon, <1>9, <1>10
  <2>4. ASSUME NEW u \in Tasks, NEW v \in Tasks, u # v
        PROVE  Range(local'[u]) \cap Range(local'[v]) = {}
    <3>1. Range(local[u]) \cap Range(local[v]) = {}
      BY <1>7, <2>4
    <3>2. Range(local[u]) \cap Range(rows) = {} /\ Range(local[v]) \cap Range(rows) = {}
      BY <1>8
    <3> QED BY Zenon, <3>1, <3>2, <2>3, <2>4
  <2>5. UNION {Range(local'[u]) : u \in Tasks} = RowsOf(seen) \cup Range(rows)
    <3>1. UNION {Range(local'[u]) : u \in Tasks} = (UNION {Range(local[u]) : u \in Tasks}) \cup Range(rows)
      BY Zenon, <2>3
    <3> QED BY Zenon, <3>1, <1>7
  <2> QED BY Zenon, <1>6, <2>1, <2>2, <2>4, <2>5 DEF RowsSeen
<1>15. Frames'
  <2>1. Pinned' \subseteq Pinned
    BY <1>4 DEF Pinned
  <2>3. IsFiniteSet(Pinned) /\ Cardinality(Pinned) \in Nat /\ pool_size_ \in Nat
    BY <1>0, PinnedIsFinite
  <2>4. IsFiniteSet(Pinned') /\ Cardinality(Pinned') <= Cardinality(Pinned)
    BY <2>1, <2>3, FS_Subset
  <2>5. Cardinality(Pinned') \in Nat
    BY <2>4, FS_CardinalityType
  <2> QED BY <1>0, <1>1, <2>3, <2>4, <2>5 DEF Frames
<1> QED BY <1>11, <1>12, <1>13, <1>14, <1>15 DEF ScanInv

(* WaitAll has returned: the tasks are through with every page, and what   *)
(* they have seen becomes the result.                                      *)
LEMMA MergeKeepsScan ==
  ASSUME ScanInv, WaitAllAndMerge
  PROVE  ScanInv'
<1> DEFINE m == Cardinality(Tasks)
<1>0. TypeOK /\ PageClaims /\ RowsSeen /\ Owner /\ Frames
  BY DEF ScanInv
<1>1. /\ call = "scanning" /\ \A t \in Tasks : pc[t] = "done"
      /\ buffer_' = Merged[m] /\ call' = "open"
      /\ UNCHANGED <<next_page_idx, pc, idx, pin, local, skipped, pool_size_, cursor_, returned>>
  BY DEF WaitAllAndMerge, taskVars
<1>2. m \in Nat /\ Tasks = 1..m /\ Len(page_ids) \in Nat
  BY TasksAreFinite
<1>3. Joins(local, m, Merged)
  <2>1. \E f : f = [k \in 0..m |-> IF k = 0 THEN << >> ELSE f[k - 1] \o local[k]]
    BY Zenon, <1>2, JoinsExists DEF Joins
  <2>2. Merged = [k \in 0..m |-> IF k = 0 THEN << >> ELSE Merged[k - 1] \o local[k]]
    BY <2>1, Zenon DEF Merged
  <2> QED BY Zenon, <2>2 DEF Joins
<1> HIDE DEF m
<1>4. /\ local \in [1..m -> Seq(Table)]
      /\ \A t \in 1..m : IsInjective(local[t])
      /\ \A t, u \in 1..m : t # u => Range(local[t]) \cap Range(local[u]) = {}
  BY Zenon, <1>0, <1>2 DEF TypeOK, RowsSeen
<1>5. /\ Merged[m] \in Seq(Table) /\ IsInjective(Merged[m])
      /\ Range(Merged[m]) = UNION {Range(local[t]) : t \in 1..m}
  BY Zenon, <1>2, <1>3, <1>4, JoinsProperties
<1>6. Visited = Index
  <2>1. \A t \in Tasks : idx[t] = None
    BY Zenon, <1>0, <1>1 DEF PageClaims, TaskAt
  <2>2. ASSUME NEW i \in Index PROVE i < next_page_idx /\ i # None
    <3>1. i \in 1..Len(page_ids)
      BY DEF Index
    <3>2. 1 \in Tasks
      BY <3>1, TasksAreFinite
    <3>3. next_page_idx = Len(page_ids) + 1
      BY Zenon, <1>0, <1>1, <3>2 DEF PageClaims, TaskAt
    <3> QED BY <1>2, <3>1, <3>3 DEF None
  <2> QED BY <2>1, <2>2 DEF Visited
<1>7. Range(Merged[m]) = RowsOf(Index \ skipped)
  BY Zenon, <1>0, <1>2, <1>5, <1>6 DEF RowsSeen
<1>8. TypeOK'
  BY Zenon, <1>0, <1>1, <1>5 DEF TypeOK
<1>9. PageClaims' /\ Visited' = Visited /\ Pinned' = Pinned
  BY Zenon, <1>0, <1>1 DEF PageClaims, TaskAt, Visited, Pinned
<1>10. RowsSeen' /\ Frames'
  BY Zenon, <1>0, <1>1, <1>9 DEF RowsSeen, Frames
<1>11. Owner'
  <2>1. returned = << >> /\ cursor_ = 0 /\ Len(Merged[m]) \in Nat
    BY <1>0, <1>1, <1>5 DEF Owner
  <2> QED BY <1>1, <1>5, <1>7, <2>1 DEF Owner
<1> QED BY <1>8, <1>9, <1>10, <1>11 DEF ScanInv

(* Next of the scan. *)
LEMMA NextRowKeepsScan ==
  ASSUME ScanInv, Next_
  PROVE  ScanInv'
<1>0. TypeOK /\ PageClaims /\ RowsSeen /\ Owner /\ Frames
  BY DEF ScanInv
<1>1. /\ call = "open" /\ cursor_ < Len(buffer_) /\ cursor_' = cursor_ + 1
      /\ returned' = Append(returned, buffer_[cursor_ + 1])
      /\ UNCHANGED <<next_page_idx, pc, idx, pin, local, skipped, pool_size_, call, buffer_>>
  BY DEF Next_, taskVars
<1>2. /\ cursor_ \in Nat /\ buffer_ \in Seq(Table) /\ returned \in Seq(Table)
      /\ Len(returned) = cursor_ /\ Len(buffer_) \in Nat
      /\ \A i \in 1..cursor_ : returned[i] = buffer_[i]
  BY <1>0, <1>1 DEF TypeOK, Owner
<1> DEFINE row == buffer_[cursor_ + 1]
<1>3. row \in Table
  BY <1>1, <1>2
<1> HIDE DEF row
<1>4. /\ Append(returned, row) \in Seq(Table) /\ Len(Append(returned, row)) = cursor_ + 1
      /\ \A i \in 1..cursor_ : Append(returned, row)[i] = returned[i]
      /\ Append(returned, row)[cursor_ + 1] = row
  BY <1>2, <1>3, AppendProperties
<1>5. /\ returned' \in Seq(Table) /\ Len(returned') = cursor_'
      /\ \A i \in 1..cursor_' : returned'[i] = buffer_[i]
  BY <1>1, <1>2, <1>4 DEF row
<1>6. TypeOK'
  BY <1>0, <1>1, <1>5 DEF TypeOK
<1>7. PageClaims' /\ Visited' = Visited /\ Pinned' = Pinned
  BY Zenon, <1>0, <1>1 DEF PageClaims, TaskAt, Visited, Pinned
<1>8. RowsSeen' /\ Frames'
  BY Zenon, <1>0, <1>1, <1>7 DEF RowsSeen, Frames
<1>9. Owner'
  BY <1>0, <1>1, <1>2, <1>5 DEF Owner
<1> QED BY <1>6, <1>7, <1>8, <1>9 DEF ScanInv

LEMMA ScanKeeps ==
  ASSUME ScanInv, [Next]_vars
  PROVE  ScanInv'
<1>1. CASE UNCHANGED vars
  <2>1. /\ UNCHANGED <<next_page_idx, pc, idx, pin, local, skipped>>
        /\ UNCHANGED <<pool_size_, call, buffer_, cursor_, returned>>
    BY <1>1 DEF vars, taskVars, ownerVars
  <2>2. Visited' = Visited /\ Pinned' = Pinned
    BY Zenon, <2>1 DEF Visited, Pinned
  <2>3. TypeOK' /\ PageClaims'
    BY Zenon, <2>1 DEF ScanInv, TypeOK, PageClaims, TaskAt
  <2>4. RowsSeen' /\ Owner' /\ Frames'
    BY Zenon, <2>1, <2>2 DEF ScanInv, RowsSeen, Owner, Frames
  <2> QED BY <2>3, <2>4 DEF ScanInv
<1>2. ASSUME NEW t \in Tasks, TaskStep(t) PROVE ScanInv'
  BY <1>2, ClaimKeepsScan, NothingLeftKeepsScan, FetchPageKeepsScan, FetchFailsKeepsScan,
     ReadPageKeepsScan DEF TaskStep
<1> QED BY <1>1, <1>2, FreshKeepsScan, MergeKeepsScan, NextRowKeepsScan DEF Next

(* ScanInv holds in every state of the scan. *)
THEOREM ScanInvariant == Spec => []ScanInv
<1>1. ScanInv /\ [Next]_vars => ScanInv'
  BY ScanKeeps
<1> QED BY <1>1, ScanInitHolds, PTL DEF Spec

(* What Next has returned when it returns false are the tuples of the      *)
(* pages that were fetched, each once.                                     *)
LEMMA ScanInvImplies == ScanInv => PinsAreReleased /\ OnlyUnfetchedMissing
<1> SUFFICES ASSUME ScanInv PROVE PinsAreReleased /\ OnlyUnfetchedMissing
  OBVIOUS
<1>0. TypeOK /\ PageClaims /\ RowsSeen /\ Owner /\ Frames
  BY DEF ScanInv
<1>1. call = "open" => Pinned = {}
  BY Zenon, <1>0 DEF Owner, PageClaims, TaskAt, Pinned
<1>2. ASSUME Exhausted PROVE returned = buffer_
  <2>1. /\ returned \in Seq(Table) /\ buffer_ \in Seq(Table) /\ Len(returned) = Len(buffer_)
        /\ \A i \in 1..Len(buffer_) : returned[i] = buffer_[i]
    BY <1>0, <1>2 DEF Exhausted, TypeOK, Owner
  <2> QED BY <2>1, SeqEqual
<1>3. Exhausted => IsInjective(returned) /\ Range(returned) = RowsOf(Index \ skipped)
  BY <1>0, <1>2 DEF Exhausted, Owner
<1> QED BY <1>0, <1>1, <1>3 DEF PinsAreReleased, OnlyUnfetchedMissing, Frames
-----------------------------------------------------------------------------
(* The tuples of the join. *)
Pairs == Table \X Range(RightRows)

LEMMA ValuesAreNumbers ==
  ASSUME NEW a \in Pairs, NEW i \in DOMAIN Ascending
  PROVE  SortValue(a, i) \in Int /\ Ascending[i] \in BOOLEAN /\ i \in Nat \ {0}
         /\ 1..i \subseteq DOMAIN Ascending
<1>1. DOMAIN Ascending = 1..Len(Ascending) /\ Len(Ascending) \in Nat /\ Ascending \in Seq(BOOLEAN)
  BY QueryAssumption
<1>2. SortValue(a, i) \in Int
  BY QueryAssumption DEF Pairs
<1> QED BY <1>1, <1>2

(* MakeComparator is a strict weak order, as std::sort and the heap        *)
(* require: if b is not before a and c is not before b, then c is not      *)
(* before a.                                                               *)
LEMMA LessIsOrder ==
  ASSUME NEW a \in Pairs, NEW b \in Pairs, NEW c \in Pairs, ~Sort!Less(b, a), ~Sort!Less(c, b)
  PROVE  ~Sort!Less(c, a)
<1> SUFFICES ASSUME Sort!Less(c, a) PROVE FALSE
  OBVIOUS
<1>1. PICK i \in DOMAIN Ascending : /\ Sort!Before(c, a, i)
                                    /\ \A j \in 1..(i - 1) : SortValue(c, j) = SortValue(a, j)
  BY DEF Sort!Less
<1>2. i \in Nat \ {0} /\ 1..i \subseteq DOMAIN Ascending
  BY ValuesAreNumbers
<1> DEFINE T == {j \in 1..i : SortValue(b, j) # SortValue(a, j)}
<1>3. CASE T = {}
  <2>1. \A j \in 1..i : SortValue(b, j) = SortValue(a, j)
    BY <1>3
  <2>2. Sort!Before(c, b, i)
    BY <1>1, <1>2, <2>1 DEF Sort!Before
  <2>3. \A j \in 1..(i - 1) : SortValue(c, j) = SortValue(b, j)
    BY <1>1, <1>2, <2>1
  <2> QED BY <2>2, <2>3 DEF Sort!Less
<1>4. CASE T # {}
  <2>1. PICK m \in T : \A j \in T : m <= j
    <3>1. T \in SUBSET Nat
      BY <1>2
    <3> HIDE DEF T
    <3> QED BY <3>1, <1>4, LeastElement
  <2>2. /\ m \in 1..i /\ m \in DOMAIN Ascending /\ SortValue(b, m) # SortValue(a, m)
        /\ \A j \in 1..(m - 1) : SortValue(b, j) = SortValue(a, j)
    <3>1. m \in 1..i /\ SortValue(b, m) # SortValue(a, m)
      BY <2>1
    <3>2. ASSUME NEW j \in 1..(m - 1) PROVE SortValue(b, j) = SortValue(a, j)
      <4>1. j \in 1..i /\ ~(m <= j)
        BY <1>2, <3>1
      <4> QED BY <2>1, <4>1
    <3> QED BY <1>2, <3>1, <3>2
  <2>3. /\ SortValue(a, m) \in Int /\ SortValue(b, m) \in Int /\ SortValue(c, m) \in Int
        /\ Ascending[m] \in BOOLEAN
    BY <2>2, ValuesAreNumbers
  <2>4. \A j \in 1..(m - 1) : SortValue(c, j) = SortValue(b, j)
    BY <1>1, <1>2, <2>2
  <2>5. ~Sort!Before(b, a, m)
    BY <2>2 DEF Sort!Less
  <2>6. ~Sort!Before(c, b, m)
    BY <2>2, <2>4 DEF Sort!Less
  <2>7. Sort!Before(a, b, m)
    BY <2>2, <2>3, <2>5 DEF Sort!Before
  <2>8. CASE m = i
    BY <1>1, <2>3, <2>6, <2>7, <2>8 DEF Sort!Before
  <2>9. CASE m # i
    <3>1. SortValue(c, m) = SortValue(a, m)
      BY <1>1, <1>2, <2>2, <2>9
    <3> QED BY <3>1, <2>6, <2>7 DEF Sort!Before
  <2> QED BY <2>8, <2>9
<1> QED BY <1>3, <1>4

LEMMA LessIsStrict ==
  ASSUME NEW a \in Pairs
  PROVE  ~Sort!Less(a, a)
BY ValuesAreNumbers DEF Sort!Less, Sort!Before
-----------------------------------------------------------------------------
(* Cutting a sequence of length l into m chunks. *)

LEMMA ChunksCover ==
  ASSUME NEW l \in Nat, NEW m \in Nat \ {0}, NEW x \in 1..l
  PROVE  \E i \in 1..m : (i - 1) * ((l + m - 1) \div m) < x /\ x <= i * ((l + m - 1) \div m)
<1> DEFINE c == (l + m - 1) \div m
<1>1. c \in Nat /\ c * m >= l
  OBVIOUS
<1> HIDE DEF c
<1>2. c # 0
  BY <1>1
<1> DEFINE q == (x - 1) \div c
<1>3. q \in Nat /\ q * c <= x - 1 /\ x - 1 < q * c + c
  BY <1>1, <1>2
<1> HIDE DEF q
<1>4. q * c < m * c
  BY <1>1, <1>3
<1>5. q < m
  BY <1>1, <1>3, <1>4
<1>6. q + 1 \in 1..m /\ ((q + 1) - 1) * c = q * c /\ (q + 1) * c = q * c + c
  BY <1>1, <1>3, <1>5
<1>7. ((q + 1) - 1) * c < x /\ x <= (q + 1) * c
  BY <1>1, <1>3, <1>6
<1> QED BY <1>6, <1>7 DEF c

LEMMA ChunksAreDisjoint ==
  ASSUME NEW c \in Nat, NEW i \in Nat \ {0}, NEW k \in Nat \ {0}, NEW x \in Nat,
         (i - 1) * c < x, x <= i * c, (k - 1) * c < x, x <= k * c
  PROVE  i = k
<1>1. ASSUME NEW u \in Nat \ {0}, NEW v \in Nat \ {0}, x <= u * c, (v - 1) * c < x PROVE ~(u < v)
  <2> SUFFICES ASSUME u < v PROVE FALSE
    OBVIOUS
  <2> DEFINE d == (v - 1) - u
  <2>1. d \in Nat /\ v - 1 = u + d
    OBVIOUS
  <2> HIDE DEF d
  <2>2. (v - 1) * c = u * c + d * c /\ d * c >= 0 /\ u * c \in Nat /\ d * c \in Nat
    BY <2>1
  <2>3. (v - 1) * c >= u * c
    BY <2>2
  <2> QED BY <2>2, <2>3, <1>1
<1>2. ~(i < k) /\ ~(k < i)
  BY <1>1
<1> QED BY <1>2

(* The tuples that Init of the sort gives to task i. *)
Slice(i) == {all[x] : x \in {x \in 1..Len(all) : (i - 1) * Sort!chunk < x /\ x <= i * Sort!chunk}}

(* Task i has sorted its tuples. *)
IsSorted(i) ==
  /\ IsInjective(partitions_[i]) /\ Sort!Sorted(partitions_[i])
  /\ Range(partitions_[i]) = Slice(i)

Partitions ==
  /\ stage \in {"closed", "sorting", "merging", "terminated"}
  /\ all \in Seq(Pairs) /\ IsInjective(all)
  /\ partitions_ \in [1..Sort!n -> Seq(Pairs)]
  /\ unsorted \subseteq 1..Sort!n /\ (stage \in {"closed", "merging"} => unsorted = {})
  /\ \A i \in 1..Sort!n : partitions_[i] = << >> \/ IsSorted(i)
  /\ stage \in {"sorting", "merging"} => \A i \in 1..Sort!n \ unsorted : IsSorted(i)

(* What is left in the partitions. *)
Rest(e) == {partitions_[e[1]][j] : j \in e[2]..Len(partitions_[e[1]])}
Pending == UNION {Rest(e) : e \in heap_}

(* Each partition has at most one entry in the heap, and the tuples are    *)
(* either returned or pending.                                             *)
Merging ==
  /\ merged \in Seq(Pairs) /\ IsInjective(merged)
  /\ stage # "merging" => heap_ = {} /\ merged = << >>
  /\ heap_ \subseteq Nat \X Nat
  /\ \A e \in heap_ : e[1] \in 1..Sort!n /\ e[2] \in 1..Len(partitions_[e[1]])
  /\ \A e, f \in heap_ : e[1] = f[1] => e = f
  /\ stage = "merging" => Range(merged) \cup Pending = Range(all)
  /\ Range(merged) \cap Pending = {}
  /\ Sort!MergeInOrder

SortInv == Partitions /\ Merging

-----------------------------------------------------------------------------
(* The operators of the sort's module are those of this one. *)
LEMMA SameOperators ==
  /\ \A f : Sort!Range(f) = Range(f) /\ (Sort!IsInjective(f) <=> IsInjective(f))
  /\ \A S, T : Sort!Bijection(S, T) = Bijection(S, T)
<1>1. \A f : Sort!Range(f) = Range(f) /\ (Sort!IsInjective(f) <=> IsInjective(f))
  BY DEF Sort!Range, Range, Sort!IsInjective, IsInjective
<1>2. \A S, T : Sort!Bijection(S, T) = Bijection(S, T)
  BY DEF Sort!Bijection, Bijection, Sort!Injection, Injection, Sort!Surjection, Surjection,
         Sort!IsInjective, IsInjective
<1> QED BY <1>1, <1>2

LEMMA SortSizes ==
  ASSUME all \in Seq(Pairs)
  PROVE  /\ Len(all) \in Nat /\ Sort!n \in Nat /\ Sort!n <= SortThreads
         /\ Sort!n = 0 <=> Len(all) = 0
         /\ Sort!n # 0 => Sort!chunk \in Nat /\ Sort!chunk = (Len(all) + Sort!n - 1) \div Sort!n
<1>1. Len(all) \in Nat /\ SortThreads \in Nat \ {0}
  BY QueryAssumption
<1>2. Sort!n \in Nat /\ Sort!n <= SortThreads /\ (Sort!n = 0 <=> Len(all) = 0)
  BY <1>1 DEF Sort!n
<1>3. ASSUME Sort!n # 0 PROVE (Len(all) + Sort!n - 1) \div Sort!n \in Nat
  BY <1>1, <1>2, <1>3
<1> QED BY <1>1, <1>2, <1>3 DEF Sort!chunk

LEMMA SlicesCover ==
  ASSUME all \in Seq(Pairs)
  PROVE  UNION {Slice(i) : i \in 1..Sort!n} = Range(all)
<1>1. Len(all) \in Nat /\ Sort!n \in Nat /\ (Sort!n = 0 <=> Len(all) = 0) /\ DOMAIN all = 1..Len(all)
  BY SortSizes
<1>2. ASSUME NEW x \in 1..Len(all) PROVE \E i \in 1..Sort!n : all[x] \in Slice(i)
  <2>1. Sort!n \in Nat \ {0} /\ Sort!chunk = (Len(all) + Sort!n - 1) \div Sort!n
    BY <1>1, SortSizes
  <2>2. PICK i \in 1..Sort!n : (i - 1) * Sort!chunk < x /\ x <= i * Sort!chunk
    BY Zenon, <1>1, <2>1, ChunksCover
  <2> QED BY <2>2 DEF Slice
<1>3. \A i \in 1..Sort!n : Slice(i) \subseteq Range(all)
  BY <1>1 DEF Slice, Range
<1>4. Range(all) \subseteq UNION {Slice(i) : i \in 1..Sort!n}
  BY <1>1, <1>2 DEF Range
<1>5. UNION {Slice(i) : i \in 1..Sort!n} \subseteq Range(all)
  BY <1>3
<1> QED BY <1>4, <1>5

LEMMA SlicesAreDisjoint ==
  ASSUME all \in Seq(Pairs), IsInjective(all), NEW i \in 1..Sort!n, NEW k \in 1..Sort!n, i # k
  PROVE  Slice(i) \cap Slice(k) = {}
<1> SUFFICES ASSUME NEW t \in Slice(i), t \in Slice(k) PROVE FALSE
  OBVIOUS
<1>1. PICK x \in 1..Len(all) : t = all[x] /\ (i - 1) * Sort!chunk < x /\ x <= i * Sort!chunk
  BY DEF Slice
<1>2. PICK y \in 1..Len(all) : t = all[y] /\ (k - 1) * Sort!chunk < y /\ y <= k * Sort!chunk
  BY DEF Slice
<1>3. x = y
  <2>1. DOMAIN all = 1..Len(all)
    OBVIOUS
  <2> QED BY Zenon, <1>1, <1>2, <2>1 DEF IsInjective
<1>4. Sort!n \in Nat /\ i \in Nat \ {0} /\ k \in Nat \ {0} /\ x \in Nat /\ Sort!n # 0
  BY SortSizes
<1>5. Sort!chunk \in Nat
  BY <1>4, SortSizes
<1>6. i = k
  BY <1>1, <1>2, <1>3, <1>4, <1>5, ChunksAreDisjoint
<1> QED BY <1>6

(* What task i sorts is its slice.                                         *)
LEMMA TaskGetsSlice ==
  ASSUME all \in Seq(Pairs), NEW i \in 1..Sort!n, NEW end \in Nat,
         end = IF (i - 1) * Sort!chunk + Sort!chunk < Len(all)
               THEN (i - 1) * Sort!chunk + Sort!chunk ELSE Len(all),
         ~((i - 1) * Sort!chunk > end)
  PROVE  Range(SubSeq(all, (i - 1) * Sort!chunk + 1, end)) = Slice(i)
<1> DEFINE start == (i - 1) * Sort!chunk
<1> DEFINE part == SubSeq(all, start + 1, end)
<1>1. Len(all) \in Nat /\ Sort!n \in Nat /\ Sort!n # 0 /\ i \in Nat \ {0}
  BY SortSizes
<1>2. Sort!chunk \in Nat
  BY <1>1, SortSizes
<1>3. start \in Nat /\ i * Sort!chunk = start + Sort!chunk
  BY <1>1, <1>2
<1>4. start <= end /\ end <= Len(all) /\ end = IF i * Sort!chunk < Len(all) THEN i * Sort!chunk ELSE Len(all)
  BY <1>1, <1>2, <1>3
<1> HIDE DEF start
<1>5. /\ part \in Seq(Pairs) /\ Len(part) = end - start
      /\ \A k \in 1..(end - start) : part[k] = all[start + k]
  <2>1. /\ Len(part) = IF start + 1 <= end THEN end - (start + 1) + 1 ELSE 0
        /\ \A k \in 1..(end - (start + 1) + 1) : part[k] = all[(start + 1) + k - 1]
        /\ part \in Seq(Pairs)
    BY <1>1, <1>3, <1>4, SubSeqProperties
  <2>2. end - (start + 1) + 1 = end - start /\ \A k \in 1..(end - start) : (start + 1) + k - 1 = start + k
    BY <1>3
  <2> HIDE DEF part
  <2>3. Len(part) = end - start
    BY <1>3, <1>4, <2>1
  <2> QED BY <2>1, <2>2, <2>3
<1>6. DOMAIN part = 1..(end - start)
  BY <1>5
<1> HIDE DEF part
<1>7. Range(part) = {all[x] : x \in (start + 1)..end}
  <2>1. ASSUME NEW k \in 1..(end - start) PROVE start + k \in (start + 1)..end
    BY <1>3, <1>4
  <2>2. ASSUME NEW x \in (start + 1)..end PROVE x - start \in 1..(end - start) /\ start + (x - start) = x
    BY <1>3, <1>4
  <2>3. Range(part) \subseteq {all[x] : x \in (start + 1)..end}
    BY <1>5, <1>6, <2>1 DEF Range
  <2>4. ASSUME NEW x \in (start + 1)..end PROVE all[x] \in Range(part)
    <3>1. part[x - start] = all[x] /\ x - start \in DOMAIN part
      BY <1>5, <1>6, <2>2
    <3> QED BY <3>1 DEF Range
  <2> QED BY <2>3, <2>4
<1>8. {x \in 1..Len(all) : start < x /\ x <= i * Sort!chunk} = (start + 1)..end
  BY <1>1, <1>2, <1>3, <1>4
<1>9. Slice(i) = {all[x] : x \in (start + 1)..end}
  BY <1>8 DEF Slice, start
<1> QED BY <1>7, <1>9 DEF part, start
-----------------------------------------------------------------------------
(* The empty sequence is a sorted partition for no tuples.                 *)
LEMMA EmptyMerge ==
  /\ << >> \in Seq(Pairs) /\ IsInjective(<< >>) /\ Range(<< >>) = {} /\ Sort!Sorted(<< >>)
  /\ << >> \in [1..0 -> Seq(Pairs)]
<1>1. << >> \in Seq(Pairs) /\ DOMAIN << >> = {}
  OBVIOUS
<1>2. << >> \in [1..0 -> Seq(Pairs)]
  OBVIOUS
<1> QED BY <1>1, <1>2 DEF IsInjective, Range, Sort!Sorted

LEMMA SortInitHolds ==
  ASSUME Sort!Init
  PROVE  SortInv
<1>1. Sort!n = 0 /\ 1..Sort!n = {}
  <2>1. Len(all) = 0 /\ SortThreads \in Nat \ {0}
    BY QueryAssumption DEF Sort!Init
  <2> QED BY <2>1 DEF Sort!n
<1>2. Partitions
  BY <1>1, EmptyMerge DEF Sort!Init, Partitions
<1>3. Pending = {}
  BY DEF Pending, Sort!Init
<1>4. Sort!MergeInOrder
  BY EmptyMerge DEF Sort!Init, Sort!MergeInOrder
<1>5. Merging
  BY <1>3, <1>4, EmptyMerge DEF Sort!Init, Merging
<1> QED BY <1>2, <1>5 DEF SortInv

LEMMA LoadKeepsSort ==
  ASSUME NEW tuples \in Seq(Pairs), IsInjective(tuples), Sort!Load(tuples)
  PROVE  SortInv'
<1> USE DEF Sort!Load
<1>1. Sort!n' \in Nat
  <2>1. Len(all') \in Nat /\ SortThreads \in Nat \ {0}
    BY QueryAssumption
  <2> QED BY <2>1 DEF Sort!n
<1>2. partitions_' \in [1..Sort!n' -> Seq(Pairs)] /\ \A i \in 1..Sort!n' : partitions_'[i] = << >>
  BY EmptyMerge
<1>3. stage' \in {"sorting", "merging", "terminated"}
  OBVIOUS
<1>4. stage' = "merging" => Sort!n' = 0 /\ Range(all') = {}
  <2>1. SUFFICES ASSUME tuples = << >> PROVE Sort!n' = 0 /\ Range(all') = {}
    OBVIOUS
  <2>2. Len(all') = 0 /\ SortThreads \in Nat \ {0}
    BY <2>1, QueryAssumption
  <2> QED BY <2>1, <2>2, EmptyMerge DEF Sort!n
<1>5. stage' = "merging" => unsorted' = {}
  BY <1>4
<1>6. \A i \in 1..Sort!n' \ unsorted' : IsSorted(i)'
  OBVIOUS
<1>7. Partitions'
  <2>1. stage' \in {"closed", "sorting", "merging", "terminated"} /\ stage' # "closed"
    BY <1>3
  <2>2. all' \in Seq(Pairs) /\ IsInjective(all') /\ unsorted' \subseteq 1..Sort!n'
    OBVIOUS
  <2> QED BY <1>2, <1>5, <1>6, <2>1, <2>2, Zenon DEF Partitions
<1>8. Pending' = {}
  BY DEF Pending
<1>9. Sort!MergeInOrder'
  BY EmptyMerge DEF Sort!MergeInOrder
<1>10. Merging'
  BY <1>4, <1>8, <1>9, EmptyMerge DEF Merging
<1> QED BY <1>7, <1>10 DEF SortInv

LEMMA SortPartitionKeepsSort ==
  ASSUME SortInv, NEW i \in 1..SortThreads, Sort!SortPartition(i)
  PROVE  SortInv'
<1> DEFINE start == (i - 1) * Sort!chunk
<1> DEFINE end == IF start + Sort!chunk < Len(all) THEN start + Sort!chunk ELSE Len(all)
<1>1. /\ stage = "sorting" /\ i \in unsorted /\ unsorted' = unsorted \ {i}
      /\ UNCHANGED <<all, heap_, merged>>
  BY DEF Sort!SortPartition
<1>2. i \in 1..Sort!n /\ all \in Seq(Pairs) /\ Sort!n' = Sort!n /\ Sort!chunk' = Sort!chunk
  BY <1>1 DEF SortInv, Partitions, Sort!n, Sort!chunk
<1>3. heap_ = {} /\ merged = << >> /\ Pending' = {} /\ Range(merged) = {}
  BY <1>1, EmptyMerge DEF SortInv, Merging, Pending
<1>4. \A k \in 1..Sort!n : Slice(k)' = Slice(k)
  BY <1>1, <1>2 DEF Slice
<1>5. CASE start > end
  <2>1. stage' = "terminated" /\ UNCHANGED partitions_
    BY <1>5 DEF Sort!SortPartition
  <2>2. \A k \in 1..Sort!n : IsSorted(k)' <=> IsSorted(k)
    BY <1>4, <2>1 DEF IsSorted
  <2>3. Partitions'
    BY <1>1, <1>2, <2>1, <2>2 DEF SortInv, Partitions
  <2>4. Merging'
    BY <1>1, <1>3, <2>1, EmptyMerge DEF SortInv, Merging, Sort!MergeInOrder
  <2> QED BY <2>3, <2>4 DEF SortInv
<1>6. CASE ~(start > end)
  <2>1. end \in Nat /\ start \in Nat
    <3>1. Len(all) \in Nat /\ Sort!n # 0 /\ i \in Nat \ {0}
      BY <1>2, SortSizes
    <3>2. Sort!chunk \in Nat
      BY <1>2, <3>1, SortSizes
    <3>3. start \in Nat
      BY <3>1, <3>2
    <3> QED BY <3>1, <3>2, <3>3
  <2>2. Sort!Range(SubSeq(all, start + 1, end)) = Slice(i)
    BY <1>2, <1>6, <2>1, TaskGetsSlice, SameOperators
  <2>3. PICK p \in Bijection(1..(end - start), Slice(i)) :
             Sort!Sorted(p) /\ partitions_' = [partitions_ EXCEPT ![i] = p] /\ stage' = stage
    <3> DEFINE tuples == Sort!Range(SubSeq(all, start + 1, end))
    <3>1. /\ \E p \in Sort!Bijection(1..(end - start), tuples) :
               Sort!Sorted(p) /\ partitions_' = [partitions_ EXCEPT ![i] = p]
          /\ stage' = stage
      <4>1. IF start > end
            THEN stage' = "terminated" /\ UNCHANGED partitions_
            ELSE /\ \E p \in Sort!Bijection(1..(end - start), tuples) :
                      Sort!Sorted(p) /\ partitions_' = [partitions_ EXCEPT ![i] = p]
                 /\ UNCHANGED stage
        BY DEF Sort!SortPartition
      <4> HIDE DEF start, end, tuples
      <4> QED BY <1>6, <4>1
    <3>2. tuples = Slice(i)
      BY <2>2
    <3> HIDE DEF tuples
    <3>3. Sort!Bijection(1..(end - start), tuples) = Bijection(1..(end - start), tuples)
      BY SameOperators, Zenon
    <3> QED BY Zenon, <3>1, <3>2, <3>3
  <2>4. Slice(i) \subseteq Pairs
    <3>1. \A x \in 1..Len(all) : all[x] \in Pairs
      BY <1>2
    <3> QED BY <3>1 DEF Slice
  <2>5. p \in Seq(Pairs) /\ IsInjective(p) /\ Range(p) = Slice(i)
    <3>1. end - start \in Nat
      BY <1>6, <2>1
    <3>2. /\ p \in [1..(end - start) -> Slice(i)] /\ IsInjective(p)
          /\ \A t \in Slice(i) : \E s \in 1..(end - start) : p[s] = t
      BY DEF Bijection, Injection, Surjection
    <3>3. p \in [1..(end - start) -> Pairs]
      BY <2>4, <3>2
    <3>4. p \in Seq(Pairs)
      BY <3>1, <3>3
    <3>5. Range(p) = Slice(i)
      BY <3>2 DEF Range
    <3> QED BY <3>2, <3>4, <3>5
  <2>6. partitions_' \in [1..Sort!n -> Seq(Pairs)] /\ partitions_'[i] = p
        /\ \A k \in 1..Sort!n : k # i => partitions_'[k] = partitions_[k]
    BY <1>2, <2>3, <2>5 DEF SortInv, Partitions
  <2>7. IsSorted(i)'
    BY <1>2, <1>4, <2>3, <2>5, <2>6 DEF IsSorted
  <2>8. \A k \in 1..Sort!n : k # i => (IsSorted(k)' <=> IsSorted(k))
    BY <1>4, <2>6 DEF IsSorted
  <2>9. Partitions'
    <3>1. \A k \in 1..Sort!n' : partitions_'[k] = << >> \/ IsSorted(k)'
      BY <1>2, <2>6, <2>7, <2>8 DEF SortInv, Partitions
    <3>2. \A k \in 1..Sort!n' \ unsorted' : IsSorted(k)'
      BY <1>1, <1>2, <2>7, <2>8 DEF SortInv, Partitions
    <3> QED BY <1>1, <1>2, <2>3, <2>6, <3>1, <3>2 DEF SortInv, Partitions
  <2>10. Merging'
    BY <1>1, <1>3, <2>3, EmptyMerge DEF SortInv, Merging, Sort!MergeInOrder
  <2> QED BY <2>9, <2>10 DEF SortInv
<1> QED BY <1>5, <1>6
-----------------------------------------------------------------------------
(* While the partitions are merged, every one of them is sorted.           *)
LEMMA MergingIsSorted ==
  ASSUME Partitions, stage \in {"sorting", "merging"}, unsorted = {}, NEW i \in 1..Sort!n
  PROVE  /\ partitions_[i] \in Seq(Pairs) /\ Len(partitions_[i]) \in Nat
         /\ DOMAIN partitions_[i] = 1..Len(partitions_[i])
         /\ \A j \in 1..Len(partitions_[i]) : partitions_[i][j] \in Pairs
         /\ IsSorted(i)
<1>1. partitions_[i] \in Seq(Pairs) /\ IsSorted(i)
  BY DEF Partitions
<1> QED BY <1>1

LEMMA BuildHeapKeepsSort ==
  ASSUME SortInv, Sort!BuildHeap
  PROVE  SortInv'
<1>1. /\ stage = "sorting" /\ unsorted = {} /\ stage' = "merging"
      /\ heap_' = {<<i, 1>> : i \in {i \in DOMAIN partitions_ : partitions_[i] # << >>}}
      /\ UNCHANGED <<all, unsorted, partitions_, merged>>
  BY DEF Sort!BuildHeap
<1>2. /\ Partitions /\ all \in Seq(Pairs) /\ DOMAIN partitions_ = 1..Sort!n
      /\ heap_ = {} /\ merged = << >>
      /\ Sort!n' = Sort!n /\ Sort!chunk' = Sort!chunk /\ 1..Sort!n \subseteq Nat
  BY <1>1, SortSizes DEF SortInv, Partitions, Merging, Sort!n, Sort!chunk
<1>3. \A i \in 1..Sort!n : IsSorted(i) /\ IsSorted(i)'
  BY <1>1, <1>2, MergingIsSorted DEF IsSorted, Slice
<1>4. Partitions'
  BY <1>1, <1>2, <1>3 DEF Partitions
<1>5. \A e \in heap_' : /\ e = <<e[1], 1>> /\ e[1] \in 1..Sort!n /\ e[2] = 1
                        /\ partitions_[e[1]] # << >>
  BY <1>1, <1>2
<1>6. \A i \in 1..Sort!n : partitions_[i] # << >> => 1 \in 1..Len(partitions_[i])
  BY <1>1, <1>2, MergingIsSorted
<1>7. Pending' = Range(all)
  <2>1. ASSUME NEW i \in 1..Sort!n, partitions_[i] # << >> PROVE Rest(<<i, 1>>)' = Slice(i)
    BY <1>1, <1>2, <1>3, <2>1, MergingIsSorted DEF Rest, IsSorted, Range
  <2>2. ASSUME NEW i \in 1..Sort!n, partitions_[i] = << >> PROVE Slice(i) = {}
    BY <1>3, <2>2, EmptyMerge DEF IsSorted
  <2>3. Pending' = UNION {Rest(e)' : e \in heap_'}
    BY DEF Pending
  <2>4. \A e \in heap_' : Rest(e)' \subseteq UNION {Slice(i) : i \in 1..Sort!n}
    BY <1>5, <2>1
  <2>5. \A i \in 1..Sort!n : Slice(i) \subseteq Pending'
    <3> SUFFICES ASSUME NEW i \in 1..Sort!n, NEW t \in Slice(i) PROVE t \in Pending'
      OBVIOUS
    <3>1. partitions_[i] # << >>
      BY <2>2
    <3>2. <<i, 1>> \in heap_'
      BY <1>1, <1>2, <3>1
    <3> QED BY <2>1, <2>3, <3>1, <3>2
  <2>6. UNION {Slice(i) : i \in 1..Sort!n} = Range(all)
    BY <1>2, SlicesCover
  <2> QED BY <2>3, <2>4, <2>5, <2>6
<1>8. Sort!MergeInOrder'
  BY <1>1, <1>2, EmptyMerge DEF Sort!MergeInOrder
<1>9. Merging'
  <2>1. heap_' \subseteq Nat \X Nat
    BY <1>2, <1>5
  <2>2. \A e \in heap_' : e[1] \in 1..Sort!n /\ e[2] \in 1..Len(partitions_[e[1]])
    BY <1>5, <1>6
  <2>3. \A e, f \in heap_' : e[1] = f[1] => e = f
    BY <1>5
  <2>4. Range(merged') = {} /\ merged' \in Seq(Pairs) /\ IsInjective(merged')
    BY <1>1, <1>2, EmptyMerge
  <2> QED BY <1>1, <1>2, <1>7, <1>8, <2>1, <2>2, <2>3, <2>4 DEF Merging
<1> QED BY <1>4, <1>9 DEF SortInv

(* What is left of two partitions has no tuple in common.                  *)
LEMMA RestsAreDisjoint ==
  ASSUME SortInv, stage = "merging", NEW e \in heap_
  PROVE  /\ e[1] \in 1..Sort!n /\ e[2] \in 1..Len(partitions_[e[1]]) /\ e = <<e[1], e[2]>>
         /\ Sort!Tuple(e) \in Rest(e) /\ Sort!Tuple(e) \in Pairs
         /\ Rest(e) \subseteq Slice(e[1])
         /\ \A f \in heap_ : f # e => f[1] # e[1] /\ Rest(f) \cap Rest(e) = {}
<1>1. \A f \in heap_ : /\ f[1] \in 1..Sort!n /\ f[2] \in 1..Len(partitions_[f[1]])
                       /\ f = <<f[1], f[2]>>
                       /\ Rest(f) \subseteq Slice(f[1])
  <2> TAKE f \in heap_
  <2>1. f[1] \in 1..Sort!n /\ f[2] \in 1..Len(partitions_[f[1]]) /\ f \in Nat \X Nat
    BY DEF SortInv, Merging
  <2>2. /\ DOMAIN partitions_[f[1]] = 1..Len(partitions_[f[1]]) /\ IsSorted(f[1])
        /\ Len(partitions_[f[1]]) \in Nat
    BY <2>1, MergingIsSorted DEF SortInv, Partitions
  <2>3. Rest(f) \subseteq Range(partitions_[f[1]])
    BY <2>1, <2>2 DEF Rest, Range
  <2> QED BY <2>1, <2>2, <2>3 DEF IsSorted
<1>2. \A f \in heap_ : f # e => f[1] # e[1]
  BY DEF SortInv, Merging
<1>3. all \in Seq(Pairs) /\ IsInjective(all)
  BY DEF SortInv, Partitions
<1>4. \A f \in heap_ : f # e => Rest(f) \cap Rest(e) = {}
  <2> SUFFICES ASSUME NEW f \in heap_, f # e PROVE Slice(f[1]) \cap Slice(e[1]) = {}
    BY <1>1
  <2> QED BY <1>1, <1>2, <1>3, SlicesAreDisjoint
<1>5. /\ Len(partitions_[e[1]]) \in Nat
      /\ \A j \in 1..Len(partitions_[e[1]]) : partitions_[e[1]][j] \in Pairs
  BY <1>1, MergingIsSorted DEF SortInv, Partitions
<1>6. Sort!Tuple(e) \in Rest(e) /\ Sort!Tuple(e) \in Pairs
  BY <1>1, <1>5 DEF Sort!Tuple, Rest
<1> QED BY <1>1, <1>2, <1>4, <1>6

(* Next of the sort: the least entry of the heap goes out, and the next    *)
(* tuple of its partition takes its place.                                 *)
LEMMA NextKeepsSort ==
  ASSUME SortInv, Sort!Next_
  PROVE  SortInv'
<1>1. stage = "merging" /\ UNCHANGED <<stage, all, unsorted, partitions_>>
  BY DEF Sort!Next_
<1>2. PICK top \in heap_ :
        /\ Sort!IsTop(top)
        /\ merged' = Append(merged, Sort!Tuple(top))
        /\ heap_' = (heap_ \ {top}) \cup
                     {<<top[1], j>> : j \in {top[2] + 1} \cap DOMAIN partitions_[top[1]]}
  BY DEF Sort!Next_
<1> DEFINE p == partitions_[top[1]]
<1> DEFINE t == Sort!Tuple(top)
<1> DEFINE new == {<<top[1], j>> : j \in {top[2] + 1} \cap DOMAIN p}
<1>3. /\ Partitions /\ Merging /\ unsorted = {} /\ Sort!MergeInOrder
      /\ merged \in Seq(Pairs) /\ IsInjective(merged)
      /\ Sort!n' = Sort!n /\ Sort!chunk' = Sort!chunk /\ 1..Sort!n \subseteq Nat
  BY <1>1, SortSizes DEF SortInv, Partitions, Merging, Sort!n, Sort!chunk
<1>4. Partitions'
  <2>1. \A i \in 1..Sort!n : IsSorted(i)' <=> IsSorted(i)
    BY <1>1, <1>3 DEF IsSorted, Slice
  <2> QED BY <1>1, <1>3, <2>1 DEF Partitions
<1>5. /\ top[1] \in 1..Sort!n /\ top[2] \in 1..Len(p) /\ top = <<top[1], top[2]>>
      /\ t \in Rest(top) /\ t \in Pairs
      /\ \A f \in heap_ : f # top => f[1] # top[1] /\ Rest(f) \cap Rest(top) = {}
  BY <1>1, <1>2, RestsAreDisjoint
<1>6. p \in Seq(Pairs) /\ Len(p) \in Nat /\ DOMAIN p = 1..Len(p) /\ IsSorted(top[1])
      /\ \A j \in 1..Len(p) : p[j] \in Pairs
  BY <1>1, <1>3, <1>5, MergingIsSorted
<1>7. IsInjective(p) /\ Sort!Sorted(p) /\ t = p[top[2]]
  BY <1>6 DEF IsSorted, Sort!Tuple
<1> HIDE DEF p, t
<1>8. \A e : Rest(e)' = Rest(e)
  BY <1>1 DEF Rest
<1>9. \A e \in new : /\ e = <<top[1], top[2] + 1>> /\ e[1] = top[1] /\ e[2] = top[2] + 1
                     /\ e[2] \in 1..Len(p)
  BY <1>6
<1>10. Rest(top) = {t} \cup UNION {Rest(e) : e \in new} /\ t \notin UNION {Rest(e) : e \in new}
  <2>1. Rest(top) = {p[j] : j \in top[2]..Len(p)}
    BY DEF Rest, p
  <2>2. \A e \in new : Rest(e) = {p[j] : j \in (top[2] + 1)..Len(p)}
    BY <1>9 DEF Rest, p
  <2>3. top[2] + 1 \notin 1..Len(p) => (top[2] + 1)..Len(p) = {}
    BY <1>5, <1>6
  <2>4. top[2] + 1 \in 1..Len(p) => <<top[1], top[2] + 1>> \in new
    BY <1>6
  <2>5. UNION {Rest(e) : e \in new} = {p[j] : j \in (top[2] + 1)..Len(p)}
    <3>1. CASE top[2] + 1 \in 1..Len(p)
      <4> HIDE DEF new
      <4> QED BY <2>2, <2>4, <3>1
    <3>2. CASE top[2] + 1 \notin 1..Len(p)
      <4>1. new = {}
        BY <1>6, <3>2
      <4> QED BY <2>3, <3>2, <4>1
    <3> QED BY <3>1, <3>2
  <2>6. top[2]..Len(p) = {top[2]} \cup (top[2] + 1)..Len(p)
    BY <1>5, <1>6
  <2>7. \A j \in (top[2] + 1)..Len(p) : p[j] # t
    <3> SUFFICES ASSUME NEW j \in (top[2] + 1)..Len(p), p[j] = t PROVE FALSE
      OBVIOUS
    <3>1. j \in DOMAIN p /\ top[2] \in DOMAIN p /\ j # top[2]
      BY <1>5, <1>6
    <3> QED BY <1>7, <3>1 DEF IsInjective
  <2> HIDE DEF new
  <2> QED BY Zenon, <1>7, <2>1, <2>5, <2>6, <2>7
<1>11. heap_' = (heap_ \ {top}) \cup new
  BY <1>2 DEF p
<1> HIDE DEF new
<1>12. Pending' = UNION {Rest(e) : e \in heap_'}
  BY <1>8 DEF Pending
<1>13. Pending = Rest(top) \cup UNION {Rest(e) : e \in heap_ \ {top}}
  BY <1>2 DEF Pending
<1>14. Pending' = Pending \ {t}
  <2>1. Pending' = (UNION {Rest(e) : e \in heap_ \ {top}}) \cup UNION {Rest(e) : e \in new}
    BY <1>11, <1>12
  <2>2. t \notin UNION {Rest(e) : e \in heap_ \ {top}}
    BY <1>5
  <2> QED BY <1>10, <1>13, <2>1, <2>2
<1>15. t \in Pending /\ t \notin Range(merged)
  <2>1. t \in Pending
    BY <1>5, <1>13
  <2> QED BY <1>3, <2>1 DEF Merging
<1>16. /\ merged' \in Seq(Pairs) /\ IsInjective(merged') /\ Len(merged') = Len(merged) + 1
       /\ Range(merged') = Range(merged) \cup {t} /\ merged' = Append(merged, t)
  BY <1>2, <1>3, <1>5, <1>15, AppendKeepsInjective DEF t
<1>17. Sort!MergeInOrder'
  <2>1. /\ Len(merged) \in Nat /\ DOMAIN merged = 1..Len(merged) /\ DOMAIN merged' = 1..(Len(merged) + 1)
        /\ merged'[Len(merged) + 1] = t
        /\ \A k \in 1..Len(merged) : merged'[k] = merged[k] /\ merged[k] \in Pairs
    BY <1>3, <1>5, <1>16
  <2>2. ASSUME NEW k \in 1..Len(merged) PROVE ~Sort!Less(t, merged[k])
    <3>1. merged # << >> /\ Len(merged) \in 1..Len(merged) /\ merged[Len(merged)] \in Pairs
          /\ merged[k] \in Pairs
      BY <1>3, <2>1
    <3>2. top[2] \in top[2]..Len(p)
      BY <1>5, <1>6
    <3>3. ~Sort!Less(t, merged[Len(merged)])
      BY <1>1, <1>2, <1>3, <1>7, <3>1, <3>2 DEF Sort!MergeInOrder, p
    <3>4. CASE k = Len(merged)
      BY <3>3, <3>4
    <3>5. CASE k < Len(merged)
      <4>1. ~Sort!Less(merged[Len(merged)], merged[k])
        BY <1>3, <2>1, <3>1, <3>5 DEF Sort!MergeInOrder, Sort!Sorted
      <4> QED BY <1>5, <3>1, <3>3, <4>1, LessIsOrder
    <3>6. k = Len(merged) \/ k < Len(merged)
      <4>1. Len(merged) \in Nat
        BY <2>1
      <4> QED BY <4>1
    <3> QED BY <3>4, <3>5, <3>6
  <2>3. Sort!Sorted(merged')
    <3> SUFFICES ASSUME NEW i \in DOMAIN merged', NEW j \in DOMAIN merged', i < j
                 PROVE  ~Sort!Less(merged'[j], merged'[i])
      BY DEF Sort!Sorted
    <3>1. i \in 1..Len(merged)
      BY <2>1
    <3>2. CASE j = Len(merged) + 1
      BY <2>1, <2>2, <3>1, <3>2
    <3>3. CASE j # Len(merged) + 1
      <4>1. j \in 1..Len(merged)
        BY <2>1, <3>3
      <4>2. ~Sort!Less(merged[j], merged[i])
        BY <1>3, <2>1, <3>1, <4>1 DEF Sort!MergeInOrder, Sort!Sorted
      <4> QED BY <2>1, <3>1, <4>1, <4>2
    <3> QED BY <3>2, <3>3
  <2>4. ASSUME NEW e \in heap_', NEW j \in e[2]..Len(partitions_[e[1]])
        PROVE  ~Sort!Less(partitions_[e[1]][j], t)
    <3>1. CASE e \in new
      <4>1. e[1] = top[1] /\ j \in DOMAIN p /\ top[2] \in DOMAIN p /\ top[2] < j
        BY <1>5, <1>6, <1>9, <3>1 DEF p
      <4> QED BY <1>7, <4>1 DEF Sort!Sorted, p
    <3>2. CASE e \in heap_ \ {top}
      <4> DEFINE q == partitions_[e[1]]
      <4>1. e[1] \in 1..Sort!n /\ e[2] \in 1..Len(q) /\ Sort!Tuple(e) \in Pairs
        BY <1>1, <3>2, RestsAreDisjoint
      <4>2. /\ Len(q) \in Nat /\ DOMAIN q = 1..Len(q) /\ IsSorted(e[1])
            /\ \A k \in 1..Len(q) : q[k] \in Pairs
        BY <1>1, <1>3, <4>1, MergingIsSorted
      <4>3. ~Sort!Less(Sort!Tuple(e), t)
        BY <1>2, <3>2 DEF Sort!IsTop, t
      <4>4. j \in 1..Len(q) /\ q[j] \in Pairs
        BY <4>1, <4>2
      <4>5. CASE j = e[2]
        BY <4>3, <4>5 DEF Sort!Tuple
      <4>6. CASE j # e[2]
        <5>1. e[2] < j
          BY <4>1, <4>2, <4>6
        <5>2. ~Sort!Less(q[j], Sort!Tuple(e))
          BY <4>1, <4>2, <4>4, <5>1 DEF IsSorted, Sort!Sorted, Sort!Tuple
        <5> QED BY <1>5, <4>1, <4>3, <4>4, <5>2, LessIsOrder
      <4> QED BY <4>5, <4>6
    <3> QED BY <1>11, <3>1, <3>2
  <2>5. merged'[Len(merged')] = t
    BY <1>16, <2>1
  <2> QED BY <1>1, <2>3, <2>4, <2>5 DEF Sort!MergeInOrder
<1>18. Merging'
  <2>1. ASSUME NEW e \in heap_'
        PROVE  e \in Nat \X Nat /\ e[1] \in 1..Sort!n /\ e[2] \in 1..Len(partitions_[e[1]])
    <3>1. CASE e \in new
      <4>1. e = <<top[1], top[2] + 1>> /\ e[1] = top[1] /\ e[2] = top[2] + 1 /\ e[2] \in 1..Len(p)
        BY <1>9, <3>1
      <4>2. top[1] \in Nat /\ top[2] + 1 \in Nat
        BY <1>3, <1>5, <1>6
      <4> QED BY <1>5, <4>1, <4>2 DEF p
    <3>2. CASE e \in heap_ \ {top}
      BY <1>3, <3>2 DEF Merging
    <3> QED BY <1>11, <3>1, <3>2
  <2>2. ASSUME NEW e \in heap_', NEW f \in heap_', e[1] = f[1] PROVE e = f
    <3>1. CASE e \in new /\ f \in new
      BY <1>9, <3>1
    <3>2. CASE e \in new /\ f \in heap_ \ {top}
      BY <1>5, <1>9, <2>2, <3>2
    <3>3. CASE e \in heap_ \ {top} /\ f \in new
      BY <1>5, <1>9, <2>2, <3>3
    <3>4. CASE e \in heap_ \ {top} /\ f \in heap_ \ {top}
      BY <1>3, <2>2, <3>4 DEF Merging
    <3> QED BY <1>11, <3>1, <3>2, <3>3, <3>4
  <2>3. Range(merged') \cup Pending' = Range(all) /\ Range(merged') \cap Pending' = {}
    BY <1>1, <1>3, <1>14, <1>15, <1>16 DEF Merging
  <2>4. heap_' \subseteq Nat \X Nat
    BY <2>1
  <2>5. \A e \in heap_' : e[1] \in 1..Sort!n' /\ e[2] \in 1..Len(partitions_'[e[1]])
    BY <1>1, <1>3, <2>1
  <2> QED BY <1>1, <1>16, <1>17, <2>2, <2>3, <2>4, <2>5 DEF Merging
<1> QED BY <1>4, <1>18 DEF SortInv

LEMMA CloseKeepsSort ==
  ASSUME SortInv, Sort!Close
  PROVE  SortInv'
<1> USE DEF Sort!Close
<1>1. Sort!n' = 0 /\ 1..Sort!n' = {} /\ unsorted' = {}
  <2>1. Len(all') = 0 /\ SortThreads \in Nat \ {0}
    BY QueryAssumption
  <2> QED BY <2>1 DEF Sort!n, SortInv, Partitions
<1>2. Partitions'
  BY <1>1, EmptyMerge DEF Partitions
<1>3. Pending' = {}
  BY DEF Pending
<1>4. Sort!MergeInOrder'
  BY EmptyMerge DEF Sort!MergeInOrder
<1>5. Merging'
  BY <1>3, <1>4, EmptyMerge DEF Merging
<1> QED BY <1>2, <1>5 DEF SortInv

LEMMA UnchangedKeepsSort ==
  ASSUME SortInv, UNCHANGED sortVars
  PROVE  SortInv'
<1> USE DEF sortVars
<1>1. Sort!n' = Sort!n /\ Sort!chunk' = Sort!chunk
  BY DEF Sort!n, Sort!chunk
<1>2. \A i : IsSorted(i)' <=> IsSorted(i)
  BY <1>1 DEF IsSorted, Slice
<1>3. Partitions'
  BY <1>1, <1>2 DEF SortInv, Partitions
<1>4. Pending' = Pending
  BY DEF Pending, Rest
<1>5. Sort!MergeInOrder'
  BY DEF SortInv, Merging, Sort!MergeInOrder
<1>6. Merging'
  BY <1>1, <1>4, <1>5 DEF SortInv, Merging
<1> QED BY <1>3, <1>6 DEF SortInv

LEMMA InjectiveSize ==
  ASSUME NEW s \in Seq(Pairs), IsInjective(s)
  PROVE  IsFiniteSet(Range(s)) /\ Cardinality(Range(s)) = Len(s) /\ Len(s) \in Nat
<1>1. DOMAIN s = 1..Len(s) /\ Len(s) \in Nat
  OBVIOUS
<1>2. Range(s) = {s[x] : x \in 1..Len(s)}
  BY <1>1, Zenon DEF Range
<1>3. s \in [1..Len(s) -> Range(s)]
  BY <1>1, <1>2
<1>4. s \in Surjection(1..Len(s), Range(s))
  BY <1>2, <1>3 DEF Surjection
<1>5. s \in Injection(1..Len(s), Range(s))
  BY <1>3 DEF Injection
<1>6. IsFiniteSet(1..Len(s)) /\ Cardinality(1..Len(s)) = Len(s)
  BY <1>1, FS_Interval
<1> QED BY <1>1, <1>4, <1>5, <1>6, FS_Surjection

LEMMA SortTypes ==
  ASSUME SortInv
  PROVE  Sort!TypeOK
<1>1. all \in Seq(Pairs) /\ DOMAIN partitions_ = 1..Sort!n
  BY DEF SortInv, Partitions
<1>2. unsorted \subseteq 1..SortThreads
  BY <1>1, SortSizes, QueryAssumption DEF SortInv, Partitions
<1>3. ASSUME NEW i \in 1..Sort!n
      PROVE  /\ Range(partitions_[i]) \subseteq Range(all)
             /\ IsInjective(partitions_[i]) /\ partitions_[i] \in Seq(Pairs)
  <2>1. partitions_[i] = << >> \/ IsSorted(i)
    BY DEF SortInv, Partitions
  <2>2. Slice(i) \subseteq Range(all)
    BY <1>1, SlicesCover
  <2>3. partitions_[i] \in Seq(Pairs)
    BY DEF SortInv, Partitions
  <2> QED BY <2>1, <2>2, <2>3, EmptyMerge DEF IsSorted
<1>4. ASSUME NEW i \in 1..Sort!n PROVE Len(partitions_[i]) <= Len(all)
  <2> DEFINE p == partitions_[i]
  <2>1. p \in Seq(Pairs) /\ IsInjective(p) /\ Range(p) \subseteq Range(all)
    BY <1>3
  <2> HIDE DEF p
  <2>2. Cardinality(Range(p)) = Len(p) /\ Len(p) \in Nat
    BY <2>1, InjectiveSize
  <2>3. Cardinality(Range(all)) = Len(all) /\ IsFiniteSet(Range(all))
    BY <1>1, InjectiveSize DEF SortInv, Partitions
  <2>4. Cardinality(Range(p)) <= Cardinality(Range(all))
    BY <2>1, <2>3, FS_Subset
  <2> QED BY <2>2, <2>3, <2>4 DEF p
<1>5. heap_ \subseteq {<<i, j>> : i \in DOMAIN partitions_, j \in DOMAIN all}
  <2> SUFFICES ASSUME NEW e \in heap_
               PROVE  \E i \in DOMAIN partitions_, j \in DOMAIN all : e = <<i, j>>
    OBVIOUS
  <2>1. e \in Nat \X Nat /\ e[1] \in 1..Sort!n /\ e[2] \in 1..Len(partitions_[e[1]])
    BY DEF SortInv, Merging
  <2>2. Len(partitions_[e[1]]) <= Len(all) /\ partitions_[e[1]] \in Seq(Pairs)
    BY <1>3, <1>4, <2>1
  <2>3. e[2] \in DOMAIN all
    BY <1>1, <2>1, <2>2
  <2>4. e = <<e[1], e[2]>>
    BY <2>1
  <2> QED BY <1>1, <2>1, <2>3, <2>4
<1> QED BY <1>1, <1>2, <1>3, <1>5, SameOperators DEF SortInv, Partitions, Sort!TypeOK
-----------------------------------------------------------------------------
(* The answer of the query. *)
Answer == {p \in Pairs : LeftKey(p[1]) = RightKey(p[2])}

FrameForEachTask == Cardinality(Tasks) <= pool_size_

(* What the operators have handed over to each other: the join has what    *)
(* the scan returned, and the sort what the join found.                    *)
Handover ==
  /\ phase \in {"build", "probe", "open"} =>
       /\ left_tuples \in Seq(Table) /\ IsInjective(left_tuples)
       /\ FrameForEachTask => Range(left_tuples) = Table
  /\ phase \in {"probe", "open"} => right_tuples = RightRows
  /\ stage \in {"sorting", "merging"} =>
       /\ Range(all) \subseteq Answer
       /\ FrameForEachTask => Range(all) = Answer

LEMMA JoinedTuples ==
  ASSUME Handover, Join!TypeOK, Join!JoinIsComplete, phase = "open"
  PROVE  LET tuples == [m \in DOMAIN output_buffer_ |-> Concat(output_buffer_[m])]
         IN /\ tuples \in Seq(Pairs) /\ IsInjective(tuples)
            /\ Range(tuples) \subseteq Answer
            /\ FrameForEachTask => Range(tuples) = Answer
<1> DEFINE buf == output_buffer_
<1> DEFINE tuples == [m \in DOMAIN buf |-> Concat(buf[m])]
<1> DEFINE L == 1..Len(left_tuples)
<1> DEFINE R == 1..Len(right_tuples)
<1>1. /\ left_tuples \in Seq(Table) /\ IsInjective(left_tuples) /\ right_tuples = RightRows
      /\ FrameForEachTask => Range(left_tuples) = Table
      /\ right_tuples \in Seq(Range(RightRows)) /\ IsInjective(right_tuples)
  BY QueryAssumption DEF Handover
<1>2. /\ DOMAIN left_tuples = L /\ \A i \in L : left_tuples[i] \in Table
      /\ DOMAIN right_tuples = R /\ \A j \in R : right_tuples[j] \in Range(RightRows)
      /\ \A i, j \in L : left_tuples[i] = left_tuples[j] => i = j
      /\ \A i, j \in R : right_tuples[i] = right_tuples[j] => i = j
  BY <1>1 DEF IsInjective
<1>3. /\ buf \in Seq(L \X R)
      /\ IsInjective(buf)
      /\ Range(buf) = {p \in L \X R : LeftKey(left_tuples[p[1]]) = RightKey(right_tuples[p[2]])}
  BY Zenon DEF Join!TypeOK, Join!JoinIsComplete, Join!LeftIdx, Join!RightIdx, Join!Matches,
         Join!IsInjective, IsInjective, Join!Range, Range
<1> HIDE DEF L, R, buf
<1>4. /\ DOMAIN buf = 1..Len(buf) /\ Len(buf) \in Nat /\ \A m \in 1..Len(buf) : buf[m] \in L \X R
      /\ \A m, k \in 1..Len(buf) : buf[m] = buf[k] => m = k
  BY <1>3 DEF IsInjective
<1>5. ASSUME NEW m \in 1..Len(buf)
      PROVE  /\ buf[m][1] \in L /\ buf[m][2] \in R /\ buf[m] = <<buf[m][1], buf[m][2]>>
             /\ Concat(buf[m]) = <<left_tuples[buf[m][1]], right_tuples[buf[m][2]]>>
             /\ Concat(buf[m]) \in Answer
  <2>1. buf[m] \in L \X R /\ buf[m] \in Range(buf)
    BY <1>4 DEF Range
  <2>2. buf[m][1] \in L /\ buf[m][2] \in R /\ buf[m] = <<buf[m][1], buf[m][2]>>
    BY <2>1
  <2>3. LeftKey(left_tuples[buf[m][1]]) = RightKey(right_tuples[buf[m][2]])
    BY Zenon, <1>3, <2>1
  <2>4. left_tuples[buf[m][1]] \in Table /\ right_tuples[buf[m][2]] \in Range(RightRows)
    BY <1>2, <2>2
  <2> QED BY <2>2, <2>3, <2>4 DEF Concat, Answer, Pairs
<1>6. tuples = [m \in 1..Len(buf) |-> Concat(buf[m])]
  BY <1>4
<1>7. /\ DOMAIN tuples = 1..Len(buf)
      /\ \A m \in 1..Len(buf) : tuples[m] = Concat(buf[m]) /\ tuples[m] \in Answer
  BY <1>5, <1>6
<1>8. tuples \in Seq(Pairs)
  <2>1. \A m \in 1..Len(buf) : Concat(buf[m]) \in Pairs
    BY <1>5 DEF Answer
  <2>2. Len(buf) \in Nat
    BY <1>4
  <2> HIDE DEF tuples
  <2>3. tuples \in [1..Len(buf) -> Pairs]
    BY <1>6, <2>1
  <2> QED BY <2>2, <2>3
<1> HIDE DEF tuples
<1>9. IsInjective(tuples)
  <2> SUFFICES ASSUME NEW m \in 1..Len(buf), NEW k \in 1..Len(buf), tuples[m] = tuples[k]
               PROVE  m = k
    BY <1>7 DEF IsInjective
  <2>1. /\ left_tuples[buf[m][1]] = left_tuples[buf[k][1]]
        /\ right_tuples[buf[m][2]] = right_tuples[buf[k][2]]
    BY <1>5, <1>7
  <2>2. buf[m][1] = buf[k][1] /\ buf[m][2] = buf[k][2]
    BY <1>2, <1>5, <2>1
  <2>3. buf[m] = buf[k]
    BY <1>5, <2>2
  <2> QED BY <1>4, <2>3
<1>10. Range(tuples) \subseteq Answer
  BY <1>7 DEF Range
<1>11. ASSUME FrameForEachTask, NEW p \in Answer PROVE p \in Range(tuples)
  <2>1. p[1] \in Range(left_tuples) /\ p[2] \in Range(right_tuples) /\ p = <<p[1], p[2]>>
        /\ LeftKey(p[1]) = RightKey(p[2])
    BY <1>1, <1>11 DEF Answer, Pairs
  <2>2. PICK i \in L : left_tuples[i] = p[1]
    BY <1>2, <2>1 DEF Range
  <2>3. PICK j \in R : right_tuples[j] = p[2]
    BY <1>2, <2>1 DEF Range
  <2>4. <<i, j>> \in Range(buf)
    BY <1>3, <2>1, <2>2, <2>3
  <2>5. PICK m \in 1..Len(buf) : buf[m] = <<i, j>>
    BY <1>4, <2>4 DEF Range
  <2>6. tuples[m] = p
    BY <1>5, <1>7, <2>1, <2>2, <2>3, <2>5
  <2> QED BY <1>7, <2>6 DEF Range
<1>12. FrameForEachTask => Range(tuples) = Answer
  BY <1>10, <1>11
<1> QED BY <1>8, <1>9, <1>10, <1>12 DEF tuples, buf
-----------------------------------------------------------------------------
LEMMA QueryKeepsScan ==
  ASSUME ScanInv, [QueryNext]_queryVars
  PROVE  ScanInv'
<1>1. [Next]_vars
  BY DEF QueryNext, queryVars, ScanStep, LeftIsRead, JoinStep, JoinTask, ChildIsRead, SortStep,
         SortTask, Next
<1> QED BY <1>1, ScanKeeps

LEMMA QueryKeepsSort ==
  ASSUME SortInv, Handover, Join!TypeOK, Join!JoinIsComplete, [QueryNext]_queryVars
  PROVE  SortInv'
<1>1. CASE ChildIsRead
  BY <1>1, JoinedTuples, LoadKeepsSort DEF ChildIsRead
<1>2. CASE SortStep
  BY <1>2, BuildHeapKeepsSort, NextKeepsSort, CloseKeepsSort DEF SortStep
<1>3. ASSUME NEW i \in 1..SortThreads, SortTask(i) PROVE SortInv'
  BY <1>3, SortPartitionKeepsSort DEF SortTask
<1>4. CASE UNCHANGED sortVars
  BY <1>4, UnchangedKeepsSort
<1>5. \/ ChildIsRead \/ SortStep \/ \E i \in 1..SortThreads : SortTask(i)
      \/ UNCHANGED sortVars
  BY DEF QueryNext, queryVars, ScanStep, LeftIsRead, JoinStep, JoinTask
<1> QED BY <1>1, <1>2, <1>3, <1>4, <1>5

LEMMA QueryKeepsHandover ==
  ASSUME ScanInv, SortInv, Handover, Join!TypeOK, Join!JoinIsComplete, [QueryNext]_queryVars
  PROVE  Handover'
<1>1. FrameForEachTask' <=> FrameForEachTask
  <2>1. pool_size_' = pool_size_
    BY Zenon DEF QueryNext, queryVars, ScanStep, LeftIsRead, JoinStep, JoinTask, ChildIsRead,
           SortStep, SortTask, Next, TaskStep, Claim, NothingLeft, FetchPage, FetchFails, ReadPage,
           StartScan, WaitAllAndMerge, Next_, Close, vars, ownerVars
  <2> QED BY <2>1 DEF FrameForEachTask
<1> DEFINE Joined ==
      /\ phase \in {"build", "probe", "open"} =>
           /\ left_tuples \in Seq(Table) /\ IsInjective(left_tuples)
           /\ FrameForEachTask => Range(left_tuples) = Table
      /\ phase \in {"probe", "open"} => right_tuples = RightRows
<1> DEFINE Sorting ==
      stage \in {"sorting", "merging"} =>
        /\ Range(all) \subseteq Answer
        /\ FrameForEachTask => Range(all) = Answer
<1>2. Joined /\ Sorting
  BY DEF Handover
<1>3. CASE UNCHANGED joinVars /\ UNCHANGED sortVars
  BY <1>1, <1>3 DEF Handover, joinVars, sortVars
<1>4. CASE LeftIsRead
  <2>1. phase' = "build" /\ left_tuples' = returned /\ UNCHANGED sortVars /\ Exhausted
    BY <1>4 DEF LeftIsRead, Join!StartBuild
  <2>2. returned \in Seq(Table) /\ IsInjective(returned)
    BY <2>1, ScanInvImplies DEF ScanInv, TypeOK, OnlyUnfetchedMissing
  <2>3. FrameForEachTask => Range(returned) = Table
    <3>1. FrameForEachTask => skipped = {}
      BY ScanInvImplies DEF OnlyUnfetchedMissing, FrameForEachTask
    <3>2. Range(returned) = RowsOf(Index \ skipped)
      BY <2>1, ScanInvImplies DEF OnlyUnfetchedMissing
    <3>3. Index \ {} = Index
      OBVIOUS
    <3> QED BY <3>1, <3>2, <3>3 DEF Table
  <2> QED BY <1>1, <2>1, <2>2, <2>3 DEF Handover, sortVars
<1>5. CASE JoinStep
  <2>1. /\ left_tuples' = left_tuples /\ UNCHANGED sortVars
        /\ \/ phase = "build" /\ phase' = "probe" /\ right_tuples' = RightRows
           \/ phase = "probe" /\ phase' = "open" /\ right_tuples' = right_tuples
           \/ phase = "open" /\ phase' = "open" /\ right_tuples' = right_tuples
    BY <1>5 DEF JoinStep, Join!StartProbe, Join!Merge, Join!Next_, Join!inputVars
  <2>2. Joined' /\ Sorting'
    BY <1>1, <1>2, <2>1 DEF sortVars
  <2> QED BY <2>2 DEF Handover
<1>6. ASSUME NEW t \in 1..JoinThreads, JoinTask(t) PROVE Handover'
  <2>1. UNCHANGED <<phase, left_tuples, right_tuples>> /\ UNCHANGED sortVars
    BY Zenon, <1>6 DEF JoinTask, Join!TaskStep, Join!Claim, Join!Build, Join!Probe, Join!Worked,
                Join!inputVars
  <2> QED BY <1>1, <2>1 DEF Handover, sortVars
<1>7. CASE ChildIsRead
  <2>1. phase = "open" /\ phase' = "closed"
        /\ all' = [m \in DOMAIN output_buffer_ |-> Concat(output_buffer_[m])]
    BY <1>7 DEF ChildIsRead, Join!Close, Sort!Load
  <2>2. Range(all') \subseteq Answer /\ (FrameForEachTask => Range(all') = Answer)
    BY <2>1, JoinedTuples
  <2> QED BY <1>1, <2>1, <2>2 DEF Handover
<1>8. CASE SortStep \/ \E i \in 1..SortThreads : SortTask(i)
  <2>1. UNCHANGED joinVars
        /\ \/ stage' = "closed"
           \/ stage \in {"sorting", "merging"} /\ all' = all
    BY Zenon, <1>8 DEF SortStep, SortTask, Sort!BuildHeap, Sort!Next_, Sort!Close, Sort!SortPartition
  <2>2. Joined' /\ Sorting'
    BY <1>1, <1>2, <2>1 DEF joinVars
  <2> QED BY <2>2 DEF Handover
<1>9. \/ UNCHANGED joinVars /\ UNCHANGED sortVars
      \/ LeftIsRead \/ JoinStep \/ \E t \in 1..JoinThreads : JoinTask(t)
      \/ ChildIsRead \/ SortStep \/ \E i \in 1..SortThreads : SortTask(i)
  BY DEF QueryNext, queryVars, ScanStep
<1> QED BY <1>3, <1>4, <1>5, <1>6, <1>7, <1>8, <1>9

(* When the heap is empty, everything that the join has found is returned. *)
LEMMA QueryInvImplies ==
  ASSUME SortInv, Handover
  PROVE  SortInOrder /\ QueryIsRight
<1>1. SortInOrder
  BY DEF SortInv, Merging, SortInOrder
<1>2. ASSUME stage = "merging", heap_ = {}
      PROVE  /\ IsInjective(merged) /\ Range(merged) \subseteq Answer
             /\ FrameForEachTask => Range(merged) = Answer
  <2>1. Pending = {}
    BY <1>2 DEF Pending
  <2>2. Range(merged) = Range(all) /\ IsInjective(merged)
    BY <1>2, <2>1 DEF SortInv, Merging
  <2> QED BY <1>2, <2>2 DEF Handover
<1> QED BY Zenon, <1>1, <1>2 DEF QueryIsRight, Answer, Pairs, FrameForEachTask
-----------------------------------------------------------------------------
(* The join of the query is a join whose left input is tuples of the       *)
(* table; what is proved about joins holds for it.                         *)
JP == INSTANCE ParallelHashJoinProofs WITH
  Threads <- JoinThreads, LeftInputs <- Seq(Table), RightInputs <- {RightRows},
  left_key_ <- LeftKey, right_key_ <- RightKey, Key <- JoinKeys

(* The invariant of the query. *)
QueryInv == ScanInv /\ JP!ResultInv /\ SortInv /\ Handover

LEMMA JoinAssumptionHolds == JP!JoinAssumption
<1>1. ASSUME NEW left \in Seq(Table)
      PROVE  Len(left) \in Nat /\ \A i \in 1..Len(left) : LeftKey(left[i]) \in JoinKeys
  BY QueryAssumption
<1>2. Len(RightRows) \in Nat /\ \A i \in 1..Len(RightRows) : RightKey(RightRows[i]) \in JoinKeys
  BY QueryAssumption
<1>3. JoinThreads \in Nat \ {0}
  BY QueryAssumption
<1> QED BY <1>1, <1>2, <1>3 DEF JP!JoinAssumption

LEMMA JoinInitIsJoinInit == Join!Init <=> JP!Init
  BY DEF Join!Init, JP!Init, Join!EmptyTable, JP!EmptyTable, Join!Tasks, JP!Tasks, Join!None, JP!None

LEMMA JoinActions ==
  /\ \A left : Join!StartBuild(left) => JP!StartBuild(left)
  /\ \A right : Join!StartProbe(right) => JP!StartProbe(right)
  /\ Join!Merge => JP!Merge
  /\ Join!Next_ => JP!Next_
  /\ Join!Close => JP!Close
  /\ \A t : Join!TaskStep(t) => JP!TaskStep(t)
  /\ UNCHANGED joinVars => UNCHANGED JP!vars
<1> USE DEF Join!Tasks, JP!Tasks, Join!None, JP!None, Join!inputVars, JP!inputVars,
            Join!taskVars, JP!taskVars, Join!outputVars, JP!outputVars
<1>1. \A left : Join!StartBuild(left) => JP!StartBuild(left)
  BY Zenon DEF Join!StartBuild, JP!StartBuild, Join!Submit, JP!Submit, Join!EmptyTable, JP!EmptyTable
<1>2. \A right : Join!StartProbe(right) => JP!StartProbe(right)
  BY Zenon DEF Join!StartProbe, JP!StartProbe, Join!Submit, JP!Submit, Join!BuildIsOver,
         JP!BuildIsOver, Join!WaitAll, JP!WaitAll
<1>3. Join!Merge => JP!Merge
  BY Zenon DEF Join!Merge, JP!Merge, Join!Merged, JP!Merged, Join!WaitAll, JP!WaitAll
<1>4. Join!Next_ => JP!Next_
  BY Zenon DEF Join!Next_, JP!Next_
<1>5. Join!Close => JP!Close
  BY Zenon DEF Join!Close, JP!Close, Join!EmptyTable, JP!EmptyTable
<1>6. \A t : Join!Claim(t) => JP!Claim(t)
  BY Zenon DEF Join!Claim, JP!Claim, Join!Size, JP!Size, Join!AfterLast, JP!AfterLast
<1>7. \A t : Join!Worked(t) => JP!Worked(t)
  BY Zenon DEF Join!Worked, JP!Worked
<1>8. \A t : Join!Build(t) => JP!Build(t)
  BY <1>7, Zenon DEF Join!Build, JP!Build
<1>9. \A t : Join!Probe(t) => JP!Probe(t)
  BY <1>7, Zenon DEF Join!Probe, JP!Probe
<1>10. UNCHANGED joinVars => UNCHANGED JP!vars
  BY DEF joinVars, JP!vars
<1>11. \A t : Join!TaskStep(t) => JP!TaskStep(t)
  BY <1>6, <1>8, <1>9, Zenon DEF Join!TaskStep, JP!TaskStep
<1> QED BY <1>1, <1>2, <1>3, <1>4, <1>5, <1>10, <1>11, Zenon

LEMMA QueryKeepsJoin ==
  ASSUME ScanInv, JP!ResultInv, [QueryNext]_queryVars
  PROVE  JP!ResultInv'
<1> SUFFICES [JP!Next]_(JP!vars)
  BY JoinAssumptionHolds, JP!NextKeepsResult
<1>1. CASE UNCHANGED joinVars
  BY <1>1, JoinActions
<1>2. CASE LeftIsRead
  <2>1. Join!StartBuild(returned) /\ returned \in Seq(Table)
    BY <1>2 DEF LeftIsRead, ScanInv, TypeOK
  <2> QED BY <2>1, JoinActions DEF JP!Next
<1>3. CASE JoinStep
  BY <1>3, JoinActions DEF JoinStep, JP!Next
<1>4. ASSUME NEW t \in 1..JoinThreads, JoinTask(t) PROVE [JP!Next]_(JP!vars)
  BY <1>4, JoinActions DEF JoinTask, JP!Next, JP!Tasks
<1>5. CASE ChildIsRead
  BY <1>5, JoinActions DEF ChildIsRead, JP!Next
<1>6. \/ UNCHANGED joinVars \/ LeftIsRead \/ JoinStep \/ ChildIsRead
      \/ \E t \in 1..JoinThreads : JoinTask(t)
  BY DEF QueryNext, queryVars, ScanStep, SortStep, SortTask
<1> QED BY <1>1, <1>2, <1>3, <1>4, <1>5, <1>6

LEMMA JoinPromises ==
  ASSUME JP!ResultInv
  PROVE  Join!TypeOK /\ Join!JoinIsComplete
<1>1. JP!TypeOK /\ JP!JoinIsComplete
  BY JP!JoinTypes DEF JP!ResultInv, JP!Output
<1>2. Join!TypeOK
  BY <1>1 DEF Join!TypeOK, JP!TypeOK, Join!Tasks, JP!Tasks, Join!None, JP!None, Join!LeftIdx,
              JP!LeftIdx, Join!RightIdx, JP!RightIdx
<1>3. Join!JoinIsComplete
  BY <1>1 DEF Join!JoinIsComplete, JP!JoinIsComplete, Join!LeftIdx, JP!LeftIdx, Join!RightIdx,
              JP!RightIdx, Join!Matches, JP!Matches, Join!IsInjective, JP!IsInjective, Join!Range,
              JP!Range
<1> QED BY <1>2, <1>3

(* QueryInv holds in every state of the query. *)
THEOREM QueryInvariant == QuerySpec => []QueryInv
<1>1. QueryInit => QueryInv
  <2> SUFFICES ASSUME QueryInit PROVE QueryInv
    OBVIOUS
  <2>1. ScanInv /\ SortInv
    BY ScanInitHolds, SortInitHolds DEF QueryInit
  <2>2. JP!ResultInv
    BY JoinInitIsJoinInit, JP!ResultInit DEF QueryInit
  <2>3. Handover
    BY DEF QueryInit, Join!Init, Sort!Init, Handover
  <2> QED BY <2>1, <2>2, <2>3 DEF QueryInv
<1>2. QueryInv /\ [QueryNext]_queryVars => QueryInv'
  BY JoinPromises, QueryKeepsScan, QueryKeepsJoin, QueryKeepsSort, QueryKeepsHandover DEF QueryInv
<1> QED BY <1>1, <1>2, PTL DEF QuerySpec

(* The variables of the three operators keep their types. *)
THEOREM QueryTypes == QuerySpec => []TypesOK
<1>1. QueryInv => TypesOK
  BY JoinPromises, SortTypes DEF QueryInv, ScanInv, TypesOK
<1> QED BY <1>1, QueryInvariant, PTL

(* ScanPage unpins what it has fetched: when the tasks have returned no    *)
(* page is pinned, and never are more pages pinned than there are frames.  *)
THEOREM ScanReleasesPins == QuerySpec => []PinsAreReleased
<1>1. QueryInv => PinsAreReleased
  BY ScanInvImplies DEF QueryInv
<1> QED BY <1>1, QueryInvariant, PTL

(* The scan returns no tuple twice and leaves one out only if ScanPage     *)
(* could not fetch its page; with a frame for each task it leaves none.    *)
THEOREM ScanMissesOnlyUnfetched == QuerySpec => []OnlyUnfetchedMissing
<1>1. QueryInv => OnlyUnfetchedMissing
  BY ScanInvImplies DEF QueryInv
<1> QED BY <1>1, QueryInvariant, PTL

(* The join finds each pair with equal keys once, whatever the scan has    *)
(* returned to it.                                                         *)
THEOREM QueryJoinFindsAll == QuerySpec => []JoinIsComplete
<1>1. QueryInv => JoinIsComplete
  BY JoinPromises DEF QueryInv, JoinIsComplete
<1> QED BY <1>1, QueryInvariant, PTL

(* The k-way merge of parallel_sort.cpp returns the tuples in the order of *)
(* MakeComparator, however they were cut into partitions.                  *)
THEOREM SortMergesInOrder == QuerySpec => []SortInOrder
<1>1. QueryInv => SortInOrder
  BY QueryInvImplies DEF QueryInv
<1> QED BY <1>1, QueryInvariant, PTL

(* What the query has returned when the sort is exhausted is right: only   *)
(* pairs with equal keys, none twice, and all of them if the scan had a    *)
(* frame for each of its tasks.                                            *)
THEOREM QueryReturnsAnswer == QuerySpec => []QueryIsRight
<1>1. QueryInv => QueryIsRight
  BY QueryInvImplies DEF QueryInv
<1> QED BY <1>1, QueryInvariant, PTL
==============================================================================
