--------------------------- MODULE ParallelSeqScan ---------------------------
(***************************************************************************)
(* The parallel scan (executor/parallel_seq_scan.cpp): tasks on a thread   *)
(* pool claim the pages of a heap file with an atomic counter.             *)
(*                                                                         *)
(* Of the thread pool the scan uses that each task runs and that WaitAll   *)
(* returns when all have returned (ThreadPool).  Of the buffer pool it     *)
(* uses FetchPage and UnpinPage: a fetch fails if and only if every frame  *)
(* holds a pinned page and the page is not among them (BufferPool).        *)
(***************************************************************************)
EXTENDS Integers, Sequences, FiniteSets, Functions

CONSTANTS
  n_threads_,
  PoolSizes,   \* the numbers of frames the buffer pool may have
  page_ids,    \* GetPageIds: the pages of the table
  Rows         \* page id -> the tuples of the page, named by their RIDs, which are different

ASSUME ScanAssumption ==
  /\ n_threads_ \in Nat \ {0} /\ PoolSizes \subseteq Nat \ {0}
  /\ page_ids \in Seq(Nat) /\ IsInjective(page_ids)
  /\ Rows \in [Range(page_ids) -> Seq(Nat \X Nat)]
  /\ \A p \in Range(page_ids) : IsInjective(Rows[p]) /\ \A r \in Range(Rows[p]) : r[1] = p

(* std::min(n_threads_, page_ids.size()) tasks. *)
Tasks == 1..(IF n_threads_ < Len(page_ids) THEN n_threads_ ELSE Len(page_ids))

None == 0

VARIABLES
  pool_size_,     \* frames of the buffer pool
  call,           \* the owner: "closed", "scanning" or "open"
  next_page_idx,
  pc,             \* task -> its step
  idx,            \* task -> index of the page it has claimed, None if none
  pin,            \* task -> index of the page it has pinned, None if none
  local,          \* task -> tuples it has seen
  skipped,        \* history: indices of the pages that could not be fetched
  buffer_, cursor_,
  returned        \* history: what Next has returned since Init

taskVars == <<next_page_idx, pc, idx, pin, local, skipped>>
ownerVars == <<pool_size_, call, buffer_, cursor_, returned>>
vars == <<taskVars, ownerVars>>

Init ==
  /\ pool_size_ \in PoolSizes
  /\ next_page_idx = 1 /\ skipped = {}
  /\ pc = [t \in Tasks |-> "claim"] /\ idx = [t \in Tasks |-> None]
  /\ pin = [t \in Tasks |-> None] /\ local = [t \in Tasks |-> << >>]
  /\ call = "closed" /\ buffer_ = << >> /\ cursor_ = 0 /\ returned = << >>
-----------------------------------------------------------------------------
(* A task. *)

Goto(t, l) == pc' = [pc EXCEPT ![t] = l]

(* Mistake: load and store in place of fetch_add; a claim made in between  *)
(* is overwritten.                                                         *)
Claimed_NotAtomic == {next_page_idx, next_page_idx + 1}

Claimed == {next_page_idx + 1}

(* Mistake: the bound is off by one. *)
PagesLeft_OffByOne == next_page_idx <= Len(page_ids) + 1

PagesLeft == next_page_idx <= Len(page_ids)

Claim(t) ==
  /\ call = "scanning" /\ pc[t] = "claim"
  /\ PagesLeft
  /\ next_page_idx' \in Claimed
  /\ idx' = [idx EXCEPT ![t] = next_page_idx]
  /\ Goto(t, "fetch")
  /\ UNCHANGED <<pin, local, skipped, ownerVars>>

AfterLast == "done"

(* fetch_add goes past the end; by how much makes no difference. *)
NothingLeft(t) ==
  /\ call = "scanning" /\ pc[t] = "claim"
  /\ ~PagesLeft
  /\ Goto(t, AfterLast)
  /\ UNCHANGED <<next_page_idx, idx, pin, local, skipped, ownerVars>>

Pinned == {pin[t] : t \in Tasks} \ {None}

PoolIsFull(i) == i \notin Pinned /\ Cardinality(Pinned) >= pool_size_

FetchPage(t) ==
  /\ pc[t] = "fetch" /\ ~PoolIsFull(idx[t])
  /\ pin' = [pin EXCEPT ![t] = idx[t]]
  /\ Goto(t, "read")
  /\ UNCHANGED <<next_page_idx, idx, local, skipped, ownerVars>>

(* ScanPage returns and the task goes on with the next page. *)
FetchFails(t) ==
  /\ pc[t] = "fetch" /\ PoolIsFull(idx[t])
  /\ skipped' = skipped \cup {idx[t]}
  /\ idx' = [idx EXCEPT ![t] = None]
  /\ Goto(t, "claim")
  /\ UNCHANGED <<next_page_idx, pin, local, ownerVars>>

(* Mistake: the page stays pinned. *)
PinAfterRead_Kept(t) == pin[t]

PinAfterRead(t) == None

ReadPage(t) ==
  /\ pc[t] = "read"
  /\ local' = [local EXCEPT ![t] = @ \o Rows[page_ids[idx[t]]]]
  /\ pin' = [pin EXCEPT ![t] = PinAfterRead(t)] /\ idx' = [idx EXCEPT ![t] = None]
  /\ Goto(t, "claim")
  /\ UNCHANGED <<next_page_idx, skipped, ownerVars>>
-----------------------------------------------------------------------------
(* The owner. *)

(* The counter and the tasks of a new scan. *)
FreshTasks ==
  /\ next_page_idx' = 1 /\ skipped' = {}
  /\ pc' = [t \in Tasks |-> "claim"] /\ idx' = [t \in Tasks |-> None]
  /\ pin' = [t \in Tasks |-> None] /\ local' = [t \in Tasks |-> << >>]

StartScan ==
  /\ call \in {"closed", "open"}
  /\ call' = "scanning"
  /\ buffer_' = << >> /\ cursor_' = 0 /\ returned' = << >>
  /\ FreshTasks
  /\ UNCHANGED pool_size_

(* The results of the tasks one after the other: Merged[n] are those of    *)
(* the first n.                                                            *)
Merged[n \in 0..Cardinality(Tasks)] == IF n = 0 THEN << >> ELSE Merged[n - 1] \o local[n]

WaitAllAndMerge ==
  /\ call = "scanning" /\ \A t \in Tasks : pc[t] = "done"
  /\ buffer_' = Merged[Cardinality(Tasks)]
  /\ call' = "open"
  /\ UNCHANGED <<taskVars, pool_size_, cursor_, returned>>

Next_ ==
  /\ call = "open" /\ cursor_ < Len(buffer_)
  /\ cursor_' = cursor_ + 1
  /\ returned' = Append(returned, buffer_[cursor_ + 1])
  /\ UNCHANGED <<taskVars, pool_size_, call, buffer_>>

Close ==
  /\ call = "open"
  /\ call' = "closed" /\ buffer_' = << >> /\ returned' = << >>
  /\ FreshTasks
  /\ UNCHANGED <<pool_size_, cursor_>>
-----------------------------------------------------------------------------
TaskStep(t) ==
  Claim(t) \/ NothingLeft(t) \/ FetchPage(t) \/ FetchFails(t) \/ ReadPage(t)

Next ==
  \/ \E t \in Tasks : TaskStep(t)
  \/ StartScan \/ WaitAllAndMerge \/ Next_ \/ Close

Spec == Init /\ [][Next]_vars
-----------------------------------------------------------------------------
Index == 1..Len(page_ids)
RowsOf(S) == UNION {Range(Rows[page_ids[i]]) : i \in S}
Table == RowsOf(Index)

TypeOK ==
  /\ call \in {"closed", "scanning", "open"}
  /\ next_page_idx \in 1..(Len(page_ids) + 1)
  /\ pc \in [Tasks -> {"claim", "fetch", "read", "done"}]
  /\ idx \in [Tasks -> Index \cup {None}] /\ pin \in [Tasks -> Index \cup {None}]
  /\ local \in [Tasks -> Seq(Table)] /\ buffer_ \in Seq(Table)
  /\ cursor_ \in Nat /\ returned \in Seq(Table)
  /\ skipped \subseteq Index /\ pool_size_ \in PoolSizes

(* When the tasks have returned no page of the table is pinned any more,   *)
(* and while they run no more pages are pinned than the pool has frames.   *)
PinsAreReleased ==
  /\ Cardinality(Pinned) <= pool_size_
  /\ call = "open" => Pinned = {}

(* Next has returned false. *)
Exhausted == call = "open" /\ cursor_ = Len(buffer_)

(* A tuple is missing from the result only if ScanPage could not fetch its *)
(* page, which does not happen with a frame for every task; no tuple is    *)
(* there twice.                                                            *)
OnlyUnfetchedMissing ==
  /\ Exhausted => IsInjective(returned) /\ Range(returned) = RowsOf(Index \ skipped)
  /\ Cardinality(Tasks) <= pool_size_ => skipped = {}

(* "EXPECT_EQ(serial_ids, par_ids)" (test/concurrency_test.cpp:157): the   *)
(* calls of Next return every tuple of the table, each of them once.       *)
SameAsSerial == Exhausted => IsInjective(returned) /\ Range(returned) = Table

(* Init returns.                                                           *)
ScanReturns == call = "scanning" ~> call = "open"
==============================================================================
