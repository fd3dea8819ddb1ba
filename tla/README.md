# A verification of MyDB

MyDB is a small relational database in C++: a page file under a buffer pool,
heap files and a B+ tree on top of it, a SQL front end, a Volcano executor, and
multi-threaded versions of scan, hash join and sort that share a thread pool
and a lock-free hash table.  This directory holds TLA+ specifications of its
parts, TLC configurations that model-check them on small instances, and proofs
that TLAPS checks for every instance.  `PROJECT.json` is the index: which lines
each definition models, what each run checks, the hazards and the findings.

    tlc -config MCBufferPool.cfg MCBufferPool      # a run
    tlapm BufferPoolProofs.tla                     # a proof

## 1. The system

| part | state | operations | modelled in |
| --- | --- | --- | --- |
| `DiskManager` | the page file, `num_pages_`, the state of the stream | open, close, `ReadPage`, `WritePage`, `AllocatePage` | `DiskManager` |
| `LRUReplacer` | `lru_list_`, `evictable_` | `Evict`, `RecordAccess`, `SetEvictable`, `Remove` | `LRUReplacer` |
| `BufferPoolManager` | `frames_`, `page_table_`, `free_list_`, the replacer | `NewPage`, `FetchPage`, `UnpinPage`, `FlushPage`, `FlushAllPages`, `DeletePage` | `BufferPool` |
| `HeapFile` | a chain of pages, `first_page_id_`, `last_page_id_` | create, reopen, `InsertTuple`, `Scan`, `GetPageIds` | `HeapFile` |
| `BPlusTree` | a tree of pages, `root_page_id_` | `Insert` with splits, `Search`, `RangeScan` | `BPlusTree` |
| `ThreadPool` | `tasks_`, `in_flight_`, `stop_`, workers, two condition variables | `Submit`, `WaitAll`, worker loop, destructor | `ThreadPool` |
| `LockFreeHashTable` | buckets of linked nodes | `Insert` (CAS loop), `Lookup`, `Clear` | `LockFreeHashTable` |
| `ParallelSeqScan` | `next_page_idx`, a buffer per thread, `buffer_`, `cursor_` | `Init`, `Next`, `Close`; `HeapFile::ScanPage` | `ParallelSeqScan` |
| `ParallelHashJoin` | shared index, hash table, a buffer per thread | `Init` (build, probe, merge), `Next`, `Close` | `ParallelHashJoin`, `ParallelQuery` |
| `ParallelSort` | `partitions_`, `heap_` | `Init` (cut, sort, heap), `Next`, `Close` | `ParallelSort`, `ParallelQuery` |
| `Parser` | tokens, `pos_` | `Parse` | `Ast`, `Parser` |
| `Planner` | — | `Plan`, `Explain` | `Planner` |
| serial operators | what an iterator still has to return | `SeqScan`, `Filter`, `Projection`, `HashJoin`, `HashAggregate`, `Sort` | `Executor` |
| `Catalog`, `Database`, the shell | `tables_` | `Execute`: CREATE TABLE, INSERT, SELECT, EXPLAIN | `Database` |

How they interact.  Everything above the pool sees pages only through
`NewPage`/`FetchPage`/`UnpinPage`; a `Page*` stays in use after the pool's latch
is released, and the pin count is all that keeps its frame from being reused.
The pool sees the file only through the `DiskManager`, whose stream remembers
errors from one call to the next.  A parallel operator hands its work to a
`ThreadPool` of its own, shares an atomic counter from which the tasks claim
their work, and merges the tasks' private buffers after `WaitAll`.  Operators
are stacked: `Init` of a parent calls `Init`, `Next` until it returns false, and
`Close` of its child.  The shell hands one statement at a time to the
`Database`, which parses it, looks its tables up in the catalog, plans and
executes it with the serial operators; nothing in `database.cpp` uses the
parallel ones or the B+ tree, which only tests and benchmarks call.

## 2. Modules

**`DiskManager`** — operators on a record `[file, size, num_pages_, db_io_]`: the
contents of the pages, how many of them the file is long, the counter, and
whether the stream is good, failed or bad.  A page is one value.  `Open` keeps
the width of the `int` that holds the file's length (`IntRange` stands for
2^32).  `PutPage` is `seekp`, `write` and `flush`; its last argument says whether
the device accepts the page, rejects it in `write`, or loses it in `flush`.
`WritePage` tests `bad()` between the two (`WriteThrows`): a rejected page makes it
throw, a lost one makes the next call throw.  `AllocatePage` looks at no error;
`ReadPage` returns zeroes on a stream that is not good and clears its state.

**`LRUReplacer`** — operators on a record `[lru_list_, evictable_]`, newest frame
first.  `lru_map_` only holds positions in the list and is not a separate
variable.

**`BufferPool`** — the state machine.  A public method holds `latch_` throughout,
so a call is one step; `GetFreeFrame` is a group of operators shared by
`NewPage` and `FetchMiss`, and its exception is the action
`GetFreeFrameThrows`.  What interleaves are calls of different clients and the
writes they make through their `Page*` (`WriteData`).  A client pins a page at
most once at a time, unpins what it pinned, and says `is_dirty` if it wrote:
this is how `HeapFile` and `BPlusTree` use the pool.  `FlushAllPages(S)` has
written the set `S` when it returns or when a write throws, whatever order the
hash table has.  `Restart` is the destructor followed by a new pool on the same
file; `Crash` skips the destructor.  `Calls` are the calls of the pool that give up
no contents.  `lost` is the page, if any, that the last step lost in `flush`.

**`PageStore`** — the promise: an array of pages, each with a current and a
durable version, and the pages each client holds.  A `Write` is of a client, to a
page it holds; the steps of the pool itself (`Serve`) change no page that exists.
`KeepSpec` is the part that gives nothing up, without `Delete` and `Crash`.
`BufferPool` implements it with the frame (or the file, if the page is not
resident) as the current version, the file as the durable one, and the pages a
client has a `Page*` to as those it holds.

**`ThreadPool`** — worker loop, `Submit`, `WaitAll` and destructor.  A critical
section of `mutex_` is one step; the task itself and the two notifications, which
the code sends after releasing the mutex, are steps of their own.  A thread in
`wait` is asleep until a notification, or a spurious wake-up, makes it test its
predicate again.

**`LockFreeHashTable`** — one step per access to an atomic.  A node is an address
with `key` and `next`; `Clear` gives addresses back and `Insert` may get them
again.  `compare_exchange_weak` may fail for no reason.  As its callers do,
`Clear` runs only when no other call is in progress; inserts and lookups overlap
freely, which is more than the join asks for.

**`HeapFile`** — both constructors, `InsertTuple`, `Scan` and `GetPageIds`, on an
instance of `PageStore` whose values are heap pages (`next_page_id` and the
tuples).  One step per page visited; at each, a fetch or an allocation may find the
pool full.  Then `InsertTuple` returns false, `Scan` ends with the tuples it has, as
it does when its callback says so (`ScanStops`), and `GetPageIds` ends with the page
it could not fetch as its last (`IdsStop`).
`OtherTable` allocates pages in between, so that a chain is not `0, 1, 2`.
`Reopen` is an orderly restart; `Crash`, in `CrashSpec` only, leaves the durable
versions.

**`BPlusTree`** — `Insert` walks down to a leaf and back up again, splitting what
has become too full; a step is what happens between two pool calls that can
fail.  A call fails, and returns `nullptr`, because every frame is pinned, by the
tree or by others; where the code tests the result it throws, where it does not
(`InsertInInternal`, `RangeScan`) the process is gone.  `path` is the recursion's
stack, innermost call first.  The pins an exception leaves behind stay in
`leaked`, and `dropped` records that the root was
split and no page was left for the new root.  `Search` and `RangeScan` go
down the tree page by page, `RangeScan` then along the chain of leaves; `answer`
is what the last call was asked for and the entries it has found, `complete` if
it was able to fetch all its pages.

**`ParallelSeqScan`** — the tasks of `Init`, each between its claim, the fetch,
the read and the unpin of a page; then the merge, `Next` and `Close`.  Of the
pool it keeps the pinned pages, of the thread pool that `WaitAll` returns when
the tasks have finished, which `ThreadPoolProofs` establishes.

**`ParallelHashJoin`** — the two phases of `Init`, with tasks that claim a tuple
and insert it or look it up; the merge, `Next` and `Close`.  The hash table is
for each key the tuples inserted: that is what `ChainsAreLists` and
`LookupFindsAll` say of `LockFreeHashTable`.

**`ParallelSort`** — partitions of `chunk` tuples, the tasks that sort them, and
the merge.  `std::sort` and the heap functions are modelled by what they
promise: some sorted permutation, some least entry.  A partition that would
start behind the end makes `assign` throw inside a task, which ends the process
(`"terminated"`).

**`ParallelQuery`** — the three on top of each other, as `Init` of each drains its
child: the sort of the join of the scan with a serial scan.  `ParallelSeqScan` is
extended, the other two are instances.

**`Ast`, `Parser`** — statements as records, and one operator per parsing
function: from the tokens and a position to what it has parsed, or to the empty
set if it throws.

**`Executor`** — values, schemas, expressions and predicates, and for each serial
operator the sequence of tuples it returns, or none if an exception comes out.
Integers keep a width of `IntBits`.  `Sort` has every order `std::sort` may
leave; the others have one result.

**`Planner`** — `Plan` as a function from a statement to a tree of operators with
their schemas, and `Explain`, which the code writes independently of `Plan`; a line
of it is a depth and the name of an operator or a table.

**`Database`** — the loop of the shell: a statement is executed, its result or its
error is printed, and so on; CREATE TABLE and INSERT may find the pool full;
leaving the shell forgets the catalog, which is kept in memory only.  A table's
heap file is the sequence of its rows, as `HeapFile` shows.  Behind the text of a
statement there may be further tokens (`Tails`), which `Parse` leaves unread.  The meaning of a
SELECT is defined there again from the statement alone (`Chosen`, `Lists`,
`AggregateMeans`), without operators or plans, to compare with.  `SqlText` writes a
statement down as tokens with as few parentheses as precedence allows.

**`QueueLemmas`, `BufferPoolLemmas`, `BufferPoolProofs`, `ThreadPoolProofs`,
`LockFreeHashTableProofs`, `HeapFileProofs`, `ParallelHashJoinProofs`,
`ParallelQueryProofs`** — the proofs.

Operators whose names end in `_` and a word (`WritesBack_Never`) are mistakes one
could make in that place of the code; each property is known to fail with one
of them (`mutants` in `PROJECT.json`).

## 3. Runs

| run | question | bounds |
| --- | --- | --- |
| `pool` | do the tables stay consistent, is a page in use ever evicted, is unwritten data ever unmarked, after a failed write too? | 2 clients, 2 frames, 3 pages, 2 values, one failed write, crashes |
| `page_store` | does anything but a write of a client who holds the page change its contents: an eviction, a fetch, a flush, a restart? | the same, no faults, deletions or crashes |
| `thread_pool` | is a task lost or run twice, a wake-up lost, do `WaitAll` and the destructor return too early, or never? | 3 workers, 2 clients, 3 tasks |
| `hash_table` | is an insert lost to a race, does a lookup see its bucket, is a node leaked, freed twice or changed once published, does every call return? | 2 threads, 3 nodes, 3 keys, 3 buckets |
| `heap_file` | does the chain hold what was inserted, where it was inserted, do scans see it, or a prefix of it if they stop early, does every call return? | 2 tuples, 3 pages of 2 tuples |
| `open_returns` | does opening a file after a crash return? (violated) | 1 tuple, 3 pages of 1 |
| `bplus_tree` | do separators bound their subtrees at every step, do `Search` and `RangeScan` find the last insert of every key, in order and none twice, when does a page overflow? | 6 inserts of 6 keys, one with two rids, pages of 2 and 3 entries, 2 frames, one failing pool call |
| `internal_page_fits` | does an internal page ever hold more than a page has room for? (violated) | the default sizes, pages of 2 and 3 entries |
| `parallel_query` | is every page and tuple worked on once, does a probe see the whole table, is the result the sorted join, are pins released, does every `Init` return? | 3 threads in each operator, 4 pages with 4 tuples, 3 right tuples, 2 or 3 frames |
| `same_as_serial` | is the result of the scan the table? (violated) | the same |
| `sort_partitions` | does the sort have a partition for every thread? (violated) | the same, 4 threads for 5 tuples |
| `database` | is a statement parsed back, is a SELECT whose names resolve answered with what it means, does EXPLAIN draw the plan? | 2 tables of up to 2 rows, the statements of `MCDatabase`, 4-bit integers |

Three pages on two frames force evictions with both frames pinned, one pinned
or none; two clients are what it takes for one to unpin clean what the other
made dirty, and for one to evict while the other holds a pointer.  Two values
tell the current from an older version.  One failed write is enough for
every error path, since the stream stays bad until the next read.  `PAGE_SIZE`
is 2 so that bytes and pages differ.  Clients are interchangeable, so their
permutations are a symmetry.

A worker asleep, one awake and one running a task is what a lost wake-up needs;
a task submitted after another has finished reuses its worker.  Two keys of one
bucket and one of another make exchanges collide and `Clear` pass from bucket to bucket;
three nodes are a list with a head, a middle and an end.  Two tuples to a page
and three pages give a full page, a link and another table's page between.  Four
pages for three tasks make one task claim twice, and two frames for three tasks
make a fetch fail; the equal keys among the tuples make a bucket of two and a
tie in the sort.

Six inserts into pages of two and three entries split leaves, an internal page
and the root twice, in every order of the keys.  Two frames are what an
insert needs at least; a page leaked on the way leaves one too few.  One failing
pool call reaches each error path at each place, and its leaked pin the
failures after it.  The ranges scanned are the whole tree and a part of it that
begins and ends inside; `MinKey` and `MaxKey` lie beyond the keys.

The statements of `MCDatabase` have every kind of expression, one and two joins,
GROUP BY with one and two columns, each aggregate, ORDER BY with items that are
selected and that are not, `*`, unknown tables and columns and wrong types.  The
strings include the empty one, the separator of `HashAggregate::MakeKey` and
one too long for its column; 7 + 7 overflows four bits.  Two rows to a table are
enough for ties, groups of two and joins with several matches.

Fairness.  Every thread that can take a step takes one: weak fairness of each
worker, of each client inside a call, and of the steps of a call in progress.
The thread that runs a parallel query goes on with it.  Nobody has to submit,
insert or open anything.  A spurious wake-up is never required.  `compare_exchange_weak` may fail spuriously but not for ever when
the head again and again has the expected value: strong fairness of the
successful exchange, which the C++ library asks of an implementation in a loop.
No fairness is assumed of crashes; `OpenReturns` asks only that they stop.

## 4. What is found

* After a crash a heap file may be impossible to open: a page allocated but not
  written back is all zeroes in the file, its `next_page_id` is then page 0, and
  the constructor walks in a circle (`open_returns`).
* With fewer frames than threads `ParallelSeqScan` silently leaves out pages:
  `ScanPage` returns when the pool is full, and the task claims the next page
  (`same_as_serial`); the test compares it with the serial scan.
* `ParallelSort` rounds the size of its partitions up, so with 5 tuples and 4
  threads the last one would start behind the end; the exception is thrown in
  a worker and ends the process (`sort_partitions`).
* An internal page of the B+ tree with the default maximum gets one entry more
  than a page has room for before it is split (`internal_page_fits`); the
  `static_assert` next to it only looks at the declared array.

The properties that hold say under which conditions they do, and each condition
is one the code needs:

* `ReplacerOffersUnpinned` promises that every unpinned page can be evicted only
  while no write has failed.  `GetFreeFrame` lets the replacer forget the
  victim before `WritePage` can throw; the frame is then in nobody's list until
  its page is fetched again, and as the stream stays bad each further eviction
  strands another one.  No other property notices a stranded frame.
* `NoLostWrite` and the run `page_store` are about a device that has failed no
  write.  After one that has, `ReadPage` takes the old error for a short read and
  returns zeroes for a page whose contents are in the file.
* `DirtyUntilWritten` is what is left then, and holds on any device: a page that
  is dirty stays so until it is written, through exceptions in evictions and half
  way through `FlushAllPages`.  Its one exception is the page that `flush` loses:
  `disk_manager.cpp:47` comes after the test of `bad()`, so the pool marks that page
  clean, and the exception is thrown at the next write, of some other page.
* It has no crashes either: the repository's README lists write-ahead logging,
  but nothing is logged, and a crash loses what was not evicted or flushed.
* `WalksSeeAll` says of a `Scan` or `GetPageIds` that met a full pool only that it
  has a prefix of the table; the caller is not told that it is one.
* `InsertedIsFound` and `ScanIsSearches` hold until the root has been split and no
  frame is left for the new root (`dropped`); what is to the right of the split is
  then out of reach.  `InsertedIsFound` is about complete calls: to the caller of
  `Search` a page that cannot be fetched looks like a key that is not there.
* `OverfullOnlyAfterLeak`: a leaf split that finds no page throws with the leaf
  full and pinned, and the next insert into it goes past its maximum.
* `SelectIsRight` counts an empty string as equal to nothing, since `HashJoin`
  passes over a right tuple whose key is empty.  `GroupsAreRight` leaves out
  groups whose strings contain the separator `|`, which `MakeKey` may confuse, and
  takes sums modulo the width of an `int`, as the cast in `HashAggregate` does.
  These are what the code does, not what SQL asks for.
* `SelectIsRight` asks for an answer when `ON` is written `left = right`.  The other
  way round fails at the first tuple, whatever the comment at `planner.cpp:70` says;
  no property rejects that.
* `ExplainDrawsPlan` departs from the plan in three places.  A plan that sorts by
  columns it does not select has the sort below the projection, and `Explain`
  prints it above; several joins are one line `HashJoin` with all the tables below
  it; GROUP BY under `SELECT *` is printed and `Plan` ignores it.

## 5. Proofs

All theorems hold for every value of the constants.  The assumptions are the
named `ASSUME`s:

* sizes are natural numbers, sets of clients and workers are finite, and there is
  a worker (a thread, for the parallel operators);
* the file stays below half of `IntRange` bytes, without which `Open` does not
  find its pages;
* a row stands for the tuple at one place of its table, so the rows of the scanned
  table are pairs of a page and a slot, each once, and so are the rows of the
  right table different from each other (two rows may have equal keys and equal sort
  values);
* the join keys of the rows are keys, and sort values are integers, of which the
  comparator uses only the order.

`ParallelHashJoinProofs` has `JoinAssumption`, the part of this that concerns the
join, as the hypothesis of its theorems; `ParallelQueryProofs` discharges it for
the join of the query (`JoinAssumptionHolds`).

`BufferPoolLemmas` proves `Spec => []IInv` for the buffer pool, where `IInv` is the
conjunction of the invariants the run checks, type correctness and `Bookkeeping`
(pinned frames are listed, resident pages are allocated).  None of them is
inductive alone.  That a victim is not in use (`PinsAreHolders`) needs that the
replacer offers only unpinned frames; that needs `SetEvictable` to meet a listed
frame (`Bookkeeping`); that a frame taken from the free list has no page needs
`FramesHaveOneOwner`, which needs the table to match the frames.  The proof has
one lemma per action.  `NewPage` and `FetchMiss` share `FreeFrameProperties`
(what `GetFreeFrame` leaves) and `InstallProperties`; the two flushes share
`FlushedPreserves`; the constructors share `FreshSatisfiesInvariant`.  It begins
with lemmas on the list operations of the replacer and on the actions that get or
write a page.

`BufferPoolProofs` draws the conclusions.  `PoolDirtyUntilWritten` is about any
device and goes action by action.  The other two are for `MaxFaults = 0`.
`KeepSpec => KeepsPageStore`: every step is one of `PageStore!KeepNext` or changes
none of its variables, and moreover the contents of the pages change only in a
`WriteData` of the pool that is the `Write` of `PageStore` by the same client of the
same value to the same page, or by a new page.  Without the second part a pool that
forgot to write a page back could pass for one whose client had written the old
contents again.  For `Restart` this is where `NoLostWrite` is needed: with no client
left, a page that is not dirty equals its copy in the file.
`Spec => ImplementsPageStore` adds `DeletePage` and `Crash`, each of which is the step
of `PageStore` of its name, so that no other call may pass for one of them.

`ThreadPoolProofs` proves `Spec => []IInv` for any finite number of workers and
clients and any set of tasks.  `IInv` joins the run's invariants, type
correctness, `InFlightCounts` (`in_flight_` is the number of tasks queued or
running) and `Calls`:
`WaitAll` asks for submitted tasks, and no call is in progress once the
destructor has begun.  `NoLostWakeup` is stated by counting: the tasks queued
are covered by awake workers and notifications under way, or nobody sleeps.
That `WaitAll` returns late enough follows from `in_flight_ = 0`, which by
`InFlightCounts` leaves no task queued or running, hence by `TaskInOnePlace`
all of them done.

`LockFreeHashTableProofs` proves, for any number of threads, nodes, keys and
buckets, that each bucket is a list of exactly the nodes whose exchange
succeeded (`ChainsAreLists`), that no node is leaked, shared or freed twice
(`NodesHaveOneOwner`), that a published node never changes
(`PublishedNodesStay`), and that a `Lookup` returns each match of the list it
started on once, newest first (`LookupFindsAll`).  `IInv` adds to `ChainsAreLists` that a thread that inserts
owns its node, whose `next` is the head it will compare with (`InsertersOwn`: this
is why a successful exchange extends the list by one and loses nothing), that
`Clear` runs alone and what it deletes is a list apart from the table
(`ClearIsAlone`), and that every allocated node is in the table or in a thread's
hands (`Accounted`).  An exchange that fails leaves the invariant alone, for
whatever reason it fails.  For `LookupFindsAll` it is strengthened by `Walking`: a
`Lookup` is at some node of the list it began with and has the matches before it,
and all nodes of that list are still in the table, so that inserts, which change
only what is in front of them, cannot disturb the walk.

`ParallelHashJoinProofs` proves that no tuple is claimed twice
(`ClaimsAreExclusive`) and that the table which is probed holds every left tuple
once, under its key (`TableIsLeftInput`), whatever the number of threads and the
inputs.  The invariant says what is in the table while the build is still
running: the tuples below `next_idx` that no task is working on (`Building`); and
a task has finished only when `next_idx` is past the end, so when all have, that
is all of them.

The result (`JoinIsComplete`) follows the same way.  `ResultInv` adds
`Finding`: the pairs the probe tasks have found are those of the right tuples
below `next_idx` that no task is working on, no pair twice, neither within a task
nor between two; and `Output`, the merged buffer.

`HeapFileProofs` proves the four invariants of the run `heap_file`, for any number
of pages, capacity of a page and set of tuples.  `InsertKnows` says what
`InsertTuple` relies on between its steps (the last page is full when it allocates;
the new page is empty and not in the chain when it is linked).  `InsertedInOrder`
gives the place of every tuple: the `j`-th of the `i`-th page is number
`(i - 1) * MaxTuplesPerPage + j` of all inserts.  From it follow both that a RID
keeps naming its tuple and that a walk which has come to the `i`-th page has seen
exactly the inserts before that (`WalkIsAt`), wherever it stops.  That the chain has no repetition is
what makes a page of it have one successor.

`ParallelQueryProofs` proves the safety properties of the run `parallel_query`: for
any number of threads of each operator, any pool size, tables, keys and sort
order.  `QueryInv` has four parts, none of which could be proved without the one
before it.

* `ScanInv`: the claims are below `next_page_idx` and different; the tuples in
  the tasks' hands are those of the pages they are through with except the
  `skipped` ones (`RowsSeen`); a pin belongs to a task that is reading, so with as
  many frames as tasks no fetch fails (`Frames`).
* `ResultInv` of the join, from `ParallelHashJoinProofs` by an instance whose left
  inputs are all sequences of rows of the table.
* `SortInv`: a sorted partition holds exactly its slice of the input
  (`Partitions`; the slices cover the input because `chunk` rounds up); during the
  merge each partition has at most one entry in the heap, returned and pending
  tuples together are the input, and nothing pending is less than the last one
  returned (`Merging`).  This rests on `LessIsOrder`: not being less is
  transitive under the comparator, for any number of columns in any directions.
* `Handover`: the left input of the join is rows of the table, all of them if the
  scan had a frame for each task, and the input of the sort is pairs of the
  answer, or all of it.

With this `QueryIsRight` is short: the merge returned what the sort was given, and
that is the answer of the query.

Only model-checked.  Liveness (`EveryTaskRuns`, `WaitAllReturns`,
`DestructorReturns`, `CallsReturn`, `InitReturns`, `OpenReturns`) and `ENABLED` are
outside what the prover does.  So is induction over data, which what the
recursive definitions of the parser, the planner and the executor compute would
need, and with them the run `database` (`TypeOK`, `ParsesBack`, `SelectIsRight`,
`GroupsAreRight`, `ExplainDrawsPlan`).  Of the B+ tree nothing is proved:
`SubtreesInRange`, `InsertedIsFound`, `ScanIsSearches` and `OverfullOnlyAfterLeak` are
checked on the instance of the run only.  The other invariants and action
properties of the passing runs are proved.

## 6. Not modelled

* The lexer: characters to tokens, with no state that outlives a call.
  Statements are given as tokens.
* In `main.cpp`, reading lines and the layout of the output; the benchmarks.
* `storage/LRUReplacer.cpp`, `storage/LRUReplacer.h` and `common/types 2.h`: older
  copies the build does not compile.
* The write-ahead log and the optimizer that the repository's README names: there
  is no code for them.
* Above the buffer pool, a device that fails a write: `HeapFile`, `BPlusTree`, the
  parallel operators and `Database` assume one that takes them all.  What a failed
  write does is examined in the run `pool` only.
* In `ParallelSeqScan`, a page list that `GetPageIds` cut short because the pool was
  full at that moment.
* Bytes: offsets in pages and tuples, strings with a zero byte.  A page, a tuple
  and a B+ tree entry are values.
* Some ends of the process, after which nothing is left to check: a task that throws (other than the
  sort's), `HeapFile` opened with a full pool, a tuple larger than a page, a pool,
  scan, join or sort of no threads, a hash table of no buckets.
* Of the serial operators, iterators that are abandoned or initialised twice;
  `SUM(*)` and the like, which reach a null argument; a string literal in a select
  list; a join of an integer with a text column, which `HashJoin` compares as
  texts.  Of `ParallelHashJoin`, keys that are strings: `AsInt` makes all of them 0.
* `BPlusTree` used by two threads, or opened again: it has no latches, and nothing
  stores its root.
