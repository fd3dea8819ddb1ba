---------------------------- MODULE ParallelSort -----------------------------
(***************************************************************************)
(* The parallel sort (executor/parallel_sort.cpp): Init cuts the tuples of *)
(* the child into one partition per task, each task sorts its partition,   *)
(* and Next merges the partitions with a heap.                             *)
(*                                                                         *)
(* A task writes to its own partition only, so it is one step.  std::sort  *)
(* and the heap leave the order of tuples that compare equal open: any     *)
(* order may come out.                                                     *)
(***************************************************************************)
EXTENDS Integers, Sequences, Functions

CONSTANTS
  Threads,     \* n_threads_
  Inputs,      \* what the child may return: sequences of distinct tuples
  Ascending,   \* order_by_: for each item, whether it is ascending
  Value(_, _)  \* Value(t, i), the value of the i-th item for tuple t

VARIABLES
  stage,       \* "closed", "sorting", "merging"; "terminated": the process is gone
  all,         \* the tuples of the child
  unsorted,    \* the tasks that have not run yet
  partitions_,
  heap_,       \* <<partition, index>> of the entries of the heap
  merged       \* history: what Next has returned since Init

vars == <<stage, all, unsorted, partitions_, heap_, merged>>

Init ==
  /\ stage = "closed" /\ all = << >> /\ unsorted = {}
  /\ partitions_ = << >> /\ heap_ = {} /\ merged = << >>

Before(a, b, i) == IF Ascending[i] THEN Value(a, i) < Value(b, i) ELSE Value(a, i) > Value(b, i)

(* MakeComparator: the first item in which the tuples differ decides. *)
Less(a, b) ==
  \E i \in DOMAIN Ascending :
    Before(a, b, i) /\ \A j \in 1..(i - 1) : Value(a, j) = Value(b, j)

Sorted(s) == \A i, j \in DOMAIN s : i < j => ~Less(s[j], s[i])

n == IF Threads < Len(all) THEN Threads ELSE Len(all)

(* Mistake: the size of a partition is rounded down. *)
chunk_Down == Len(all) \div n

chunk == (Len(all) + n - 1) \div n

(* Init up to the submission of the tasks. *)
Load(tuples) ==
  /\ stage \in {"closed", "merging"}
  /\ all' = tuples /\ heap_' = {} /\ merged' = << >>
  /\ partitions_' = [i \in 1..n' |-> << >>] /\ unsorted' = 1..n'
  /\ stage' = IF tuples = << >> THEN "merging" ELSE IF n' = 0 THEN "terminated" ELSE "sorting"

(* Task i, where partition i + 1 of the code is partition i here.  When    *)
(* start is beyond the end, assign gets a range of negative length, throws *)
(* std::length_error, and the exception leaves the worker's thread.        *)
SortPartition(i) ==
  /\ stage = "sorting" /\ i \in unsorted
  /\ unsorted' = unsorted \ {i}
  /\ LET start == (i - 1) * chunk
         end == IF start + chunk < Len(all) THEN start + chunk ELSE Len(all)
         tuples == Range(SubSeq(all, start + 1, end))
     IN IF start > end
        THEN stage' = "terminated" /\ UNCHANGED partitions_
        ELSE /\ \E p \in Bijection(1..(end - start), tuples) :
                  Sorted(p) /\ partitions_' = [partitions_ EXCEPT ![i] = p]
             /\ UNCHANGED stage
  /\ UNCHANGED <<all, heap_, merged>>

BuildHeap ==
  /\ stage = "sorting" /\ unsorted = {}
  /\ stage' = "merging"
  /\ heap_' = {<<i, 1>> : i \in {i \in DOMAIN partitions_ : partitions_[i] # << >>}}
  /\ UNCHANGED <<all, unsorted, partitions_, merged>>

Tuple(e) == partitions_[e[1]][e[2]]

(* Mistake: no push_heap, so that the heap loses its order. *)
IsTop_Any(e) == e \in heap_

IsTop(e) == e \in heap_ /\ \A f \in heap_ : ~Less(Tuple(f), Tuple(e))

Next_ ==
  /\ stage = "merging"
  /\ \E top \in heap_ :
       /\ IsTop(top)
       /\ merged' = Append(merged, Tuple(top))
       /\ heap_' = (heap_ \ {top}) \cup
                    {<<top[1], j>> : j \in {top[2] + 1} \cap DOMAIN partitions_[top[1]]}
  /\ UNCHANGED <<stage, all, unsorted, partitions_>>

Close ==
  /\ stage = "merging"
  /\ stage' = "closed"
  /\ partitions_' = << >> /\ heap_' = {} /\ all' = << >> /\ merged' = << >>
  /\ UNCHANGED unsorted

Next ==
  \/ \E tuples \in Inputs : Load(tuples)
  \/ \E i \in 1..Threads : SortPartition(i)
  \/ BuildHeap \/ Next_ \/ Close

Spec == Init /\ [][Next]_vars
-----------------------------------------------------------------------------
TypeOK ==
  /\ stage \in {"closed", "sorting", "merging", "terminated"}
  /\ unsorted \subseteq 1..Threads
  /\ \A i \in DOMAIN partitions_ : Range(partitions_[i]) \subseteq Range(all)
  /\ heap_ \subseteq {<<i, j>> : i \in DOMAIN partitions_, j \in DOMAIN all}

(* What Next has returned so far is in order, and nothing that is still to *)
(* come belongs before it: the heap's least entry is the least of all that *)
(* is left in any partition.                                               *)
MergeInOrder ==
  /\ Sorted(merged)
  /\ stage = "merging" /\ merged # << >> =>
       \A e \in heap_ : \A j \in e[2]..Len(partitions_[e[1]]) :
         ~Less(partitions_[e[1]][j], merged[Len(merged)])

(* "each thread sorts a partition using std::sort (introsort), then a      *)
(* k-way merge via a min-heap combines the sorted runs into a single       *)
(* output stream" (executor/parallel_sort.h:7): whatever the number of     *)
(* tuples, there is a partition for each thread to sort.                   *)
EveryThreadHasAPartition == stage # "terminated"
==============================================================================
