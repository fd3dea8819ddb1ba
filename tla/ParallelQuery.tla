---------------------------- MODULE ParallelQuery ----------------------------
(***************************************************************************)
(* The parallel operators on top of each other: a ParallelSort of a        *)
(* ParallelHashJoin whose left child is a ParallelSeqScan.                 *)
(*                                                                         *)
(* The operators meet where Init of a parent calls Init, Next until it     *)
(* returns false, and Close of its child (parallel_hash_join.cpp:43,       *)
(* parallel_sort.cpp:36).  The right child of the join is a SeqScan, which *)
(* runs on the calling thread.  While the join is closed the scan is also  *)
(* used by itself.                                                         *)
(***************************************************************************)
EXTENDS ParallelSeqScan

CONSTANTS
  JoinThreads, SortThreads,  \* the n_threads_ of the join and of the sort
  RightRows,                 \* the tuples of the right child, which are different
  LeftKey(_), RightKey(_), JoinKeys,
  Ascending, SortValue(_, _)

ASSUME QueryAssumption ==
  /\ JoinThreads \in Nat \ {0} /\ SortThreads \in Nat \ {0}
  /\ \A r \in Table : LeftKey(r) \in JoinKeys
  /\ RightRows \in Seq(Range(RightRows)) /\ IsInjective(RightRows)
  /\ \A r \in Range(RightRows) : RightKey(r) \in JoinKeys
  /\ Ascending \in Seq(BOOLEAN)
  /\ \A t \in Table \X Range(RightRows) : \A i \in DOMAIN Ascending : SortValue(t, i) \in Int

VARIABLES
  phase, left_tuples, right_tuples, next_idx, step, claimed, hash_table_, found,
  output_buffer_, position,
  stage, all, unsorted, partitions_, heap_, merged

joinVars == <<phase, left_tuples, right_tuples, next_idx, step, claimed, hash_table_, found,
              output_buffer_, position>>
sortVars == <<stage, all, unsorted, partitions_, heap_, merged>>
queryVars == <<vars, joinVars, sortVars>>

Join == INSTANCE ParallelHashJoin WITH
  Threads <- JoinThreads, LeftInputs <- {}, RightInputs <- {RightRows},
  left_key_ <- LeftKey, right_key_ <- RightKey, Key <- JoinKeys

Sort == INSTANCE ParallelSort WITH
  Threads <- SortThreads, Inputs <- {}, Value <- SortValue

QueryInit == Init /\ Join!Init /\ Sort!Init

(* Concat of the two tuples of a pair. *)
Concat(pair) == <<left_tuples[pair[1]], right_tuples[pair[2]]>>

ScanStep ==
  /\ phase = "closed" /\ stage = "closed"
  /\ Next
  /\ UNCHANGED <<joinVars, sortVars>>

(* left_->Next has returned false. *)
LeftIsRead ==
  /\ phase = "closed" /\ stage = "closed" /\ Exhausted
  /\ Close /\ Join!StartBuild(returned)
  /\ UNCHANGED sortVars

JoinStep ==
  /\ Join!StartProbe(RightRows) \/ Join!Merge \/ Join!Next_
  /\ UNCHANGED <<vars, sortVars>>

JoinTask(t) == Join!TaskStep(t) /\ UNCHANGED <<vars, sortVars>>

(* child_->Next has returned false. *)
ChildIsRead ==
  /\ stage = "closed" /\ phase = "open" /\ position = Len(output_buffer_)
  /\ Join!Close
  /\ Sort!Load([m \in DOMAIN output_buffer_ |-> Concat(output_buffer_[m])])
  /\ UNCHANGED vars

SortStep ==
  /\ Sort!BuildHeap \/ Sort!Next_ \/ (heap_ = {} /\ Sort!Close)
  /\ UNCHANGED <<vars, joinVars>>

SortTask(i) == Sort!SortPartition(i) /\ UNCHANGED <<vars, joinVars>>

QueryNext ==
  \/ ScanStep
  \/ LeftIsRead \/ JoinStep \/ \E t \in 1..JoinThreads : JoinTask(t)
  \/ ChildIsRead \/ SortStep \/ \E i \in 1..SortThreads : SortTask(i)

(* The threads of the pools and the thread that runs the query go on, but  *)
(* nobody has to call Init.                                                *)
QuerySpec ==
  /\ QueryInit /\ [][QueryNext]_queryVars
  /\ \A t \in Tasks : WF_queryVars(TaskStep(t) /\ ScanStep)
  /\ WF_queryVars(WaitAllAndMerge /\ ScanStep)
  /\ \A t \in 1..JoinThreads : WF_queryVars(JoinTask(t))
  /\ \A i \in 1..SortThreads : WF_queryVars(SortTask(i))
  /\ WF_queryVars(JoinStep) /\ WF_queryVars(ChildIsRead) /\ WF_queryVars(SortStep)
-----------------------------------------------------------------------------
(* The variables of the three operators keep their types.                  *)
TypesOK == TypeOK /\ Join!TypeOK /\ Sort!TypeOK

(* The join, for the inputs it has in a query, finds every pair with equal *)
(* keys, once.                                                             *)
JoinIsComplete == Join!JoinIsComplete

(* The merge of the partitions is in order, whatever order they came in.   *)
SortInOrder == Sort!MergeInOrder

(* When the sort is exhausted it has returned only pairs of a tuple of the *)
(* left table and one of the right table with equal keys, each at most     *)
(* once, and all of them if the scan had a frame for each of its tasks.    *)
QueryIsRight ==
  stage = "merging" /\ heap_ = {} =>
    /\ IsInjective(merged)
    /\ LET pairs == {p \in Table \X Range(RightRows) : LeftKey(p[1]) = RightKey(p[2])}
       IN /\ Range(merged) \subseteq pairs
          /\ Cardinality(Tasks) <= pool_size_ => Range(merged) = pairs

(* The sort has a partition for each of its threads (parallel_sort.h:7).   *)
EveryThreadHasAPartition == Sort!EveryThreadHasAPartition

(* Init of the scan, of the join and of the sort return.                   *)
InitReturns ==
  /\ ScanReturns
  /\ phase = "build" ~> phase = "open"
  /\ phase = "open" ~> stage \in {"merging", "terminated"}
==============================================================================
