-------------------------- MODULE ParallelHashJoin ---------------------------
(***************************************************************************)
(* The parallel hash join (executor/parallel_hash_join.cpp): Init builds a *)
(* hash table of the left tuples with the tasks of one thread pool, probes *)
(* it with the right tuples in the tasks of a second one, and joins what   *)
(* the tasks have found to one result.                                     *)
(*                                                                         *)
(* Tuples are named by their place in left_tuples and right_tuples.  Of    *)
(* the thread pools the join uses that each task runs and that WaitAll     *)
(* returns when all have returned (ThreadPool), of the hash table that     *)
(* Insert and Lookup are atomic, so that it is for each key the tuples     *)
(* inserted, which Lookup returns newest first (LockFreeHashTable).        *)
(***************************************************************************)
EXTENDS Integers, Sequences, Functions

CONSTANTS
  Threads,     \* n_threads_, how many tasks each phase submits
  LeftInputs, RightInputs,  \* what the children may return: sequences of tuples
  left_key_(_), right_key_(_),  \* tuple -> its key
  Key          \* the keys

Tasks == 1..Threads

VARIABLES
  phase,        \* "closed", "build", "probe" or "open"
  left_tuples, right_tuples,
  next_idx,     \* left_idx in the build phase, right_idx in the probe phase
  step,         \* task -> "claim", "work" or "done"
  claimed,      \* task -> the index it has claimed, None if none
  hash_table_,  \* key -> the left tuples inserted, newest first
  found,        \* local: task -> pairs of a left and a right tuple
  output_buffer_,
  position      \* cursor_

None == 0

inputVars == <<left_tuples, right_tuples>>
taskVars == <<next_idx, step, claimed>>
outputVars == <<output_buffer_, position>>
vars == <<phase, inputVars, taskVars, hash_table_, found, outputVars>>

EmptyTable == [k \in Key |-> << >>]

Init ==
  /\ phase = "closed"
  /\ left_tuples = << >> /\ right_tuples = << >>
  /\ next_idx = 1
  /\ step = [t \in Tasks |-> "done"] /\ claimed = [t \in Tasks |-> None]
  /\ hash_table_ = EmptyTable /\ found = [t \in Tasks |-> << >>]
  /\ output_buffer_ = << >> /\ position = 0
-----------------------------------------------------------------------------
(* The owner. *)

(* The tasks of a phase are submitted. *)
Submit ==
  /\ next_idx' = 1
  /\ step' = [t \in Tasks |-> "claim"] /\ claimed' = [t \in Tasks |-> None]

WaitAll == \A t \in Tasks : step[t] = "done"

(* Init; the left child has returned the tuples left. *)
StartBuild(left) ==
  /\ phase \in {"closed", "open"}
  /\ phase' = "build"
  /\ hash_table_' = EmptyTable /\ output_buffer_' = << >> /\ position' = 0
  /\ left_tuples' = left /\ right_tuples' = << >>
  /\ found' = [t \in Tasks |-> << >>]
  /\ Submit

(* Mistake: the right tuples are probed while the build still runs. *)
BuildIsOver_NoWait == TRUE

BuildIsOver == WaitAll

(* The right child has returned the tuples right. *)
StartProbe(right) ==
  /\ phase = "build" /\ BuildIsOver
  /\ phase' = "probe"
  /\ right_tuples' = right
  /\ found' = [t \in Tasks |-> << >>]
  /\ Submit
  /\ UNCHANGED <<left_tuples, hash_table_, outputVars>>

(* The results of the tasks one after the other: Merged[n] are those of    *)
(* the first n.                                                            *)
Merged[n \in 0..Threads] == IF n = 0 THEN << >> ELSE Merged[n - 1] \o found[n]

Merge ==
  /\ phase = "probe" /\ WaitAll
  /\ phase' = "open"
  /\ output_buffer_' = Merged[Threads]
  /\ UNCHANGED <<inputVars, taskVars, hash_table_, found, position>>

Next_ ==
  /\ phase = "open" /\ position < Len(output_buffer_)
  /\ position' = position + 1
  /\ UNCHANGED <<phase, inputVars, taskVars, hash_table_, found, output_buffer_>>

(* The local variables of Init, kept for the properties, are forgotten. *)
Close ==
  /\ phase = "open"
  /\ phase' = "closed"
  /\ hash_table_' = EmptyTable /\ output_buffer_' = << >>
  /\ left_tuples' = << >> /\ right_tuples' = << >> /\ found' = [t \in Tasks |-> << >>]
  /\ UNCHANGED <<taskVars, position>>
-----------------------------------------------------------------------------
(* A task. *)

Size == IF phase = "build" THEN Len(left_tuples) ELSE Len(right_tuples)

(* Mistake: the loop has no break. *)
AfterLast_Loops == "claim"

AfterLast == "done"

(* fetch_add goes past the end; by how much makes no difference. *)
Claim(t) ==
  /\ phase \in {"build", "probe"} /\ step[t] = "claim"
  /\ IF next_idx <= Size
     THEN /\ next_idx' = next_idx + 1
          /\ claimed' = [claimed EXCEPT ![t] = next_idx]
          /\ step' = [step EXCEPT ![t] = "work"]
     ELSE step' = [step EXCEPT ![t] = AfterLast] /\ UNCHANGED <<next_idx, claimed>>
  /\ UNCHANGED <<phase, inputVars, hash_table_, found, outputVars>>

Worked(t) ==
  /\ step[t] = "work"
  /\ step' = [step EXCEPT ![t] = "claim"] /\ claimed' = [claimed EXCEPT ![t] = None]
  /\ UNCHANGED <<phase, inputVars, next_idx, outputVars>>

(* hash_table_.Insert *)
Build(t) ==
  /\ phase = "build" /\ Worked(t)
  /\ LET key == left_key_(left_tuples[claimed[t]])
     IN hash_table_' = [hash_table_ EXCEPT ![key] = <<claimed[t]>> \o @]
  /\ UNCHANGED found

(* hash_table_.Lookup, and Concat for each match *)
Probe(t) ==
  /\ phase = "probe" /\ Worked(t)
  /\ LET matches == hash_table_[right_key_(right_tuples[claimed[t]])]
     IN found' = [found EXCEPT ![t] = @ \o [m \in DOMAIN matches |-> <<matches[m], claimed[t]>>]]
  /\ UNCHANGED hash_table_

TaskStep(t) == Claim(t) \/ Build(t) \/ Probe(t)
-----------------------------------------------------------------------------
Next ==
  \/ \E left \in LeftInputs : StartBuild(left)
  \/ \E right \in RightInputs : StartProbe(right)
  \/ Merge \/ Next_ \/ Close
  \/ \E t \in Tasks : TaskStep(t)

Spec == Init /\ [][Next]_vars
-----------------------------------------------------------------------------
LeftIdx == 1..Len(left_tuples)
RightIdx == 1..Len(right_tuples)
Matches(i, j) == left_key_(left_tuples[i]) = right_key_(right_tuples[j])

TypeOK ==
  /\ phase \in {"closed", "build", "probe", "open"}
  /\ next_idx \in Nat \ {0}
  /\ step \in [Tasks -> {"claim", "work", "done"}]
  /\ claimed \in [Tasks -> LeftIdx \cup RightIdx \cup {None}]
  /\ hash_table_ \in [Key -> Seq(LeftIdx)]
  /\ found \in [Tasks -> Seq(LeftIdx \X RightIdx)]
  /\ output_buffer_ \in Seq(LeftIdx \X RightIdx) /\ position \in Nat

(* Before the first probe the table holds every left tuple, once and under *)
(* its own key: the build tasks have claimed each tuple exactly once, none *)
(* of their concurrent inserts is lost, and nothing is left of an earlier  *)
(* Init.                                                                   *)
TableIsLeftInput ==
  phase \in {"probe", "open"} =>
    \A k \in Key :
      /\ IsInjective(hash_table_[k])
      /\ Range(hash_table_[k]) = {i \in LeftIdx : left_key_(left_tuples[i]) = k}

(* No two tasks work on the same tuple, and what a task works on nobody    *)
(* has worked on: no left tuple is inserted and no right tuple probed      *)
(* twice.                                                                  *)
ClaimsAreExclusive ==
  \A t \in Tasks : claimed[t] # None =>
    /\ \A u \in Tasks \ {t} : claimed[u] # claimed[t]
    /\ phase = "build" => \A k \in Key : claimed[t] \notin Range(hash_table_[k])
    /\ phase = "probe" => \A u \in Tasks : \A m \in Range(found[u]) : m[2] # claimed[t]

(* "EXPECT_EQ(count, N / 2)" (test/concurrency_test.cpp:181): the result   *)
(* holds each pair of a left and a right tuple with equal keys once, in    *)
(* whatever order the tasks ran.                                           *)
JoinIsComplete ==
  phase = "open" =>
    /\ IsInjective(output_buffer_)
    /\ Range(output_buffer_) = {p \in LeftIdx \X RightIdx : Matches(p[1], p[2])}
==============================================================================
