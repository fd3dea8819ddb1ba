----------------------- MODULE ParallelHashJoinProofs ------------------------
(***************************************************************************)
(* Proofs about the two phases of the parallel hash join, for every number *)
(* of threads and every input: no tuple is claimed twice, the table that   *)
(* is probed holds exactly the left tuples, and the result is every pair   *)
(* with equal keys, once.                                                  *)
(***************************************************************************)
EXTENDS ParallelHashJoin, QueueLemmas

(* There is a thread, and the keys of the tuples are keys. *)
JoinAssumption ==
  /\ Threads \in Nat \ {0}
  /\ \A left \in LeftInputs : /\ Len(left) \in Nat
                              /\ \A i \in 1..Len(left) : left_key_(left[i]) \in Key
  /\ \A right \in RightInputs : /\ Len(right) \in Nat
                                /\ \A i \in 1..Len(right) : right_key_(right[i]) \in Key

Types ==
  /\ phase \in {"closed", "build", "probe", "open"}
  /\ Len(left_tuples) \in Nat /\ Len(right_tuples) \in Nat
  /\ \A i \in 1..Len(left_tuples) : left_key_(left_tuples[i]) \in Key
  /\ \A i \in 1..Len(right_tuples) : right_key_(right_tuples[i]) \in Key
  /\ next_idx \in Nat \ {0}
  /\ step \in [Tasks -> {"claim", "work", "done"}]
  /\ claimed \in [Tasks -> Nat]
  /\ hash_table_ \in [Key -> Seq(Nat)]
  /\ found \in [Tasks -> Seq(Nat \X Nat)]

(* A task holds a claim while it works, and only then; claims are of       *)
(* different tuples, which the counter has passed.                         *)
Claims ==
  /\ \A t \in Tasks : claimed[t] # None <=> step[t] = "work"
  /\ \A t \in Tasks : claimed[t] < next_idx
  /\ \A t, u \in Tasks : t # u /\ claimed[t] # None => claimed[t] # claimed[u]
  /\ phase \in {"closed", "open"} => \A t \in Tasks : step[t] = "done"
  /\ phase \in {"build", "probe"} => \A t \in Tasks : claimed[t] <= Size

(* The tuples the build tasks are through with. *)
Built == {i \in LeftIdx : i < next_idx /\ \A t \in Tasks : claimed[t] # i}

(* The table holds the tuples of a set, once each and under their keys.    *)
TableHolds(S) ==
  \A k \in Key : /\ IsInjective(hash_table_[k])
                 /\ Range(hash_table_[k]) = {i \in S : left_key_(left_tuples[i]) = k}

Building ==
  phase = "build" =>
    /\ TableHolds(Built)
    /\ \A t \in Tasks : step[t] = "done" => next_idx > Len(left_tuples)

Probing ==
  /\ phase \in {"probe", "open"} => TableHolds(LeftIdx)
  /\ phase = "probe" => \A u \in Tasks : \A m \in Range(found[u]) :
                          m[2] # None /\ m[2] < next_idx /\ \A t \in Tasks : claimed[t] # m[2]

IInv == Types /\ Claims /\ Building /\ Probing
-----------------------------------------------------------------------------
LEMMA InitHolds == Init => IInv
<1> SUFFICES ASSUME Init PROVE IInv
  OBVIOUS
<1>1. Types
  BY DEF Init, Types, EmptyTable, None
<1>2. Claims
  BY DEF Init, Claims, None
<1> QED BY <1>1, <1>2 DEF Init, IInv, Building, Probing

(* An empty table holds nothing. *)
LEMMA EmptyTableHolds ==
  ASSUME NEW k \in Key
  PROVE  IsInjective(EmptyTable[k]) /\ Range(EmptyTable[k]) = {}
BY DEF EmptyTable, IsInjective, Range

LEMMA EmptyTypes ==
  /\ EmptyTable \in [Key -> Seq(Nat)]
  /\ [t \in Tasks |-> << >>] \in [Tasks -> Seq(Nat \X Nat)]
  /\ Len(<< >>) = 0
BY DEF EmptyTable

(* Init of the join: the tasks of the build phase are submitted. *)
LEMMA StartBuildPreserves ==
  ASSUME JoinAssumption, IInv, NEW left \in LeftInputs, StartBuild(left)
  PROVE  IInv'
<1>1. Types'
  <2>1. /\ Len(left_tuples') \in Nat
        /\ \A i \in 1..Len(left_tuples') : left_key_(left_tuples'[i]) \in Key
    BY DEF JoinAssumption, StartBuild
  <2>2. /\ Len(right_tuples') \in Nat
        /\ \A i \in 1..Len(right_tuples') : right_key_(right_tuples'[i]) \in Key
    BY EmptyTypes DEF StartBuild
  <2>3. /\ next_idx' \in Nat \ {0} /\ step' \in [Tasks -> {"claim", "work", "done"}]
        /\ claimed' \in [Tasks -> Nat]
    BY DEF StartBuild, Submit, None
  <2>4. hash_table_' \in [Key -> Seq(Nat)] /\ found' \in [Tasks -> Seq(Nat \X Nat)]
    BY EmptyTypes DEF StartBuild
  <2> QED BY <2>1, <2>2, <2>3, <2>4 DEF Types, StartBuild
<1>2. Claims'
  BY <1>1 DEF Types, StartBuild, Submit, Claims, Size, None
<1>3. Building'
  <2>1. Built' = {}
    BY <1>1 DEF StartBuild, Submit, Built, LeftIdx, Types
  <2>2. \A t \in Tasks : step'[t] # "done"
    BY DEF StartBuild, Submit
  <2>3. hash_table_' = EmptyTable
    BY DEF StartBuild
  <2> QED BY <2>1, <2>2, <2>3, EmptyTableHolds DEF Building, TableHolds
<1>4. Probing'
  BY DEF StartBuild, Probing
<1> QED BY <1>1, <1>2, <1>3, <1>4 DEF IInv

(* When the build tasks have returned every left tuple is in the table.    *)
LEMMA BuildIsComplete ==
  ASSUME JoinAssumption, IInv, phase = "build", WaitAll
  PROVE  Built = LeftIdx
<1>1. 1 \in Tasks
  BY DEF JoinAssumption, Tasks
<1>2. next_idx > Len(left_tuples)
  BY <1>1 DEF IInv, Building, WaitAll
<1>3. \A t \in Tasks : claimed[t] = None
  BY DEF IInv, Claims, WaitAll
<1>4. \A i \in LeftIdx : i < next_idx /\ i # None
  BY <1>2 DEF IInv, Types, LeftIdx, None
<1> QED BY <1>3, <1>4 DEF Built

LEMMA StartProbePreserves ==
  ASSUME JoinAssumption, IInv, NEW right \in RightInputs, StartProbe(right)
  PROVE  IInv'
<1>1. Types'
  <2>1. /\ Len(right_tuples') \in Nat
        /\ \A i \in 1..Len(right_tuples') : right_key_(right_tuples'[i]) \in Key
    BY DEF JoinAssumption, StartProbe
  <2>2. /\ next_idx' \in Nat \ {0} /\ step' \in [Tasks -> {"claim", "work", "done"}]
        /\ claimed' \in [Tasks -> Nat]
    BY DEF StartProbe, Submit, None
  <2>3. found' \in [Tasks -> Seq(Nat \X Nat)]
    BY EmptyTypes DEF StartProbe
  <2> QED BY <2>1, <2>2, <2>3 DEF IInv, Types, StartProbe
<1>2. Claims'
  BY <1>1 DEF Types, StartProbe, Submit, Claims, Size, None
<1>3. Building'
  BY DEF StartProbe, Building
<1>4. TableHolds(LeftIdx)
  BY BuildIsComplete DEF StartProbe, BuildIsOver, IInv, Building
<1>5. TableHolds(LeftIdx)'
  BY <1>4 DEF StartProbe, TableHolds, LeftIdx
<1>6. \A u \in Tasks : Range(found'[u]) = {}
  BY DEF StartProbe, Range
<1> QED BY <1>1, <1>2, <1>3, <1>5, <1>6 DEF IInv, Probing

(* Merge, Next and Close read the table or clear it.                       *)
LEMMA OwnerPreserves ==
  ASSUME IInv, Merge \/ Next_ \/ Close
  PROVE  IInv'
<1>1. Types'
  <2>1. CASE Close
    BY <2>1, EmptyTypes DEF IInv, Types, Close, taskVars
  <2>2. CASE Merge \/ Next_
    BY <2>2 DEF IInv, Types, Merge, Next_, inputVars, taskVars
  <2> QED BY <2>1, <2>2
<1>2. Claims'
  BY DEF IInv, Types, Claims, Merge, Next_, Close, inputVars, taskVars, WaitAll
<1>3. Building'
  BY DEF Merge, Next_, Close, Building
<1>4. CASE Close
  BY <1>1, <1>2, <1>3, <1>4 DEF IInv, Probing, Close
<1>5. CASE Merge \/ Next_
  <2>1. phase' = "open" /\ UNCHANGED <<hash_table_, left_tuples>> /\ TableHolds(LeftIdx)
    BY <1>5 DEF IInv, Probing, Merge, Next_, inputVars
  <2>2. TableHolds(LeftIdx)'
    BY <2>1 DEF TableHolds, LeftIdx
  <2> QED BY <1>1, <1>2, <1>3, <2>1, <2>2 DEF IInv, Probing
<1> QED BY <1>4, <1>5
-----------------------------------------------------------------------------
(* A claim takes the tuple next_idx, which nobody has or has had.          *)
LEMMA ClaimPreserves ==
  ASSUME IInv, NEW t \in Tasks, Claim(t)
  PROVE  IInv'
<1>0. /\ phase' = phase /\ UNCHANGED <<left_tuples, right_tuples, hash_table_, found>>
      /\ phase \in {"build", "probe"} /\ step[t] = "claim"
      /\ Size \in Nat /\ next_idx \in Nat \ {0}
  BY DEF Claim, inputVars, IInv, Types, Size
<1>1. CASE next_idx <= Size
  <2>1. /\ next_idx' = next_idx + 1
        /\ claimed' = [claimed EXCEPT ![t] = next_idx]
        /\ step' = [step EXCEPT ![t] = "work"]
    BY <1>1 DEF Claim
  <2>2. Types'
    BY <1>0, <2>1 DEF IInv, Types
  <2>3. Claims'
    <3>1. \A u \in Tasks : claimed[u] < next_idx /\ claimed[u] \in Nat
      BY DEF IInv, Types, Claims
    <3>2. \A u \in Tasks : claimed'[u] = IF u = t THEN next_idx ELSE claimed[u]
      BY <2>1 DEF IInv, Types
    <3>3. \A u \in Tasks : step'[u] = IF u = t THEN "work" ELSE step[u]
      BY <2>1 DEF IInv, Types
    <3>4. \A u \in Tasks : claimed'[u] # None <=> step'[u] = "work"
      BY <3>2, <3>3, <1>0 DEF IInv, Claims, None
    <3>5. \A u \in Tasks : claimed'[u] < next_idx'
      BY <3>1, <3>2, <2>1, <1>0
    <3>6. \A u, v \in Tasks : u # v /\ claimed'[u] # None => claimed'[u] # claimed'[v]
      BY <3>1, <3>2, <1>0 DEF IInv, Claims
    <3>7. \A u \in Tasks : claimed'[u] <= Size'
      BY <3>2, <1>1, <1>0 DEF IInv, Claims, Size
    <3> QED BY <3>4, <3>5, <3>6, <3>7, <1>0 DEF Claims
  <2>4. Built' = Built
    <3>1. LeftIdx' = LeftIdx /\ LeftIdx \subseteq Nat
      BY <1>0 DEF LeftIdx
    <3>2. \A u \in Tasks : claimed'[u] = IF u = t THEN next_idx ELSE claimed[u]
      BY <2>1 DEF IInv, Types
    <3>3. claimed[t] = None
      BY <1>0 DEF IInv, Claims
    <3>4. \A i \in LeftIdx : i # None
      BY DEF LeftIdx, None
    <3>5. ASSUME NEW i \in LeftIdx PROVE i \in Built' <=> i \in Built
      <4>1. i \in Nat /\ i # None
        BY <3>1, <3>4
      <4>2. i < next_idx' <=> i < next_idx \/ i = next_idx
        BY <2>1, <1>0, <4>1
      <4>3. (\A u \in Tasks : claimed'[u] # i) <=> i # next_idx /\ \A u \in Tasks : claimed[u] # i
        BY <3>2, <3>3, <4>1
      <4>4. i = next_idx => ~(i < next_idx)
        BY <1>0
      <4> QED BY <3>1, <4>2, <4>3, <4>4 DEF Built
    <3>6. Built' \subseteq LeftIdx /\ Built \subseteq LeftIdx
      BY <3>1 DEF Built
    <3> QED BY <3>5, <3>6, Zenon
  <2>5. Building'
    <3>1. phase = "build" => TableHolds(Built)'
      BY <2>4, <1>0 DEF IInv, Building, TableHolds
    <3>2. ASSUME phase = "build", NEW u \in Tasks, step'[u] = "done"
          PROVE  next_idx' > Len(left_tuples)
      <4>1. step[u] = "done"
        BY <3>2, <2>1 DEF IInv, Types
      <4> QED BY <4>1, <3>2, <2>1, <1>0 DEF IInv, Building, Types
    <3> QED BY <3>1, <3>2, <1>0 DEF Building
  <2>6. Probing'
    <3>1. phase \in {"probe", "open"} => TableHolds(LeftIdx)'
      BY <1>0 DEF IInv, Probing, TableHolds, LeftIdx
    <3>2. ASSUME phase = "probe", NEW u \in Tasks, NEW m \in Range(found[u])
          PROVE  m[2] # None /\ m[2] < next_idx' /\ \A v \in Tasks : claimed'[v] # m[2]
      <4>1. m[2] # None /\ m[2] < next_idx /\ \A v \in Tasks : claimed[v] # m[2]
        BY <3>2 DEF IInv, Probing
      <4>2. m \in Nat \X Nat
        BY <3>2 DEF IInv, Types, Range
      <4>3. m[2] \in Nat
        BY <4>2
      <4> QED BY <4>1, <4>3, <2>1, <1>0 DEF IInv, Types
    <3> QED BY <3>1, <3>2, <1>0 DEF Probing
  <2> QED BY <2>2, <2>3, <2>5, <2>6 DEF IInv
<1>2. CASE ~(next_idx <= Size)
  <2>1. step' = [step EXCEPT ![t] = "done"] /\ UNCHANGED <<next_idx, claimed>>
    BY <1>2 DEF Claim, AfterLast
  <2>2. Types'
    BY <1>0, <2>1 DEF IInv, Types
  <2>3. Claims'
    <3>1. Size' = Size
      BY <1>0 DEF Size
    <3>2. claimed[t] = None
      BY <1>0 DEF IInv, Claims
    <3>3. \A u \in Tasks : step'[u] = IF u = t THEN "done" ELSE step[u]
      BY <2>1 DEF IInv, Types
    <3>4. \A u \in Tasks : claimed[u] # None <=> step'[u] = "work"
      BY <1>0, <3>2, <3>3 DEF IInv, Claims
    <3> QED BY <3>1, <3>4, <1>0, <2>1 DEF IInv, Claims
  <2>4. Building'
    <3>1. Built' = Built
      BY <1>0, <2>1 DEF Built, LeftIdx
    <3>2. phase = "build" => TableHolds(Built)'
      BY <3>1, <1>0 DEF IInv, Building, TableHolds
    <3>3. phase = "build" => next_idx > Len(left_tuples)
      BY <1>2, <1>0 DEF Size
    <3> QED BY <3>2, <3>3, <1>0, <2>1 DEF Building
  <2>5. Probing'
    BY <1>0, <2>1 DEF IInv, Probing, TableHolds, LeftIdx
  <2> QED BY <2>2, <2>3, <2>4, <2>5 DEF IInv
<1> QED BY <1>1, <1>2
-----------------------------------------------------------------------------
(* What Build and Probe do to the claims. *)
LEMMA WorkedClaims ==
  ASSUME IInv, NEW t \in Tasks, Worked(t), phase \in {"build", "probe"}
  PROVE  /\ Claims'
         /\ claimed[t] \in 1..Size /\ claimed[t] < next_idx
         /\ \A u \in Tasks : claimed'[u] = IF u = t THEN None ELSE claimed[u]
         /\ claimed' \in [Tasks -> Nat] /\ step' \in [Tasks -> {"claim", "work", "done"}]
         /\ \A u \in Tasks : step'[u] = "done" => step[u] = "done"
         /\ UNCHANGED <<phase, left_tuples, right_tuples, next_idx>>
<1>1. /\ claimed' = [claimed EXCEPT ![t] = None]
      /\ step' = [step EXCEPT ![t] = "claim"]
      /\ UNCHANGED <<phase, left_tuples, right_tuples, next_idx>>
      /\ step[t] = "work"
  BY DEF Worked, inputVars
<1>2. claimed' \in [Tasks -> Nat] /\ step' \in [Tasks -> {"claim", "work", "done"}]
  BY <1>1 DEF IInv, Types, None
<1>3. \A u \in Tasks : claimed'[u] = IF u = t THEN None ELSE claimed[u]
  BY <1>1 DEF IInv, Types
<1>4. \A u \in Tasks : step'[u] = IF u = t THEN "claim" ELSE step[u]
  BY <1>1 DEF IInv, Types
<1>5. Size \in Nat /\ Size' = Size /\ next_idx \in Nat \ {0} /\ claimed[t] \in Nat
  BY <1>1 DEF Size, IInv, Types
<1>6. claimed[t] \in 1..Size /\ claimed[t] < next_idx
  BY <1>1, <1>5 DEF IInv, Claims, None
<1>7. Claims'
  <2>1. \A u \in Tasks : claimed'[u] # None <=> step'[u] = "work"
    BY <1>3, <1>4 DEF IInv, Claims
  <2>2. \A u \in Tasks : claimed'[u] < next_idx' /\ claimed'[u] <= Size'
    BY <1>1, <1>3, <1>5 DEF IInv, Claims, None
  <2>3. \A u, v \in Tasks : u # v /\ claimed'[u] # None => claimed'[u] # claimed'[v]
    BY <1>3 DEF IInv, Claims
  <2> QED BY <1>1, <2>1, <2>2, <2>3 DEF Claims
<1> QED BY <1>1, <1>2, <1>3, <1>4, <1>6, <1>7

(* Build: the tuple the task holds enters the table under its key.         *)
LEMMA BuildPreserves ==
  ASSUME IInv, NEW t \in Tasks, Build(t)
  PROVE  IInv'
<1> DEFINE c == claimed[t]
<1> DEFINE key == left_key_(left_tuples[c])
<1>1. /\ Claims'
      /\ c \in 1..Size /\ c < next_idx
      /\ \A u \in Tasks : claimed'[u] = IF u = t THEN None ELSE claimed[u]
      /\ claimed' \in [Tasks -> Nat] /\ step' \in [Tasks -> {"claim", "work", "done"}]
      /\ \A u \in Tasks : step'[u] = "done" => step[u] = "done"
      /\ UNCHANGED <<phase, left_tuples, right_tuples, next_idx>>
  BY WorkedClaims DEF Build
<1>2. /\ phase = "build" /\ found' = found
      /\ hash_table_' = [hash_table_ EXCEPT ![key] = <<c>> \o @]
  BY DEF Build
<1>3. c \in LeftIdx /\ c \in Nat /\ c # None /\ LeftIdx' = LeftIdx
  BY <1>1, <1>2 DEF Size, LeftIdx, None
<1>4. key \in Key /\ hash_table_ \in [Key -> Seq(Nat)]
  BY <1>3 DEF IInv, Types, LeftIdx
<1>5. TableHolds(Built)
  BY <1>2 DEF IInv, Building
<1>6. c \notin Built
  BY DEF Built
<1> HIDE DEF c, key
<1>7. c \notin Range(hash_table_[key]) /\ IsInjective(hash_table_[key])
  BY <1>4, <1>5, <1>6 DEF TableHolds
<1>8. /\ <<c>> \o hash_table_[key] \in Seq(Nat)
      /\ IsInjective(<<c>> \o hash_table_[key])
      /\ Range(<<c>> \o hash_table_[key]) = Range(hash_table_[key]) \cup {c}
  BY <1>3, <1>4, <1>7, PushFrontProperties
<1>9. /\ hash_table_' \in [Key -> Seq(Nat)]
      /\ \A k \in Key : hash_table_'[k] = IF k = key THEN <<c>> \o hash_table_[key] ELSE hash_table_[k]
  BY <1>2, <1>4, <1>8
<1>10. Types'
  BY <1>1, <1>2, <1>9 DEF IInv, Types
<1>11. Built' = Built \cup {c}
  <2>1. ASSUME NEW i \in LeftIdx
        PROVE  (\A u \in Tasks : claimed'[u] # i) <=> i = c \/ \A u \in Tasks : claimed[u] # i
    <3>1. i # None
      BY DEF LeftIdx, None
    <3>2. \A u \in Tasks : u # t => claimed[u] # c
      BY <1>3 DEF c, IInv, Claims
    <3> QED BY <3>1, <3>2, <1>1 DEF c
  <2>2. ASSUME NEW i \in LeftIdx PROVE i \in Built' <=> i \in Built \/ i = c
    BY <2>1, <2>2, <1>1, <1>3 DEF Built
  <2>3. Built' \subseteq LeftIdx /\ Built \subseteq LeftIdx
    BY <1>3 DEF Built
  <2> QED BY <2>2, <2>3, <1>3, Zenon
<1>12. TableHolds(Built)'
  <2> SUFFICES ASSUME NEW k \in Key
      PROVE  /\ IsInjective(hash_table_'[k])
             /\ Range(hash_table_'[k]) = {i \in Built \cup {c} : left_key_(left_tuples[i]) = k}
    BY <1>1, <1>11 DEF TableHolds
  <2>1. /\ IsInjective(hash_table_[k])
        /\ Range(hash_table_[k]) = {i \in Built : left_key_(left_tuples[i]) = k}
    BY <1>5 DEF TableHolds
  <2>2. left_key_(left_tuples[c]) = key
    BY DEF key
  <2>3. CASE k = key
    <3>1. hash_table_'[k] = <<c>> \o hash_table_[key]
      BY <2>3, <1>9
    <3>2. Range(hash_table_'[k]) = {i \in Built : left_key_(left_tuples[i]) = k} \cup {c}
      BY <3>1, <2>1, <2>3, <1>8, Zenon
    <3>3. IsInjective(hash_table_'[k])
      BY <3>1, <1>8, Zenon
    <3> QED BY <3>2, <3>3, <2>2, <2>3, Zenon
  <2>4. CASE k # key
    BY <2>1, <2>2, <2>4, <1>9
  <2> QED BY <2>3, <2>4
<1>13. Building'
  BY <1>1, <1>2, <1>12 DEF IInv, Building
<1>14. Probing'
  BY <1>1, <1>2 DEF Probing
<1> QED BY <1>1, <1>10, <1>13, <1>14 DEF IInv

(* The pairs of some left tuples with one right tuple. *)
LEMMA PairsWith ==
  ASSUME NEW s \in Seq(Nat), NEW c \in Nat
  PROVE  LET pairs == [m \in DOMAIN s |-> <<s[m], c>>]
         IN /\ pairs \in Seq(Nat \X Nat)
            /\ \A p \in Range(pairs) : p[2] = c
            /\ Range(pairs) = {<<i, c>> : i \in Range(s)}
            /\ IsInjective(s) => IsInjective(pairs)
<1>1. Len(s) \in Nat /\ DOMAIN s = 1..Len(s)
  BY LenProperties
<1> DEFINE pairs == [m \in DOMAIN s |-> <<s[m], c>>]
<1>2. pairs \in Seq(Nat \X Nat)
  BY <1>1
<1>3. DOMAIN pairs = DOMAIN s /\ \A i \in DOMAIN s : pairs[i] = <<s[i], c>>
  OBVIOUS
<1> HIDE DEF pairs
<1>4. Range(pairs) = {<<i, c>> : i \in Range(s)}
  BY <1>3 DEF Range
<1>5. \A p \in Range(pairs) : p[2] = c
  BY <1>4
<1>6. ASSUME IsInjective(s) PROVE IsInjective(pairs)
  <2> SUFFICES ASSUME NEW i \in DOMAIN s, NEW k \in DOMAIN s, pairs[i] = pairs[k] PROVE i = k
    BY <1>3 DEF IsInjective
  <2>1. <<s[i], c>> = <<s[k], c>>
    BY <1>3
  <2>2. s[i] = s[k]
    BY <2>1
  <2> QED BY <2>2, <1>6 DEF IsInjective
<1> QED BY <1>2, <1>4, <1>5, <1>6 DEF pairs

(* Probe: what the task finds are pairs with the right tuple it holds.     *)
LEMMA ProbePreserves ==
  ASSUME IInv, NEW t \in Tasks, Probe(t)
  PROVE  IInv'
<1> DEFINE c == claimed[t]
<1> DEFINE matches == hash_table_[right_key_(right_tuples[c])]
<1> DEFINE new == [m \in DOMAIN matches |-> <<matches[m], c>>]
<1>1. /\ Claims'
      /\ c \in 1..Size /\ c < next_idx
      /\ \A u \in Tasks : claimed'[u] = IF u = t THEN None ELSE claimed[u]
      /\ claimed' \in [Tasks -> Nat] /\ step' \in [Tasks -> {"claim", "work", "done"}]
      /\ \A u \in Tasks : step'[u] = "done" => step[u] = "done"
      /\ UNCHANGED <<phase, left_tuples, right_tuples, next_idx>>
  BY WorkedClaims, Zenon DEF Probe
<1>2. /\ phase = "probe" /\ hash_table_' = hash_table_
      /\ found' = [found EXCEPT ![t] = @ \o new]
  BY DEF Probe
<1>3. c \in 1..Len(right_tuples) /\ c \in Nat /\ c # None
  BY <1>1, <1>2 DEF Size, None
<1>5. matches \in Seq(Nat)
  BY <1>3 DEF IInv, Types
<1> HIDE DEF c, matches
<1>6. new \in Seq(Nat \X Nat) /\ \A m \in Range(new) : m[2] = c
  BY <1>5, <1>3, PairsWith
<1> HIDE DEF new
<1>7. found[t] \in Seq(Nat \X Nat)
  BY DEF IInv, Types
<1>8. /\ found[t] \o new \in Seq(Nat \X Nat)
      /\ Range(found[t] \o new) = Range(found[t]) \cup Range(new)
  BY <1>6, <1>7, ConcatRange
<1>9. /\ found' \in [Tasks -> Seq(Nat \X Nat)]
      /\ \A u \in Tasks : found'[u] = IF u = t THEN found[t] \o new ELSE found[u]
  BY <1>2, <1>8 DEF IInv, Types
<1>10. Types'
  BY <1>1, <1>2, <1>9 DEF IInv, Types
<1>11. Building'
  BY <1>1, <1>2 DEF Building
<1>12. TableHolds(LeftIdx)'
  BY <1>1, <1>2 DEF IInv, Probing, TableHolds, LeftIdx
<1>13. ASSUME NEW u \in Tasks, NEW m \in Range(found'[u])
       PROVE  m[2] # None /\ m[2] < next_idx' /\ \A v \in Tasks : claimed'[v] # m[2]
  <2>1. m \in Range(found[u]) \/ m[2] = c
    BY <1>6, <1>8, <1>9, Zenon
  <2>2. CASE m \in Range(found[u])
    <3>1. m[2] # None /\ m[2] < next_idx /\ \A v \in Tasks : claimed[v] # m[2]
      BY <2>2, <1>2 DEF IInv, Probing
    <3> QED BY <3>1, <1>1
  <2>3. CASE m[2] = c
    <3>1. \A v \in Tasks : v # t => claimed[v] # c
      BY <1>3 DEF c, IInv, Claims
    <3> QED BY <2>3, <3>1, <1>1, <1>3
  <2> QED BY <2>1, <2>2, <2>3
<1> QED BY <1>1, <1>2, <1>10, <1>11, <1>12, <1>13 DEF IInv, Probing
-----------------------------------------------------------------------------
LEMMA NextPreserves ==
  ASSUME JoinAssumption, IInv, [Next]_vars
  PROVE  IInv'
<1>1. CASE UNCHANGED vars
  BY <1>1 DEF vars, inputVars, taskVars, IInv, Types, Claims, Building, Probing,
              TableHolds, Built, LeftIdx, Size
<1>2. ASSUME NEW t \in Tasks, TaskStep(t) PROVE IInv'
  BY <1>2, ClaimPreserves, BuildPreserves, ProbePreserves DEF TaskStep
<1> QED BY <1>1, <1>2, StartBuildPreserves, StartProbePreserves, OwnerPreserves DEF Next

(* IInv holds in every state of the join. *)
THEOREM JoinInvariant == ASSUME JoinAssumption PROVE Spec => []IInv
<1>1. IInv /\ [Next]_vars => IInv'
  BY NextPreserves
<1> QED BY <1>1, InitHolds, PTL DEF Spec

(* The table that the probe tasks read holds every left tuple, once and    *)
(* under its own key, however many tasks have built it and in whatever     *)
(* order they claimed and inserted.                                        *)
THEOREM TableIsComplete == ASSUME JoinAssumption PROVE Spec => []TableIsLeftInput
<1>1. IInv => TableIsLeftInput
  BY DEF IInv, Probing, TableHolds, TableIsLeftInput
<1> QED BY <1>1, JoinInvariant, PTL

(* No tuple is worked on by two tasks, or twice: left_idx and right_idx    *)
(* (fetch_add) hand out every index once.                                  *)
THEOREM JoinClaimsExclusive == ASSUME JoinAssumption PROVE Spec => []ClaimsAreExclusive
<1>1. ASSUME IInv PROVE ClaimsAreExclusive
  <2> SUFFICES ASSUME NEW t \in Tasks, claimed[t] # None
      PROVE  /\ \A u \in Tasks \ {t} : claimed[u] # claimed[t]
             /\ phase = "build" => \A k \in Key : claimed[t] \notin Range(hash_table_[k])
             /\ phase = "probe" => \A u \in Tasks : \A m \in Range(found[u]) : m[2] # claimed[t]
    BY DEF ClaimsAreExclusive
  <2>1. \A u \in Tasks \ {t} : claimed[u] # claimed[t]
    BY <1>1 DEF IInv, Claims
  <2>2. phase = "build" => \A k \in Key : claimed[t] \notin Range(hash_table_[k])
    BY <1>1 DEF IInv, Building, TableHolds, Built
  <2>3. phase = "probe" => \A u \in Tasks : \A m \in Range(found[u]) : m[2] # claimed[t]
    BY <1>1 DEF IInv, Probing
  <2> QED BY <2>1, <2>2, <2>3
<1> QED BY <1>1, JoinInvariant, PTL
-----------------------------------------------------------------------------
(* The right tuples the probe tasks are through with. *)
Probed == {j \in RightIdx : j < next_idx /\ \A t \in Tasks : claimed[t] # j}

(* The pairs with equal keys whose right tuple is in a set. *)
PairsOf(S) == {p \in LeftIdx \X S : Matches(p[1], p[2])}

(* The probe tasks have found the pairs of the tuples they are through     *)
(* with, no two of them the same pair.                                     *)
Finding ==
  phase = "probe" =>
    /\ \A t \in Tasks : step[t] = "done" => next_idx > Len(right_tuples)
    /\ \A t \in Tasks : IsInjective(found[t])
    /\ \A t, u \in Tasks : t # u => Range(found[t]) \cap Range(found[u]) = {}
    /\ UNION {Range(found[t]) : t \in Tasks} = PairsOf(Probed)

Output ==
  /\ output_buffer_ \in Seq(Nat \X Nat) /\ position \in Nat
  /\ phase # "open" => output_buffer_ = << >>
  /\ JoinIsComplete

(* What is left of an earlier phase. *)
Leftovers ==
  /\ phase = "closed" => hash_table_ = EmptyTable
  /\ phase \in {"closed", "build"} => found = [t \in Tasks |-> << >>]
  /\ phase = "open" => UNION {Range(found[t]) : t \in Tasks} \subseteq LeftIdx \X RightIdx

ResultInv == IInv /\ Finding /\ Output /\ Leftovers

-----------------------------------------------------------------------------
LEMMA ResultInit == Init => ResultInv
<1> SUFFICES ASSUME Init PROVE ResultInv
  OBVIOUS
<1>1. IInv
  BY InitHolds
<1>2. phase = "closed" /\ output_buffer_ = << >> /\ position = 0
  BY DEF Init
<1>3. << >> \in Seq(Nat \X Nat)
  OBVIOUS
<1>4. Leftovers
  BY <1>2 DEF Leftovers, Init
<1> QED BY <1>1, <1>2, <1>3, <1>4 DEF ResultInv, Finding, Output, JoinIsComplete

LEMMA StartBuildKeepsResult ==
  ASSUME JoinAssumption, ResultInv, NEW left \in LeftInputs, StartBuild(left)
  PROVE  ResultInv'
<1>1. IInv'
  BY StartBuildPreserves DEF ResultInv
<1>2. phase' = "build" /\ output_buffer_' = << >> /\ position' = 0
  BY DEF StartBuild
<1>3. << >> \in Seq(Nat \X Nat)
  OBVIOUS
<1>4. Leftovers'
  BY <1>2 DEF Leftovers, StartBuild
<1> QED BY <1>1, <1>2, <1>3, <1>4 DEF ResultInv, Finding, Output, JoinIsComplete

LEMMA StartProbeKeepsResult ==
  ASSUME JoinAssumption, ResultInv, NEW right \in RightInputs, StartProbe(right)
  PROVE  ResultInv'
<1>1. IInv'
  BY StartProbePreserves DEF ResultInv
<1>2. /\ phase = "build" /\ phase' = "probe" /\ UNCHANGED <<output_buffer_, position>>
      /\ next_idx' = 1 /\ found' = [t \in Tasks |-> << >>]
      /\ step' = [t \in Tasks |-> "claim"]
  BY DEF StartProbe, Submit, outputVars
<1>3. \A t \in Tasks : Range(found'[t]) = {} /\ IsInjective(found'[t])
  BY <1>2 DEF Range, IsInjective
<1>4. Probed' = {}
  BY <1>1, <1>2 DEF Probed, RightIdx, IInv, Types
<1>5. PairsOf(Probed)' = {}
  BY <1>4 DEF PairsOf
<1>6. UNION {Range(found'[t]) : t \in Tasks} = {}
  BY <1>3
<1>7. Finding'
  BY <1>2, <1>3, <1>5, <1>6 DEF Finding
<1>8. Output'
  BY <1>2 DEF ResultInv, Output, JoinIsComplete
<1>9. Leftovers'
  BY <1>2 DEF Leftovers
<1> QED BY <1>1, <1>7, <1>8, <1>9 DEF ResultInv

(* When the probe tasks have returned they are through with every tuple.   *)
LEMMA ProbeIsComplete ==
  ASSUME JoinAssumption, ResultInv, phase = "probe", WaitAll
  PROVE  Probed = RightIdx
<1>1. 1 \in Tasks
  BY DEF JoinAssumption, Tasks
<1>2. next_idx > Len(right_tuples)
  BY <1>1 DEF ResultInv, Finding, WaitAll
<1>3. \A t \in Tasks : claimed[t] = None
  BY DEF ResultInv, IInv, Claims, WaitAll
<1>4. \A j \in RightIdx : j < next_idx /\ j # None
  BY <1>2 DEF ResultInv, IInv, Types, RightIdx, None
<1> QED BY <1>3, <1>4 DEF Probed

(* Merge: the pairs of all tasks, one task after the other.                *)
LEMMA MergeKeepsResult ==
  ASSUME JoinAssumption, ResultInv, Merge
  PROVE  ResultInv'
<1>1. IInv'
  BY OwnerPreserves DEF ResultInv
<1>2. /\ phase = "probe" /\ phase' = "open" /\ WaitAll /\ output_buffer_' = Merged[Threads]
      /\ UNCHANGED <<left_tuples, right_tuples, position>>
  BY DEF Merge, inputVars
<1>3. Threads \in Nat /\ found \in [1..Threads -> Seq(Nat \X Nat)]
  BY DEF ResultInv, IInv, Types, JoinAssumption, Tasks
<1>4. /\ \A t \in 1..Threads : IsInjective(found[t])
      /\ \A t, u \in 1..Threads : t # u => Range(found[t]) \cap Range(found[u]) = {}
      /\ UNION {Range(found[t]) : t \in 1..Threads} = PairsOf(RightIdx)
  BY <1>2, ProbeIsComplete DEF ResultInv, Finding, Tasks
<1>5. Joins(found, Threads, Merged)
  <2>1. \E f : f = [k \in 0..Threads |-> IF k = 0 THEN << >> ELSE f[k - 1] \o found[k]]
    BY <1>3, JoinsExists DEF Joins
  <2>2. Merged = [k \in 0..Threads |-> IF k = 0 THEN << >> ELSE Merged[k - 1] \o found[k]]
    BY <2>1, Zenon DEF Merged
  <2> QED BY <2>2 DEF Joins
<1>6. /\ output_buffer_' \in Seq(Nat \X Nat) /\ IsInjective(output_buffer_')
      /\ Range(output_buffer_') = PairsOf(RightIdx)
  <2>1. /\ Merged[Threads] \in Seq(Nat \X Nat) /\ IsInjective(Merged[Threads])
        /\ Range(Merged[Threads]) = UNION {Range(found[t]) : t \in 1..Threads}
    BY <1>3, <1>4, <1>5, JoinsProperties
  <2> QED BY <2>1, <1>2, <1>4
<1>7. JoinIsComplete'
  BY <1>2, <1>6 DEF JoinIsComplete, PairsOf, LeftIdx, RightIdx, Matches
<1>8. Leftovers'
  <2>1. PairsOf(RightIdx) \subseteq LeftIdx \X RightIdx
    BY DEF PairsOf
  <2>2. UNCHANGED <<found, LeftIdx, RightIdx>>
    BY DEF Merge, inputVars, LeftIdx, RightIdx
  <2> QED BY <2>1, <2>2, <1>2, <1>4 DEF Leftovers, Tasks
<1> QED BY <1>1, <1>2, <1>6, <1>7, <1>8 DEF ResultInv, Finding, Output

LEMMA ReadingKeepsResult ==
  ASSUME ResultInv, Next_ \/ Close
  PROVE  ResultInv'
<1>1. IInv'
  BY OwnerPreserves DEF ResultInv
<1>2. CASE Next_
  <2>1. /\ phase = "open" /\ phase' = "open" /\ position' = position + 1
        /\ UNCHANGED <<left_tuples, right_tuples, output_buffer_>>
    BY <1>2 DEF Next_, inputVars
  <2>2. JoinIsComplete'
    BY <2>1 DEF ResultInv, Output, JoinIsComplete, LeftIdx, RightIdx, Matches
  <2>3. Leftovers'
    <3>1. UNCHANGED <<found, LeftIdx, RightIdx>>
      BY <1>2, <2>1 DEF Next_, LeftIdx, RightIdx
    <3> QED BY <2>1, <3>1 DEF ResultInv, Leftovers
  <2> QED BY <1>1, <2>1, <2>2, <2>3 DEF ResultInv, Finding, Output
<1>3. CASE Close
  <2>1. phase' = "closed" /\ output_buffer_' = << >> /\ position' = position
    BY <1>3 DEF Close
  <2>2. << >> \in Seq(Nat \X Nat)
    OBVIOUS
  <2>3. Leftovers'
    BY <2>1, <1>3 DEF Leftovers, Close
  <2> QED BY <1>1, <2>1, <2>2, <2>3 DEF ResultInv, Finding, Output, JoinIsComplete
<1> QED BY <1>2, <1>3

LEMMA ClaimKeepsResult ==
  ASSUME ResultInv, NEW t \in Tasks, Claim(t)
  PROVE  ResultInv'
<1>0. IInv /\ IInv'
  BY ClaimPreserves DEF ResultInv
<1>1. /\ phase' = phase /\ UNCHANGED <<left_tuples, right_tuples, found, output_buffer_, position>>
      /\ phase \in {"build", "probe"} /\ step[t] = "claim"
      /\ next_idx \in Nat \ {0}
  BY <1>0 DEF Claim, inputVars, outputVars, IInv, Types
<1>2. Output' /\ Leftovers'
  BY <1>1 DEF ResultInv, Output, Leftovers, JoinIsComplete
<1>3. CASE phase = "build"
  BY <1>0, <1>1, <1>2, <1>3 DEF ResultInv, Finding
<1>4. CASE phase = "probe"
  <2>1. Size = Len(right_tuples) /\ Len(right_tuples) \in Nat /\ RightIdx' = RightIdx /\ RightIdx \subseteq Nat
    BY <1>0, <1>1, <1>4 DEF Size, IInv, Types, RightIdx
  <2>2. CASE next_idx <= Size
    <3>1. /\ next_idx' = next_idx + 1
          /\ claimed' = [claimed EXCEPT ![t] = next_idx]
          /\ step' = [step EXCEPT ![t] = "work"]
      BY <2>2 DEF Claim
    <3>2. \A u \in Tasks : claimed'[u] = IF u = t THEN next_idx ELSE claimed[u]
      BY <3>1, <1>0 DEF IInv, Types
    <3>3. \A u \in Tasks : step'[u] = "done" => step[u] = "done"
      BY <3>1, <1>0 DEF IInv, Types
    <3>4. claimed[t] = None
      BY <1>0, <1>1 DEF IInv, Claims
    <3>5. ASSUME NEW i \in RightIdx PROVE i \in Probed' <=> i \in Probed
      <4>1. i \in Nat /\ i # None
        BY <2>1 DEF RightIdx, None
      <4>2. i < next_idx' <=> i < next_idx \/ i = next_idx
        BY <3>1, <1>1, <4>1
      <4>3. (\A u \in Tasks : claimed'[u] # i) <=> i # next_idx /\ \A u \in Tasks : claimed[u] # i
        BY <3>2, <3>4, <4>1
      <4>4. i = next_idx => ~(i < next_idx)
        BY <1>1
      <4> QED BY <2>1, <4>2, <4>3, <4>4 DEF Probed
    <3>6. Probed' = Probed
      <4>1. Probed' \subseteq RightIdx /\ Probed \subseteq RightIdx
        BY <2>1 DEF Probed
      <4> QED BY <4>1, <3>5, Zenon
    <3>7. PairsOf(Probed)' = PairsOf(Probed)
      BY <3>6, <1>1 DEF PairsOf, LeftIdx, Matches
    <3>8. \A u \in Tasks : step'[u] = "done" => next_idx' > Len(right_tuples)
      BY <3>1, <3>3, <2>1, <1>1, <1>4 DEF ResultInv, Finding
    <3>9. Finding'
      BY <3>7, <3>8, <1>1, <1>4 DEF ResultInv, Finding
    <3> QED BY <1>0, <1>2, <3>9 DEF ResultInv
  <2>3. CASE ~(next_idx <= Size)
    <3>1. UNCHANGED <<next_idx, claimed>>
      BY <2>3 DEF Claim
    <3>2. PairsOf(Probed)' = PairsOf(Probed)
      BY <3>1, <1>1 DEF PairsOf, Probed, LeftIdx, RightIdx, Matches
    <3>3. next_idx > Len(right_tuples)
      BY <2>1, <2>3, <1>1
    <3>4. Finding'
      BY <3>1, <3>2, <3>3, <1>1, <1>4 DEF ResultInv, Finding
    <3> QED BY <1>0, <1>2, <3>4 DEF ResultInv
  <2> QED BY <2>2, <2>3
<1> QED BY <1>1, <1>3, <1>4

LEMMA BuildKeepsResult ==
  ASSUME ResultInv, NEW t \in Tasks, Build(t)
  PROVE  ResultInv'
<1>1. IInv'
  BY BuildPreserves DEF ResultInv
<1>2. phase = "build" /\ UNCHANGED <<phase, found, output_buffer_, position>>
  BY DEF Build, Worked, outputVars
<1> QED BY <1>1, <1>2 DEF ResultInv, Finding, Output, Leftovers, JoinIsComplete

(* Probe: the task is through with the tuple it held and has found all of  *)
(* its pairs, which nobody else has.                                       *)
LEMMA ProbeKeepsResult ==
  ASSUME ResultInv, NEW t \in Tasks, Probe(t)
  PROVE  ResultInv'
<1> DEFINE c == claimed[t]
<1> DEFINE matches == hash_table_[right_key_(right_tuples[c])]
<1> DEFINE new == [m \in DOMAIN matches |-> <<matches[m], c>>]
<1>0. IInv /\ IInv'
  BY ProbePreserves DEF ResultInv
<1>1. /\ c \in 1..Size /\ c < next_idx
      /\ \A u \in Tasks : claimed'[u] = IF u = t THEN None ELSE claimed[u]
      /\ \A u \in Tasks : step'[u] = "done" => step[u] = "done"
      /\ UNCHANGED <<phase, left_tuples, right_tuples, next_idx>>
  BY <1>0, WorkedClaims, Zenon DEF Probe
<1>2. /\ phase = "probe" /\ UNCHANGED <<output_buffer_, position>>
      /\ found' = [found EXCEPT ![t] = @ \o new]
  BY DEF Probe, Worked, outputVars
<1>3. c \in RightIdx /\ c \in Nat /\ c # None /\ RightIdx' = RightIdx
  BY <1>1, <1>2 DEF Size, RightIdx, None
<1>4. right_key_(right_tuples[c]) \in Key /\ matches \in Seq(Nat)
  BY <1>0, <1>3 DEF IInv, Types, RightIdx
<1>5. /\ IsInjective(matches)
      /\ Range(matches) = {i \in LeftIdx : left_key_(left_tuples[i]) = right_key_(right_tuples[c])}
  BY <1>0, <1>2, <1>4 DEF IInv, Probing, TableHolds
<1>6. Output' /\ Leftovers'
  BY <1>1, <1>2 DEF ResultInv, Output, Leftovers, JoinIsComplete
<1> HIDE DEF c
<1> HIDE DEF matches
<1>7. Range(matches) = {i \in LeftIdx : Matches(i, c)}
  BY <1>5 DEF Matches
<1>8. /\ new \in Seq(Nat \X Nat) /\ IsInjective(new)
      /\ Range(new) = {<<i, c>> : i \in {i \in LeftIdx : Matches(i, c)}}
      /\ \A p \in Range(new) : p[2] = c
  <2>1. /\ new \in Seq(Nat \X Nat) /\ IsInjective(new)
        /\ Range(new) = {<<i, c>> : i \in Range(matches)}
        /\ \A p \in Range(new) : p[2] = c
    BY <1>3, <1>4, <1>5, PairsWith
  <2> HIDE DEF new
  <2> QED BY <2>1, <1>7
<1> HIDE DEF new
<1>9. \A u \in Tasks : \A p \in Range(found[u]) : p[2] # c
  BY <1>0, <1>2 DEF IInv, Probing, c
<1>10. \A u \in Tasks : Range(found[u]) \cap Range(new) = {}
  BY <1>8, <1>9
<1>11. /\ found \in [Tasks -> Seq(Nat \X Nat)]
       /\ \A u \in Tasks : IsInjective(found[u])
       /\ \A u, v \in Tasks : u # v => Range(found[u]) \cap Range(found[v]) = {}
       /\ UNION {Range(found[u]) : u \in Tasks} = PairsOf(Probed)
       /\ \A u \in Tasks : step[u] = "done" => next_idx > Len(right_tuples)
  BY <1>0, <1>2 DEF IInv, Types, ResultInv, Finding
<1>12. /\ Range(found[t] \o new) = Range(found[t]) \cup Range(new)
       /\ IsInjective(found[t] \o new)
  BY <1>8, <1>10, <1>11, ConcatRange
<1>13. \A u \in Tasks : found'[u] = IF u = t THEN found[t] \o new ELSE found[u]
  BY <1>2, <1>11
<1>14. \A u \in Tasks : IsInjective(found'[u])
  BY <1>11, <1>12, <1>13
<1>15. \A u \in Tasks : Range(found'[u]) = IF u = t THEN Range(found[t]) \cup Range(new) ELSE Range(found[u])
  BY <1>12, <1>13
<1>16. ASSUME NEW u \in Tasks, NEW v \in Tasks, u # v
       PROVE  Range(found'[u]) \cap Range(found'[v]) = {}
  <2>1. Range(found[u]) \cap Range(found[v]) = {}
    BY <1>11, <1>16
  <2>2. Range(found[u]) \cap Range(new) = {} /\ Range(found[v]) \cap Range(new) = {}
    BY <1>10
  <2> QED BY <2>1, <2>2, <1>15, <1>16
<1>17. UNION {Range(found'[u]) : u \in Tasks} = PairsOf(Probed) \cup Range(new)
  <2>1. UNION {Range(found'[u]) : u \in Tasks} = (UNION {Range(found[u]) : u \in Tasks}) \cup Range(new)
    BY <1>15
  <2> QED BY <2>1, <1>11
<1>18. Probed' = Probed \cup {c}
  <2>1. ASSUME NEW i \in RightIdx
        PROVE  (\A u \in Tasks : claimed'[u] # i) <=> i = c \/ \A u \in Tasks : claimed[u] # i
    <3>1. i # None
      BY DEF RightIdx, None
    <3>2. \A u \in Tasks : u # t => claimed[u] # c
      BY <1>0, <1>3 DEF c, IInv, Claims
    <3> QED BY <3>1, <3>2, <1>1 DEF c
  <2>2. ASSUME NEW i \in RightIdx PROVE i \in Probed' <=> i \in Probed \/ i = c
    BY <2>1, <2>2, <1>1, <1>3 DEF Probed
  <2>3. Probed' \subseteq RightIdx /\ Probed \subseteq RightIdx
    BY <1>3 DEF Probed
  <2> QED BY <2>2, <2>3, <1>3, Zenon
<1>19. PairsOf(Probed)' = PairsOf(Probed) \cup Range(new)
  <2>1. LeftIdx' = LeftIdx /\ \A i, j : Matches(i, j)' <=> Matches(i, j)
    BY <1>1 DEF LeftIdx, Matches
  <2>2. PairsOf(Probed)' = {p \in LeftIdx \X (Probed \cup {c}) : Matches(p[1], p[2])}
    BY <1>1, <1>18 DEF PairsOf, LeftIdx, Matches
  <2>3. \A p \in LeftIdx \X {c} : Matches(p[1], p[2]) <=> p \in Range(new)
    BY <1>8
  <2>4. Range(new) \subseteq LeftIdx \X {c}
    BY <1>8
  <2> QED BY <2>2, <2>3, <2>4 DEF PairsOf
<1>20. Finding'
  BY <1>1, <1>2, <1>11, <1>14, <1>16, <1>17, <1>19 DEF Finding
<1> QED BY <1>0, <1>6, <1>20 DEF ResultInv

LEMMA NextKeepsResult ==
  ASSUME JoinAssumption, ResultInv, [Next]_vars
  PROVE  ResultInv'
<1>1. CASE UNCHANGED vars
  <2>1. IInv'
    BY <1>1, NextPreserves DEF ResultInv
  <2>2. /\ UNCHANGED <<phase, left_tuples, right_tuples, next_idx, step, claimed, hash_table_>>
        /\ UNCHANGED <<found, output_buffer_, position>>
    BY <1>1 DEF vars, inputVars, taskVars, outputVars
  <2>3. PairsOf(Probed)' = PairsOf(Probed)
    BY <2>2 DEF PairsOf, Probed, LeftIdx, RightIdx, Matches
  <2>4. Finding'
    BY <2>2, <2>3 DEF ResultInv, Finding
  <2>5. JoinIsComplete'
    BY <2>2 DEF ResultInv, Output, JoinIsComplete, LeftIdx, RightIdx, Matches
  <2>6. Leftovers'
    BY <2>2 DEF ResultInv, Leftovers, LeftIdx, RightIdx
  <2> QED BY <2>1, <2>2, <2>4, <2>5, <2>6 DEF ResultInv, Output
<1>2. ASSUME NEW t \in Tasks, TaskStep(t) PROVE ResultInv'
  BY <1>2, ClaimKeepsResult, BuildKeepsResult, ProbeKeepsResult DEF TaskStep
<1> QED BY <1>1, <1>2, StartBuildKeepsResult, StartProbeKeepsResult, MergeKeepsResult,
           ReadingKeepsResult DEF Next

(* ResultInv holds in every state of the join. *)
THEOREM JoinResultInvariant == ASSUME JoinAssumption PROVE Spec => []ResultInv
<1>1. ResultInv /\ [Next]_vars => ResultInv'
  BY NextKeepsResult
<1> QED BY <1>1, ResultInit, PTL DEF Spec

(* "EXPECT_EQ(count, N / 2)" (test/concurrency_test.cpp:181), for every    *)
(* number of threads and all inputs: when Init has returned, the result    *)
(* holds each pair of a left and a right tuple with equal keys once.       *)
THEOREM JoinFindsAll == ASSUME JoinAssumption PROVE Spec => []JoinIsComplete
<1>1. ResultInv => JoinIsComplete
  BY DEF ResultInv, Output
<1> QED BY <1>1, JoinResultInvariant, PTL

(* Claims, table entries and pairs always refer to tuples of the inputs.   *)
LEMMA JoinTypes == ResultInv => TypeOK
<1> SUFFICES ASSUME ResultInv PROVE TypeOK
  OBVIOUS
<1>1. Types /\ Claims /\ Building /\ Probing /\ Finding /\ Output /\ Leftovers
  BY DEF ResultInv, IInv
<1>2. claimed \in [Tasks -> LeftIdx \cup RightIdx \cup {None}]
  <2> SUFFICES ASSUME NEW t \in Tasks PROVE claimed[t] \in LeftIdx \cup RightIdx \cup {None}
    BY <1>1 DEF Types
  <2>1. CASE phase \in {"closed", "open"}
    BY <1>1, <2>1 DEF Claims
  <2>2. CASE phase \in {"build", "probe"}
    <3>1. claimed[t] \in Nat /\ claimed[t] <= Size /\ Size \in Nat
      BY <1>1, <2>2 DEF Claims, Types, Size
    <3>2. claimed[t] = 0 \/ claimed[t] \in 1..Size
      BY <3>1
    <3> QED BY <3>2 DEF Size, LeftIdx, RightIdx, None
  <2> QED BY <1>1, <2>1, <2>2 DEF Types
<1>4. hash_table_ \in [Key -> Seq(LeftIdx)]
  <2> SUFFICES ASSUME NEW k \in Key PROVE hash_table_[k] \in Seq(LeftIdx)
    BY <1>1 DEF Types
  <2>1. hash_table_[k] \in Seq(Nat)
    BY <1>1 DEF Types
  <2>2. Range(hash_table_[k]) \subseteq LeftIdx
    <3>1. CASE phase = "closed"
      BY <1>1, <3>1, EmptyTableHolds DEF Leftovers
    <3>2. CASE phase = "build"
      BY <1>1, <3>2 DEF Building, TableHolds, Built
    <3>3. CASE phase \in {"probe", "open"}
      BY <1>1, <3>3 DEF Probing, TableHolds
    <3> QED BY <1>1, <3>1, <3>2, <3>3 DEF Types
  <2> QED BY <2>1, <2>2, RangeType
<1>5. found \in [Tasks -> Seq(LeftIdx \X RightIdx)]
  <2> SUFFICES ASSUME NEW t \in Tasks PROVE found[t] \in Seq(LeftIdx \X RightIdx)
    BY <1>1 DEF Types
  <2>1. found[t] \in Seq(Nat \X Nat)
    BY <1>1 DEF Types
  <2>2. Range(found[t]) \subseteq LeftIdx \X RightIdx
    <3>1. CASE phase \in {"closed", "build"}
      <4>1. found[t] = << >>
        BY <1>1, <3>1 DEF Leftovers
      <4> QED BY <4>1 DEF Range
    <3>2. CASE phase = "probe"
      BY <1>1, <3>2 DEF Finding, PairsOf, Probed
    <3>3. CASE phase = "open"
      BY <1>1, <3>3 DEF Leftovers
    <3> QED BY <1>1, <3>1, <3>2, <3>3 DEF Types
  <2> QED BY <2>1, <2>2, RangeType
<1>6. output_buffer_ \in Seq(LeftIdx \X RightIdx)
  <2>1. CASE phase = "open"
    <3>1. Range(output_buffer_) \subseteq LeftIdx \X RightIdx
      BY <1>1, <2>1 DEF Output, JoinIsComplete
    <3> QED BY <3>1, <1>1, RangeType DEF Output
  <2>2. CASE phase # "open"
    BY <1>1, <2>2 DEF Output
  <2> QED BY <2>1, <2>2
<1> QED BY <1>1, <1>2, <1>4, <1>5, <1>6 DEF TypeOK, Types, Output
==============================================================================
