----------------------- MODULE LockFreeHashTableProofs -----------------------
(***************************************************************************)
(* Proofs about the lock-free hash table, for every number of threads,     *)
(* nodes, keys and buckets: inserts that race for a head are not lost and  *)
(* make no cycle, every node has one owner, and a node in a bucket never   *)
(* changes.                                                                *)
(***************************************************************************)
EXTENDS LockFreeHashTable, QueueLemmas

(* A thread that inserts owns the node it inserts, and once it has stored  *)
(* next there, next is the head it will compare with.                      *)
InsertersOwn ==
  \A t \in Inserting :
    /\ node[t] \in Node /\ key[node[t]] \in Key /\ node[t] \notin InTable
    /\ \A u \in Inserting : u # t => node[u] # node[t]
    /\ pc[t] = "exchange" => next[node[t]] = cur[t]

(* s is what is left of the list that Clear deletes. *)
Doomed(t, s) ==
  /\ IsInjective(s) /\ Linked(s)
  /\ cur[t] = IF s = << >> THEN Null ELSE s[1]
  /\ Range(s) \cap InTable = {} /\ Allocated = InTable \cup Range(s)

ClearIsAlone ==
  \A t \in Threads : pc[t] = "clear" =>
    /\ \A u \in Threads : u # t => pc[u] = "idle"
    /\ \A b \in Buckets : b < bucket => chain[b] = << >>
    /\ \E s \in Seq(Node) : Doomed(t, s)

Accounted == ~Clearing => Allocated = InTable \cup {node[t] : t \in Inserting}

IdleHasNoNode == \A t \in Threads : pc[t] \in {"idle", "load"} => cur[t] = Null

IInv ==
  /\ TypeOK /\ ChainsAreLists /\ InsertersOwn
  /\ ClearIsAlone /\ Accounted /\ IdleHasNoNode
-----------------------------------------------------------------------------
LEMMA InitHolds == Init => IInv
<1> SUFFICES ASSUME Init PROVE IInv
  OBVIOUS
<1>1. TypeOK
  BY TableAssumption DEF Init, TypeOK, Pointer, Buckets
<1>2. ChainsAreLists
  BY DEF Init, ChainsAreLists, Linked, IsInjective, Range
<1>3. Inserting = {} /\ InTable = {} /\ Allocated = {}
  BY DEF Init, Inserting, InTable, Allocated, Range
<1>4. InsertersOwn /\ Accounted
  BY <1>3 DEF InsertersOwn, Accounted
<1>5. ClearIsAlone /\ IdleHasNoNode
  BY DEF Init, ClearIsAlone, IdleHasNoNode
<1> QED BY <1>1, <1>2, <1>4, <1>5 DEF IInv

(* The nodes in the buckets hold keys. *)
LEMMA InTableHoldsKeys ==
  ASSUME IInv, NEW n \in InTable
  PROVE  n \in Node /\ key[n] \in Key /\ n \in Allocated
<1>1. PICK b \in Buckets : n \in Range(chain[b])
  BY DEF InTable
<1>2. key[n] \in Key
  BY <1>1 DEF IInv, ChainsAreLists
<1>3. chain[b] \in Seq(Node)
  BY DEF IInv, TypeOK
<1>4. n \in Node
  BY <1>1, <1>3 DEF Range
<1> QED BY <1>2, <1>4, TableAssumption DEF Allocated

(* The list of a bucket depends on the fields of its own nodes only.       *)
LEMMA ChainsStay ==
  ASSUME IInv, UNCHANGED <<buckets_, chain>>,
         \A n \in InTable : key'[n] = key[n] /\ next'[n] = next[n]
  PROVE  ChainsAreLists' /\ InTable' = InTable
<1>1. InTable' = InTable
  BY DEF InTable
<1>2. ASSUME NEW b \in Buckets
      PROVE  /\ buckets_'[b] = IF chain'[b] = << >> THEN Null ELSE chain'[b][1]
             /\ Linked(chain[b])' /\ IsInjective(chain'[b])
             /\ \A n \in Range(chain'[b]) : key'[n] \in Key /\ Hash[key'[n]] = b
  <2>1. /\ buckets_[b] = IF chain[b] = << >> THEN Null ELSE chain[b][1]
        /\ Linked(chain[b]) /\ IsInjective(chain[b])
        /\ \A n \in Range(chain[b]) : key[n] \in Key /\ Hash[key[n]] = b
    BY DEF IInv, ChainsAreLists
  <2>2. \A n \in Range(chain[b]) : key'[n] = key[n] /\ next'[n] = next[n]
    BY DEF InTable
  <2>3. \A i \in DOMAIN chain[b] : chain[b][i] \in Range(chain[b])
    BY DEF Range
  <2>4. Linked(chain[b])'
    BY <2>1, <2>2, <2>3 DEF Linked
  <2> QED BY <2>1, <2>2, <2>4
<1> QED BY <1>1, <1>2 DEF ChainsAreLists

(* While a thread is not idle, nobody clears the table but that thread.    *)
LEMMA BusyMeansNotClearing ==
  ASSUME IInv, NEW t \in Threads, pc[t] \notin {"idle", "clear"}
  PROVE  ~Clearing
BY DEF IInv, ClearIsAlone, Clearing
-----------------------------------------------------------------------------
(* Insert: the thread owns a node that nobody owned.                       *)
LEMMA InsertPreserves ==
  ASSUME IInv, NEW t \in Threads, NEW n \in Node, NEW k \in Key, Insert(t, n, k)
  PROVE  IInv'
<1>1. /\ pc[t] = "idle" /\ ~Clearing /\ key[n] = NoKey
      /\ key' = [key EXCEPT ![n] = k] /\ next' = [next EXCEPT ![n] = Null]
      /\ node' = [node EXCEPT ![t] = n] /\ pc' = [pc EXCEPT ![t] = "load"]
      /\ UNCHANGED <<buckets_, cur, want, out, start, bucket, chain>>
  BY DEF Insert, Goto, lookupVars
<1>2. TypeOK'
  BY <1>1 DEF IInv, TypeOK, Pointer
<1>3. n \notin InTable /\ n \notin Allocated
  BY <1>1, InTableHoldsKeys DEF Allocated
<1>4. /\ \A m \in Node : key'[m] = IF m = n THEN k ELSE key[m]
      /\ \A m \in Node : next'[m] = IF m = n THEN Null ELSE next[m]
  BY <1>1 DEF IInv, TypeOK
<1>5. /\ \A u \in Threads : pc'[u] = IF u = t THEN "load" ELSE pc[u]
      /\ \A u \in Threads : node'[u] = IF u = t THEN n ELSE node[u]
  BY <1>1 DEF IInv, TypeOK
<1>6. ChainsAreLists' /\ InTable' = InTable
  BY <1>1, <1>3, <1>4, InTableHoldsKeys, ChainsStay
<1>7. Allocated' = Allocated \cup {n}
  BY <1>4, TableAssumption DEF Allocated
<1>8. Inserting' = Inserting \cup {t} /\ t \notin Inserting
  BY <1>1, <1>5 DEF Inserting
<1>9. \A u \in Inserting : node[u] # n
  BY <1>1, TableAssumption DEF IInv, InsertersOwn
<1>10. InsertersOwn'
  <2> SUFFICES ASSUME NEW u \in Inserting'
      PROVE  /\ node'[u] \in Node /\ key'[node'[u]] \in Key /\ node'[u] \notin InTable'
             /\ \A v \in Inserting' : v # u => node'[v] # node'[u]
             /\ pc'[u] = "exchange" => next'[node'[u]] = cur'[u]
    BY DEF InsertersOwn
  <2>0. \A v \in Inserting' : v \in Threads /\ (v = t \/ v \in Inserting)
    BY <1>8 DEF Inserting
  <2>1. CASE u = t
    BY <2>0, <2>1, <1>3, <1>4, <1>5, <1>6, <1>9
  <2>2. CASE u # t
    <3>1. /\ u \in Inserting /\ node'[u] = node[u] /\ pc'[u] = pc[u] /\ node[u] # n
      BY <2>0, <2>2, <1>5, <1>9
    <3>2. /\ node[u] \in Node /\ key[node[u]] \in Key /\ node[u] \notin InTable
          /\ \A v \in Inserting : v # u => node[v] # node[u]
          /\ pc[u] = "exchange" => next[node[u]] = cur[u]
      BY <3>1 DEF IInv, InsertersOwn
    <3>3. \A v \in Inserting' : v # u => node'[v] # node'[u]
      BY <2>0, <3>1, <3>2, <1>5
    <3> QED BY <3>1, <3>2, <3>3, <1>1, <1>4, <1>6
  <2> QED BY <2>1, <2>2
<1>11. ClearIsAlone'
  BY <1>1, <1>5 DEF Clearing, ClearIsAlone
<1>12. Accounted'
  <2>1. {node'[u] : u \in Inserting'} = {node[u] : u \in Inserting} \cup {n}
    BY <1>5, <1>8 DEF Inserting
  <2> QED BY <2>1, <1>1, <1>6, <1>7 DEF IInv, Accounted
<1>13. IdleHasNoNode'
  BY <1>1, <1>5 DEF IInv, IdleHasNoNode
<1> QED BY <1>2, <1>6, <1>10, <1>11, <1>12, <1>13 DEF IInv

(* A step that changes no node and nobody's ownership.                     *)
LEMMA LocalStepPreserves ==
  ASSUME IInv, TypeOK', UNCHANGED <<buckets_, key, next, chain, node, bucket>>,
         NEW t \in Threads, NEW l \in {"idle", "store", "walk"}, pc' = [pc EXCEPT ![t] = l],
         ~Clearing, (pc[t] \in {"load", "store", "exchange"}) <=> l = "store",
         \A u \in Threads : u # t => cur'[u] = cur[u],
         l = "idle" => cur'[t] = Null
  PROVE  IInv'
<1>1. \A u \in Threads : pc'[u] = IF u = t THEN l ELSE pc[u]
  BY DEF IInv, TypeOK
<1>2. ChainsAreLists' /\ InTable' = InTable
  BY ChainsStay
<1>3. Allocated' = Allocated
  BY DEF Allocated
<1>4. Inserting' = Inserting
  BY <1>1 DEF Inserting
<1>5. ~Clearing' /\ ClearIsAlone'
  BY <1>1 DEF Clearing, ClearIsAlone
<1>6. InsertersOwn'
  <2>1. \A u \in Inserting : pc'[u] = "exchange" => u \in Threads /\ pc[u] = "exchange" /\ cur'[u] = cur[u]
    BY <1>1 DEF Inserting
  <2> QED BY <2>1, <1>2, <1>4 DEF IInv, InsertersOwn
<1>7. Accounted'
  BY <1>2, <1>3, <1>4, <1>5 DEF IInv, Accounted
<1>8. IdleHasNoNode'
  BY <1>1 DEF IInv, IdleHasNoNode
<1> QED BY <1>2, <1>5, <1>6, <1>7, <1>8 DEF IInv

(* The head that an insert reads, first or after a failed exchange.        *)
LEMMA ReadHeadPreserves ==
  ASSUME IInv, NEW t \in Threads, LoadHead(t) \/ ExchangeFails(t)
  PROVE  IInv'
<1>1. /\ pc[t] \in {"load", "exchange"} /\ pc' = [pc EXCEPT ![t] = "store"]
      /\ cur' = [cur EXCEPT ![t] = buckets_[idx(t)]]
      /\ UNCHANGED <<buckets_, key, next, chain, node, bucket, want, out, start>>
  BY DEF LoadHead, ExchangeFails, HeadAfterFailure, Goto, nodeVars, lookupVars
<1>2. t \in Inserting /\ idx(t) \in Buckets
  BY <1>1, TableAssumption DEF Inserting, idx, IInv, InsertersOwn
<1>3. TypeOK'
  BY <1>1, <1>2 DEF IInv, TypeOK
<1>4. \A u \in Threads : u # t => cur'[u] = cur[u]
  BY <1>1 DEF IInv, TypeOK
<1>5. ~Clearing
  BY <1>1, BusyMeansNotClearing
<1> QED BY <1>1, <1>3, <1>4, <1>5, LocalStepPreserves

LEMMA LookupPreserves ==
  ASSUME IInv, NEW t \in Threads, NEW k \in Key, Lookup(t, k)
  PROVE  IInv'
<1>1. /\ pc[t] = "idle" /\ ~Clearing /\ pc' = [pc EXCEPT ![t] = "walk"]
      /\ cur' = [cur EXCEPT ![t] = buckets_[Hash[k]]]
      /\ want' = [want EXCEPT ![t] = k] /\ out' = [out EXCEPT ![t] = << >>]
      /\ start' = [start EXCEPT ![t] = chain[Hash[k]]]
      /\ UNCHANGED <<buckets_, key, next, chain, node, bucket>>
  BY DEF Lookup, Goto, nodeVars
<1>2. Hash[k] \in Buckets
  BY TableAssumption
<1>3. TypeOK'
  BY <1>1, <1>2 DEF IInv, TypeOK
<1>4. \A u \in Threads : u # t => cur'[u] = cur[u]
  BY <1>1 DEF IInv, TypeOK
<1> QED BY <1>1, <1>3, <1>4, LocalStepPreserves

LEMMA WalkPreserves ==
  ASSUME IInv, NEW t \in Threads, Visit(t) \/ Return(t)
  PROVE  IInv'
<1>1. ~Clearing
  BY BusyMeansNotClearing DEF Visit, Return
<1>2. CASE Visit(t)
  <2>1. /\ pc[t] = "walk" /\ cur[t] # Null /\ pc' = pc
        /\ cur' = [cur EXCEPT ![t] = next[cur[t]]]
        /\ out' = [out EXCEPT ![t] = IF key[cur[t]] = want[t] THEN Append(@, cur[t]) ELSE @]
        /\ UNCHANGED <<buckets_, key, next, chain, node, bucket, want, start>>
    BY <1>2 DEF Visit, Following, nodeVars
  <2>2. cur[t] \in Node /\ out[t] \in Seq(Node)
    BY <2>1 DEF IInv, TypeOK, Pointer
  <2>3. out' \in [Threads -> Seq(Node)]
    BY <2>1, <2>2 DEF IInv, TypeOK
  <2>4. cur' \in [Threads -> Pointer]
    BY <2>1, <2>2 DEF IInv, TypeOK
  <2>5. TypeOK'
    BY <2>1, <2>3, <2>4 DEF IInv, TypeOK
  <2>6. pc' = [pc EXCEPT ![t] = "walk"] /\ \A u \in Threads : u # t => cur'[u] = cur[u]
    BY <2>1 DEF IInv, TypeOK
  <2> QED BY <2>1, <2>5, <2>6, <1>1, LocalStepPreserves
<1>3. CASE Return(t)
  <2>1. /\ pc[t] = "walk" /\ cur[t] = Null /\ pc' = [pc EXCEPT ![t] = "idle"] /\ cur' = cur
        /\ want' = [want EXCEPT ![t] = NoKey] /\ out' = [out EXCEPT ![t] = << >>]
        /\ start' = [start EXCEPT ![t] = << >>]
        /\ UNCHANGED <<buckets_, key, next, chain, node, bucket>>
    BY <1>3 DEF Return, Goto, nodeVars
  <2>2. TypeOK'
    BY <2>1 DEF IInv, TypeOK
  <2> QED BY <2>1, <2>2, <1>1, LocalStepPreserves
<1> QED BY <1>2, <1>3

(* StoreNext writes to a node of the thread's own.                         *)
LEMMA StoreNextPreserves ==
  ASSUME IInv, NEW t \in Threads, StoreNext(t)
  PROVE  IInv'
<1>1. /\ pc[t] = "store" /\ pc' = [pc EXCEPT ![t] = "exchange"]
      /\ next' = [next EXCEPT ![node[t]] = cur[t]]
      /\ UNCHANGED <<buckets_, key, chain, node, cur, want, out, start, bucket>>
  BY DEF StoreNext, Goto, lookupVars
<1>2. /\ t \in Inserting /\ node[t] \in Node /\ node[t] \notin InTable
      /\ \A u \in Inserting : u # t => node[u] # node[t]
  BY <1>1 DEF Inserting, IInv, InsertersOwn
<1>3. TypeOK'
  BY <1>1, <1>2 DEF IInv, TypeOK
<1>4. /\ \A m \in Node : next'[m] = IF m = node[t] THEN cur[t] ELSE next[m]
      /\ \A u \in Threads : pc'[u] = IF u = t THEN "exchange" ELSE pc[u]
  BY <1>1, <1>2 DEF IInv, TypeOK
<1>5. ChainsAreLists' /\ InTable' = InTable
  BY <1>1, <1>2, <1>4, InTableHoldsKeys, ChainsStay
<1>6. Allocated' = Allocated /\ Inserting' = Inserting
  BY <1>1, <1>4 DEF Allocated, Inserting
<1>7. InsertersOwn'
  <2>1. ASSUME NEW u \in Inserting, pc'[u] = "exchange"
        PROVE  next'[node[u]] = cur[u]
    <3>1. u \in Threads /\ node[u] \in Node
      BY DEF Inserting, IInv, InsertersOwn
    <3>2. u # t => pc[u] = "exchange" /\ next[node[u]] = cur[u] /\ node[u] # node[t]
      BY <2>1, <3>1, <1>2, <1>4 DEF IInv, InsertersOwn
    <3> QED BY <3>1, <3>2, <1>4
  <2> QED BY <2>1, <1>1, <1>5, <1>6 DEF IInv, InsertersOwn
<1>8. ~Clearing
  BY <1>1, BusyMeansNotClearing
<1>9. ~Clearing' /\ ClearIsAlone'
  BY <1>4, <1>8 DEF Clearing, ClearIsAlone
<1>10. Accounted'
  BY <1>1, <1>5, <1>6, <1>8 DEF IInv, Accounted
<1>11. IdleHasNoNode'
  BY <1>1, <1>4 DEF IInv, IdleHasNoNode
<1> QED BY <1>3, <1>5, <1>7, <1>9, <1>10, <1>11 DEF IInv

(* A node is linked before a list by its next.                             *)
LEMMA LinkedPushFront ==
  ASSUME NEW s \in Seq(Node), Linked(s), NEW n \in Node,
         next[n] = IF s = << >> THEN Null ELSE s[1]
  PROVE  Linked(<<n>> \o s)
<1>1. /\ Len(<<n>> \o s) = Len(s) + 1 /\ DOMAIN (<<n>> \o s) = 1..(Len(s) + 1)
      /\ Len(s) \in Nat /\ DOMAIN s = 1..Len(s) /\ (s = << >> <=> Len(s) = 0)
      /\ (<<n>> \o s)[1] = n /\ \A i \in 2..(Len(s) + 1) : (<<n>> \o s)[i] = s[i - 1]
  OBVIOUS
<1> DEFINE l == <<n>> \o s
<1> HIDE DEF l
<1>2. ASSUME NEW i \in DOMAIN l PROVE next[l[i]] = IF i = Len(l) THEN Null ELSE l[i + 1]
  <2>1. i \in 1..(Len(s) + 1)
    BY <1>1 DEF l
  <2>2. CASE i = 1
    BY <2>2, <1>1 DEF l
  <2>3. CASE i # 1
    <3>1. i - 1 \in DOMAIN s /\ l[i] = s[i - 1] /\ i \in Nat
      BY <2>1, <2>3, <1>1 DEF l
    <3>2. next[s[i - 1]] = IF i - 1 = Len(s) THEN Null ELSE s[i - 1 + 1]
      BY <3>1 DEF Linked
    <3>3. i - 1 # Len(s) => l[i + 1] = s[i]
      BY <2>1, <2>3, <1>1 DEF l
    <3> QED BY <3>1, <3>2, <3>3, <1>1 DEF l
  <2> QED BY <2>2, <2>3
<1> QED BY <1>2 DEF Linked, l

(* ExchangeSucceeds: the head is the one next was set to, so the node goes *)
(* before the whole list.                                                  *)
LEMMA ExchangePreserves ==
  ASSUME IInv, NEW t \in Threads, ExchangeSucceeds(t)
  PROVE  IInv' /\ InTable' = InTable \cup {node[t]}
<1> DEFINE b == idx(t)
<1> DEFINE n == node[t]
<1>1. /\ pc[t] = "exchange" /\ buckets_[b] = cur[t] /\ pc' = [pc EXCEPT ![t] = "idle"]
      /\ buckets_' = [buckets_ EXCEPT ![b] = n]
      /\ chain' = [chain EXCEPT ![b] = <<n>> \o @]
      /\ node' = [node EXCEPT ![t] = Null] /\ cur' = [cur EXCEPT ![t] = Null]
      /\ UNCHANGED <<key, next, want, out, start, bucket>>
  BY DEF ExchangeSucceeds, HeadIsExpected, Goto, lookupVars
<1>2. /\ t \in Inserting /\ n \in Node /\ key[n] \in Key /\ n \notin InTable
      /\ \A u \in Inserting : u # t => node[u] # n
      /\ next[n] = cur[t]
  BY <1>1 DEF Inserting, IInv, InsertersOwn
<1>3. b \in Buckets /\ Hash[key[n]] = b
  BY <1>2, TableAssumption DEF idx
<1> HIDE DEF b, n
<1>4. chain \in [Buckets -> Seq(Node)]
  BY DEF IInv, TypeOK
<1>5. /\ buckets_[b] = IF chain[b] = << >> THEN Null ELSE chain[b][1]
      /\ Linked(chain[b]) /\ IsInjective(chain[b])
      /\ \A m \in Range(chain[b]) : key[m] \in Key /\ Hash[key[m]] = b
  BY <1>3 DEF IInv, ChainsAreLists
<1>6. n \notin Range(chain[b])
  BY <1>2, <1>3 DEF InTable
<1>7. /\ <<n>> \o chain[b] \in Seq(Node) /\ IsInjective(<<n>> \o chain[b])
      /\ Range(<<n>> \o chain[b]) = Range(chain[b]) \cup {n}
  BY <1>2, <1>3, <1>4, <1>5, <1>6, PushFrontProperties
<1>8. Linked(<<n>> \o chain[b])
  BY <1>1, <1>2, <1>3, <1>4, <1>5, LinkedPushFront
<1>9. /\ <<n>> \o chain[b] # << >> /\ (<<n>> \o chain[b])[1] = n
  BY <1>3, <1>4
<1> DEFINE l == <<n>> \o chain[b]
<1> HIDE DEF l
<1>10. /\ chain' \in [Buckets -> Seq(Node)]
       /\ \A c \in Buckets : chain'[c] = IF c = b THEN l ELSE chain[c]
  BY <1>1, <1>3, <1>4, <1>7 DEF l
<1>11. \A c \in Buckets : buckets_'[c] = IF c = b THEN n ELSE buckets_[c]
  BY <1>1, <1>3 DEF IInv, TypeOK
<1>12. TypeOK'
  <2>1. buckets_' \in [Buckets -> Pointer]
    BY <1>1, <1>2, <1>3 DEF IInv, TypeOK, Pointer
  <2>2. /\ pc' \in [Threads -> {"idle", "load", "store", "exchange", "walk", "clear"}]
        /\ node' \in [Threads -> Pointer] /\ cur' \in [Threads -> Pointer]
    BY <1>1 DEF IInv, TypeOK, Pointer
  <2> QED BY <2>1, <2>2, <1>1, <1>10 DEF IInv, TypeOK
<1>13. ChainsAreLists'
  <2> SUFFICES ASSUME NEW c \in Buckets
      PROVE  /\ buckets_'[c] = IF chain'[c] = << >> THEN Null ELSE chain'[c][1]
             /\ Linked(chain[c])' /\ IsInjective(chain'[c])
             /\ \A m \in Range(chain'[c]) : key'[m] \in Key /\ Hash[key'[m]] = c
    BY DEF ChainsAreLists
  <2>1. CASE c = b
    <3>1. chain'[c] = l /\ buckets_'[c] = n
      BY <2>1, <1>10, <1>11
    <3>2. Linked(chain[c])'
      <4>1. Linked(l) /\ next' = next
        BY <1>1, <1>8 DEF l
      <4> QED BY <4>1, <3>1 DEF Linked
    <3>3. \A m \in Range(l) : key[m] \in Key /\ Hash[key[m]] = c
      BY <2>1, <1>2, <1>3, <1>5, <1>7 DEF l
    <3> QED BY <3>1, <3>2, <3>3, <1>1, <1>7, <1>9 DEF l
  <2>2. CASE c # b
    <3>1. chain'[c] = chain[c] /\ buckets_'[c] = buckets_[c]
      BY <2>2, <1>10, <1>11
    <3> QED BY <3>1, <1>1 DEF IInv, ChainsAreLists, Linked
  <2> QED BY <2>1, <2>2
<1>14. InTable' = InTable \cup {n}
  <2>1. \A c \in Buckets : Range(chain'[c]) = IF c = b THEN Range(chain[b]) \cup {n} ELSE Range(chain[c])
    BY <1>7, <1>10 DEF l
  <2> QED BY <2>1, <1>3 DEF InTable
<1>15. /\ \A u \in Threads : pc'[u] = IF u = t THEN "idle" ELSE pc[u]
       /\ \A u \in Threads : u # t => node'[u] = node[u] /\ cur'[u] = cur[u]
       /\ cur'[t] = Null
  BY <1>1 DEF IInv, TypeOK
<1>16. Inserting' = Inserting \ {t}
  BY <1>15 DEF Inserting
<1>17. InsertersOwn'
  <2>1. \A u \in Inserting' : /\ u \in Inserting /\ u \in Threads /\ u # t
                              /\ node'[u] = node[u] /\ cur'[u] = cur[u] /\ pc'[u] = pc[u]
    BY <1>15, <1>16 DEF Inserting
  <2> QED BY <2>1, <1>1, <1>2, <1>14 DEF IInv, InsertersOwn
<1>18. ~Clearing
  BY <1>1, BusyMeansNotClearing
<1>19. ClearIsAlone'
  BY <1>15, <1>18 DEF Clearing, ClearIsAlone
<1>20. Accounted'
  <2>1. {node'[u] : u \in Inserting'} \cup {n} = {node[u] : u \in Inserting}
    BY <1>2, <1>15, <1>16 DEF Inserting, n
  <2>2. Allocated' = Allocated
    BY <1>1 DEF Allocated
  <2> QED BY <2>1, <2>2, <1>14, <1>18 DEF IInv, Accounted
<1>21. IdleHasNoNode'
  BY <1>15 DEF IInv, IdleHasNoNode
<1> QED BY <1>12, <1>13, <1>14, <1>17, <1>19, <1>20, <1>21 DEF IInv, n
-----------------------------------------------------------------------------
(* While a thread clears, the others are idle and nobody inserts.          *)
LEMMA OnlyOneClears ==
  ASSUME IInv, NEW t \in Threads, pc[t] = "clear"
  PROVE  /\ Inserting = {} /\ \A u \in Threads : u # t => pc[u] = "idle"
         /\ Clearing
BY DEF IInv, ClearIsAlone, Inserting, Clearing

(* What the steps of Clear have in common. *)
LEMMA ClearStepPreserves ==
  ASSUME IInv, TypeOK', ChainsAreLists', NEW t \in Threads, pc[t] = "clear", pc' = pc,
         \A u \in Threads : u # t => cur'[u] = cur[u],
         \A b \in Buckets : b < bucket' => chain'[b] = << >>,
         \E s \in Seq(Node) : Doomed(t, s)'
  PROVE  IInv'
<1>1. Inserting = {} /\ Clearing /\ \A u \in Threads : u # t => pc[u] = "idle"
  BY OnlyOneClears
<1>2. Inserting' = {} /\ Clearing'
  BY <1>1 DEF Inserting, Clearing
<1>3. ClearIsAlone'
  BY <1>1 DEF ClearIsAlone
<1>4. IdleHasNoNode'
  BY DEF IInv, IdleHasNoNode
<1> QED BY <1>2, <1>3, <1>4 DEF IInv, InsertersOwn, Accounted

LEMMA StartClearPreserves ==
  ASSUME IInv, NEW t \in Threads, Clear(t)
  PROVE  IInv'
<1>1. /\ \A u \in Threads : pc[u] = "idle"
      /\ bucket' = 0 /\ pc' = [pc EXCEPT ![t] = "clear"]
      /\ UNCHANGED <<buckets_, key, next, chain, node, cur, want, out, start>>
  BY DEF Clear, Goto, nodeVars, lookupVars
<1>2. TypeOK'
  BY <1>1, TableAssumption DEF IInv, TypeOK
<1>3. \A u \in Threads : pc'[u] = IF u = t THEN "clear" ELSE "idle"
  BY <1>1 DEF IInv, TypeOK
<1>4. ChainsAreLists' /\ InTable' = InTable
  BY <1>1, ChainsStay
<1>5. Inserting = {} /\ Inserting' = {} /\ ~Clearing /\ Clearing'
  BY <1>1, <1>3 DEF Inserting, Clearing
<1>6. Allocated' = InTable'
  BY <1>1, <1>4, <1>5 DEF IInv, Accounted, Allocated
<1>7. Doomed(t, << >>)'
  <2>1. IsInjective(<< >>) /\ Linked(<< >>)' /\ Range(<< >>) = {}
    BY DEF IsInjective, Linked, Range
  <2>2. cur'[t] = Null
    BY <1>1 DEF IInv, IdleHasNoNode
  <2> QED BY <2>1, <2>2, <1>6 DEF Doomed
<1>8. << >> \in Seq(Node)
  OBVIOUS
<1>9. \A b \in Buckets : ~(b < bucket')
  BY <1>1 DEF Buckets
<1>10. ClearIsAlone'
  BY <1>3, <1>7, <1>8, <1>9 DEF ClearIsAlone
<1>11. IdleHasNoNode'
  BY <1>1, <1>3 DEF IInv, IdleHasNoNode
<1> QED BY <1>2, <1>4, <1>5, <1>10, <1>11 DEF IInv, InsertersOwn, Accounted

(* TakeBucket: what is left to delete is the list of the bucket.           *)
LEMMA TakeBucketPreserves ==
  ASSUME IInv, NEW t \in Threads, TakeBucket(t)
  PROVE  IInv'
<1>1. /\ pc[t] = "clear" /\ cur[t] = Null /\ bucket < bucket_count_
      /\ cur' = [cur EXCEPT ![t] = buckets_[bucket]]
      /\ buckets_' = [buckets_ EXCEPT ![bucket] = Null]
      /\ chain' = [chain EXCEPT ![bucket] = << >>]
      /\ bucket' = bucket + 1
      /\ UNCHANGED <<key, next, pc, node, want, out, start>>
  BY DEF TakeBucket, NextBucket, lookupVars
<1>2. bucket \in Buckets /\ bucket' \in 0..bucket_count_
  BY <1>1, TableAssumption DEF IInv, TypeOK, Buckets
<1>3. TypeOK'
  <2>1. /\ cur' \in [Threads -> Pointer] /\ buckets_' \in [Buckets -> Pointer]
    BY <1>1, <1>2 DEF IInv, TypeOK, Pointer
  <2>2. chain' \in [Buckets -> Seq(Node)]
    BY <1>1, <1>2 DEF IInv, TypeOK
  <2> QED BY <2>1, <2>2, <1>1, <1>2 DEF IInv, TypeOK
<1>4. /\ \A c \in Buckets : chain'[c] = IF c = bucket THEN << >> ELSE chain[c]
      /\ \A c \in Buckets : buckets_'[c] = IF c = bucket THEN Null ELSE buckets_[c]
      /\ \A u \in Threads : u # t => cur'[u] = cur[u]
      /\ cur'[t] = buckets_[bucket]
  BY <1>1, <1>2 DEF IInv, TypeOK
<1>5. ChainsAreLists'
  <2> SUFFICES ASSUME NEW c \in Buckets
      PROVE  /\ buckets_'[c] = IF chain'[c] = << >> THEN Null ELSE chain'[c][1]
             /\ Linked(chain[c])' /\ IsInjective(chain'[c])
             /\ \A m \in Range(chain'[c]) : key'[m] \in Key /\ Hash[key'[m]] = c
    BY DEF ChainsAreLists
  <2>1. CASE c = bucket
    BY <2>1, <1>4 DEF Linked, IsInjective, Range
  <2>2. CASE c # bucket
    <3>1. chain'[c] = chain[c] /\ buckets_'[c] = buckets_[c]
      BY <2>2, <1>4
    <3> QED BY <3>1, <1>1 DEF IInv, ChainsAreLists, Linked
  <2> QED BY <2>1, <2>2
<1>6. PICK s \in Seq(Node) : s = chain[bucket]
  BY <1>2 DEF IInv, TypeOK
<1>7. /\ IsInjective(s) /\ Linked(s)' /\ buckets_[bucket] = IF s = << >> THEN Null ELSE s[1]
      /\ \A m \in Range(s) : Hash[key[m]] = bucket
  BY <1>1, <1>2, <1>6 DEF IInv, ChainsAreLists, Linked
<1>8. InTable = InTable' \cup Range(s)
  <2>1. \A c \in Buckets : Range(chain'[c]) = IF c = bucket THEN {} ELSE Range(chain[c])
    BY <1>4 DEF Range
  <2> QED BY <2>1, <1>2, <1>6 DEF InTable
<1>9. Range(s) \cap InTable' = {}
  <2>1. ASSUME NEW m \in Range(s), m \in InTable' PROVE FALSE
    <3>1. PICK c \in Buckets : m \in Range(chain'[c])
      BY <2>1 DEF InTable
    <3>2. c # bucket /\ m \in Range(chain[c])
      BY <3>1, <1>4 DEF Range
    <3>3. Hash[key[m]] = c
      BY <3>2 DEF IInv, ChainsAreLists
    <3> QED BY <3>2, <3>3, <1>7
  <2> QED BY <2>1
<1>10. Allocated = InTable
  <2>1. PICK r \in Seq(Node) : Doomed(t, r)
    BY <1>1 DEF IInv, ClearIsAlone
  <2>2. r = << >>
    <3>1. r # << >> => r[1] \in Node
      OBVIOUS
    <3> QED BY <3>1, <2>1, <1>1, TableAssumption DEF Doomed
  <2> QED BY <2>1, <2>2 DEF Doomed, Range
<1>11. Allocated' = Allocated
  BY <1>1 DEF Allocated
<1>12. Doomed(t, s)'
  <2>1. cur'[t] = IF s = << >> THEN Null ELSE s[1]
    BY <1>4, <1>7
  <2> QED BY <2>1, <1>7, <1>8, <1>9, <1>10, <1>11 DEF Doomed
<1>13. \A c \in Buckets : c < bucket' => chain'[c] = << >>
  <2>1. \A c \in Buckets : c < bucket => chain[c] = << >>
    BY <1>1 DEF IInv, ClearIsAlone
  <2>2. \A c \in Buckets : c < bucket + 1 <=> c < bucket \/ c = bucket
    BY <1>2 DEF Buckets
  <2> QED BY <2>1, <2>2, <1>1, <1>4
<1>14. \E r \in Seq(Node) : Doomed(t, r)'
  BY <1>12
<1> QED BY <1>1, <1>3, <1>4, <1>5, <1>13, <1>14, ClearStepPreserves

(* Delete: the first node of what is left goes; the rest is still a list.  *)
LEMMA DeletePreserves ==
  ASSUME IInv, NEW t \in Threads, Delete(t)
  PROVE  IInv'
<1>1. /\ pc[t] = "clear" /\ cur[t] # Null
      /\ cur' = [cur EXCEPT ![t] = next[cur[t]]]
      /\ key' = [key EXCEPT ![cur[t]] = NoKey] /\ next' = [next EXCEPT ![cur[t]] = Null]
      /\ UNCHANGED <<buckets_, chain, pc, node, want, out, start, bucket>>
  BY DEF Delete, AfterDeleted, lookupVars
<1>2. PICK s \in Seq(Node) : Doomed(t, s)
  BY <1>1 DEF IInv, ClearIsAlone
<1>3. s # << >> /\ cur[t] = s[1]
  BY <1>1, <1>2 DEF Doomed
<1>4. /\ Len(s) \in Nat \ {0} /\ DOMAIN s = 1..Len(s) /\ s[1] = Head(s) /\ s[1] \in Node
      /\ s[1] \in Range(s) /\ Tail(s) \in Seq(Node) /\ Len(Tail(s)) = Len(s) - 1
      /\ DOMAIN Tail(s) = 1..(Len(s) - 1)
      /\ \A i \in 1..(Len(s) - 1) : Tail(s)[i] = s[i + 1]
  BY <1>3 DEF Range
<1>5. IsInjective(Tail(s)) /\ Range(Tail(s)) = Range(s) \ {s[1]}
  BY <1>2, <1>3, <1>4, TailProperties DEF Doomed
<1>6. /\ \A m \in Node : key'[m] = IF m = s[1] THEN NoKey ELSE key[m]
      /\ \A m \in Node : next'[m] = IF m = s[1] THEN Null ELSE next[m]
      /\ cur'[t] = next[s[1]] /\ \A u \in Threads : u # t => cur'[u] = cur[u]
  BY <1>1, <1>3, <1>4 DEF IInv, TypeOK
<1>7. TypeOK'
  BY <1>1, <1>3, <1>4 DEF IInv, TypeOK, Pointer
<1>8. s[1] \notin InTable
  BY <1>2, <1>4 DEF Doomed
<1>9. ChainsAreLists' /\ InTable' = InTable
  BY <1>1, <1>6, <1>8, InTableHoldsKeys, ChainsStay
<1>10. Allocated' = Allocated \ {s[1]}
  BY <1>6 DEF Allocated
<1>11. Linked(Tail(s))'
  <2> SUFFICES ASSUME NEW i \in 1..(Len(s) - 1)
      PROVE  next'[Tail(s)[i]] = IF i = Len(Tail(s)) THEN Null ELSE Tail(s)[i + 1]
    BY <1>4 DEF Linked
  <2>1. i + 1 \in DOMAIN s /\ i + 1 # 1 /\ 1 \in DOMAIN s /\ s[i + 1] \in Node
    BY <1>4
  <2>2. s[i + 1] # s[1]
    BY <2>1, <1>2 DEF Doomed, IsInjective
  <2>3. next'[s[i + 1]] = next[s[i + 1]]
    BY <2>1, <2>2, <1>6
  <2>4. next[s[i + 1]] = IF i + 1 = Len(s) THEN Null ELSE s[i + 1 + 1]
    BY <2>1, <1>2 DEF Doomed, Linked
  <2>5. i # Len(Tail(s)) => Tail(s)[i + 1] = s[i + 1 + 1]
    BY <1>4
  <2>6. Tail(s)[i] = s[i + 1] /\ (i = Len(Tail(s)) <=> i + 1 = Len(s))
    BY <1>4
  <2> QED BY <2>3, <2>4, <2>5, <2>6
<1>12. cur'[t] = IF Tail(s) = << >> THEN Null ELSE Tail(s)[1]
  <2>1. next[s[1]] = IF 1 = Len(s) THEN Null ELSE s[1 + 1]
    BY <1>2, <1>4 DEF Doomed, Linked
  <2>2. Tail(s) = << >> <=> Len(s) = 1
    BY <1>3, <1>4
  <2>3. Len(s) # 1 => Tail(s)[1] = s[1 + 1]
    BY <1>4
  <2> QED BY <2>1, <2>2, <2>3, <1>6
<1>13. Doomed(t, Tail(s))'
  BY <1>2, <1>5, <1>8, <1>9, <1>10, <1>11, <1>12 DEF Doomed
<1>14. \A c \in Buckets : c < bucket' => chain'[c] = << >>
  BY <1>1 DEF IInv, ClearIsAlone
<1>15. \E r \in Seq(Node) : Doomed(t, r)'
  BY <1>4, <1>13
<1> QED BY <1>1, <1>6, <1>7, <1>9, <1>14, <1>15, ClearStepPreserves

LEMMA ClearedPreserves ==
  ASSUME IInv, NEW t \in Threads, Cleared(t)
  PROVE  IInv'
<1>1. /\ pc[t] = "clear" /\ cur[t] = Null /\ pc' = [pc EXCEPT ![t] = "idle"]
      /\ UNCHANGED <<buckets_, key, next, chain, node, cur, want, out, start, bucket>>
  BY DEF Cleared, Goto, nodeVars, lookupVars
<1>2. TypeOK'
  BY <1>1 DEF IInv, TypeOK
<1>3. \A u \in Threads : pc'[u] = "idle"
  BY <1>1, OnlyOneClears DEF IInv, TypeOK
<1>4. ChainsAreLists' /\ InTable' = InTable
  BY <1>1, ChainsStay
<1>5. Inserting' = {} /\ ClearIsAlone'
  BY <1>3 DEF Inserting, ClearIsAlone
<1>6. PICK s \in Seq(Node) : Doomed(t, s)
  BY <1>1 DEF IInv, ClearIsAlone
<1>7. s = << >>
  <2>1. s # << >> => s[1] \in Node
    OBVIOUS
  <2> QED BY <2>1, <1>1, <1>6, TableAssumption DEF Doomed
<1>8. Allocated = InTable /\ Allocated' = Allocated
  BY <1>1, <1>6, <1>7 DEF Doomed, Range, Allocated
<1>9. IdleHasNoNode'
  <2>1. \A u \in Threads : cur[u] = Null
    BY <1>1, OnlyOneClears DEF IInv, IdleHasNoNode
  <2> QED BY <2>1, <1>1 DEF IdleHasNoNode
<1> QED BY <1>2, <1>4, <1>5, <1>8, <1>9 DEF IInv, InsertersOwn, Accounted
-----------------------------------------------------------------------------
LEMMA NextPreserves ==
  ASSUME IInv, [Next]_vars
  PROVE  IInv'
<1>1. CASE UNCHANGED vars
  <2>1. UNCHANGED <<buckets_, key, next, chain, pc, node, cur, want, out, start, bucket>>
    BY <1>1 DEF vars, nodeVars, lookupVars
  <2>2. UNCHANGED <<Inserting, InTable, Allocated>>
    BY <2>1 DEF Inserting, InTable, Allocated
  <2>3. TypeOK' /\ ChainsAreLists'
    BY <2>1 DEF IInv, TypeOK, ChainsAreLists, Linked
  <2>4. InsertersOwn' /\ IdleHasNoNode'
    BY <2>1, <2>2 DEF IInv, InsertersOwn, IdleHasNoNode
  <2>7. Accounted'
    <3>1. Clearing => Clearing'
      BY <2>1 DEF Clearing
    <3> QED BY <2>1, <2>2, <3>1, Zenon DEF IInv, Accounted
  <2>5. \A t \in Threads, s \in Seq(Node) : Doomed(t, s) => Doomed(t, s)'
    BY <2>1, <2>2 DEF Doomed, Linked
  <2>6. ClearIsAlone'
    BY <2>1, <2>5 DEF IInv, ClearIsAlone
  <2> QED BY <2>3, <2>4, <2>6, <2>7 DEF IInv
<1>2. ASSUME NEW t \in Threads, Inserts(t) PROVE IInv'
  BY <1>2, ReadHeadPreserves, StoreNextPreserves, ExchangePreserves DEF Inserts
<1>3. ASSUME NEW t \in Threads, Visit(t) \/ Return(t) PROVE IInv'
  BY <1>3, WalkPreserves
<1>4. ASSUME NEW t \in Threads, Clear(t) \/ TakeBucket(t) \/ Delete(t) \/ Cleared(t) PROVE IInv'
  BY <1>4, StartClearPreserves, TakeBucketPreserves, DeletePreserves, ClearedPreserves
<1> QED BY <1>1, <1>2, <1>3, <1>4, InsertPreserves, LookupPreserves DEF Next

(* IInv holds in every state of the table. *)
THEOREM TableInvariant == Spec => []IInv
<1>1. IInv /\ [Next]_vars => IInv'
  BY NextPreserves
<1> QED BY <1>1, InitHolds, PTL DEF Spec

(* The variables of the table keep their types. *)
THEOREM TableTypeCorrect == Spec => []TypeOK
<1>1. IInv => TypeOK
  BY DEF IInv
<1> QED BY <1>1, TableInvariant, PTL

(* No insert is lost and no list has a cycle, however many threads race    *)
(* for the head of a bucket with compare_exchange_weak.                    *)
THEOREM TableChainsAreLists == Spec => []ChainsAreLists
<1>1. IInv => ChainsAreLists
  BY DEF IInv
<1> QED BY <1>1, TableInvariant, PTL

(* No node leaks and none is deleted twice or while it is in a bucket.     *)
THEOREM TableNodesHaveOneOwner == Spec => []NodesHaveOneOwner
<1>1. ASSUME IInv PROVE NodesHaveOneOwner
  <2>1. ASSUME NEW t \in Inserting
        PROVE  /\ node[t] \in Allocated \ InTable
               /\ \A u \in Inserting : u # t => node[u] # node[t]
    BY <1>1, TableAssumption DEF IInv, InsertersOwn, Allocated
  <2>2. ~Clearing => Allocated = InTable \cup {node[t] : t \in Inserting}
    BY <1>1 DEF IInv, Accounted
  <2>3. ASSUME NEW t \in Threads, pc[t] = "clear"
        PROVE  /\ cur[t] # Null => cur[t] \in Allocated \ InTable
               /\ cur[t] = Null => Allocated = InTable
               /\ \A b \in Buckets : b < bucket => chain[b] = << >>
    <3>1. PICK s \in Seq(Node) : Doomed(t, s)
      BY <1>1, <2>3 DEF IInv, ClearIsAlone
    <3>2. s # << >> => s[1] \in Node /\ s[1] \in Range(s)
      BY DEF Range
    <3>3. cur[t] # Null => cur[t] \in Allocated \ InTable
      BY <3>1, <3>2 DEF Doomed
    <3>4. cur[t] = Null => s = << >>
      BY <3>1, <3>2, TableAssumption DEF Doomed
    <3>5. cur[t] = Null => Allocated = InTable
      BY <3>1, <3>4 DEF Doomed, Range
    <3> QED BY <1>1, <2>3, <3>3, <3>5 DEF IInv, ClearIsAlone
  <2> QED BY <2>1, <2>2, <2>3 DEF NodesHaveOneOwner
<1> QED BY <1>1, TableInvariant, PTL

-----------------------------------------------------------------------------
(* What a step of any thread leaves alone. *)

LEMMA PublishedStay ==
  ASSUME IInv, [Next]_vars, NEW n \in InTable
  PROVE  key'[n] = key[n] /\ next'[n] = next[n]
<1>1. n \in Node /\ key[n] \in Key
  BY InTableHoldsKeys
<1>2. ASSUME NEW t \in Threads, NEW m \in Node, NEW k \in Key, Insert(t, m, k)
      PROVE  key'[n] = key[n] /\ next'[n] = next[n]
  BY <1>1, <1>2, TableAssumption DEF Insert, IInv, TypeOK
<1>3. ASSUME NEW t \in Threads, StoreNext(t)
      PROVE  key'[n] = key[n] /\ next'[n] = next[n]
  <2>1. node[t] # n
    BY <1>3 DEF StoreNext, IInv, InsertersOwn, Inserting
  <2> QED BY <1>1, <1>3, <2>1 DEF StoreNext, IInv, TypeOK
<1>4. ASSUME NEW t \in Threads, Delete(t)
      PROVE  key'[n] = key[n] /\ next'[n] = next[n]
  <2>1. PICK s \in Seq(Node) : Doomed(t, s)
    BY <1>4 DEF Delete, IInv, ClearIsAlone
  <2>2. s # << >> => s[1] \in Range(s)
    BY DEF Range
  <2>3. cur[t] # n
    BY <1>4, <2>1, <2>2 DEF Doomed, Delete
  <2> QED BY <1>1, <1>4, <2>3 DEF Delete, IInv, TypeOK
<1>5. ASSUME NEW t \in Threads, \/ LoadHead(t) \/ ExchangeSucceeds(t) \/ ExchangeFails(t)
                                \/ Visit(t) \/ Return(t) \/ Clear(t) \/ TakeBucket(t) \/ Cleared(t)
                                \/ \E k \in Key : Lookup(t, k)
      PROVE  key' = key /\ next' = next
  BY <1>5 DEF LoadHead, ExchangeSucceeds, ExchangeFails, Visit, Return, Clear, TakeBucket,
              Cleared, Lookup, nodeVars
<1>6. CASE UNCHANGED vars
  BY <1>6 DEF vars, nodeVars
<1> QED BY <1>2, <1>3, <1>4, <1>5, <1>6 DEF Next, Inserts

LEMMA TableGrows ==
  ASSUME IInv, [Next]_vars, ~Clearing
  PROVE  InTable \subseteq InTable'
<1>1. CASE UNCHANGED chain
  BY <1>1 DEF InTable
<1>2. CASE \E t \in Threads : ExchangeSucceeds(t)
  BY <1>2, ExchangePreserves
<1>3. \/ UNCHANGED chain
      \/ \E t \in Threads : ExchangeSucceeds(t) \/ TakeBucket(t)
  BY DEF Next, Inserts, Insert, LoadHead, StoreNext, ExchangeFails, Lookup, Visit, Return,
         Clear, Delete, Cleared, vars, nodeVars
<1>4. \A t \in Threads : ~TakeBucket(t)
  BY DEF Clearing, TakeBucket
<1> QED BY <1>1, <1>2, <1>3, <1>4

(* A Lookup in progress is moved only by its own thread. *)
LEMMA OthersStay ==
  ASSUME IInv, [Next]_vars, NEW u \in Threads, pc'[u] = "walk",
         ~Visit(u), \A k \in Key : ~Lookup(u, k)
  PROVE  /\ pc[u] = "walk" /\ cur'[u] = cur[u]
         /\ want'[u] = want[u] /\ out'[u] = out[u] /\ start'[u] = start[u]
<1>1. CASE UNCHANGED vars
  BY <1>1 DEF vars, lookupVars
<1>2. ASSUME NEW t \in Threads, NEW n \in Node, NEW k \in Key, Insert(t, n, k)
      PROVE  /\ pc[u] = "walk" /\ UNCHANGED <<cur, want, out, start>>
  BY <1>2 DEF Insert, Goto, IInv, TypeOK, lookupVars
<1>3. ASSUME NEW t \in Threads, Inserts(t)
      PROVE  /\ pc[u] = "walk" /\ cur'[u] = cur[u] /\ UNCHANGED <<want, out, start>>
  BY <1>3 DEF Inserts, LoadHead, StoreNext, ExchangeSucceeds, ExchangeFails, Goto, IInv,
              TypeOK, lookupVars
<1>4. ASSUME NEW t \in Threads, \/ Visit(t) \/ Return(t) \/ \E k \in Key : Lookup(t, k)
      PROVE  /\ pc[u] = "walk" /\ cur'[u] = cur[u]
             /\ want'[u] = want[u] /\ out'[u] = out[u] /\ start'[u] = start[u]
  BY <1>4 DEF Visit, Return, Lookup, Goto, IInv, TypeOK
<1>5. ASSUME NEW t \in Threads, Clear(t) \/ TakeBucket(t) \/ Delete(t) \/ Cleared(t)
      PROVE  /\ pc[u] = "walk" /\ cur'[u] = cur[u] /\ UNCHANGED <<want, out, start>>
  BY <1>5 DEF Clear, TakeBucket, Delete, Cleared, Goto, IInv, TypeOK, lookupVars
<1> QED BY <1>1, <1>2, <1>3, <1>4, <1>5 DEF Next

(* Lookup reads nodes without a lock: a step of any thread leaves the key  *)
(* and next of every node in a bucket as they are.                         *)
THEOREM TablePublishedNodesStay == Spec => PublishedNodesStay
<1>1. IInv /\ [Next]_vars => [\A n \in InTable : key'[n] = key[n] /\ next'[n] = next[n]]_vars
  BY PublishedStay
<1> QED BY <1>1, TableInvariant, PTL DEF Spec, PublishedNodesStay
-----------------------------------------------------------------------------
(* The walk of a Lookup. *)

(* The nodes of key w among the first i of s. *)
Matching(s, i, w) == {n \in {s[j] : j \in 1..i} : key[n] = w}

(* The Lookup of t has come to the i-th node of the bucket it began with.  *)
WalkAt(t, i) ==
  LET s == start[t]
  IN /\ cur[t] = IF i > Len(s) THEN Null ELSE s[i]
     /\ Range(out[t]) = Matching(s, i - 1, want[t])
     /\ InOrderOf(out[t], s)

(* The nodes the bucket held then are still in the table, so that they     *)
(* stay linked as they were.                                               *)
Walking ==
  \A t \in Threads : pc[t] = "walk" =>
    /\ IsInjective(start[t]) /\ Linked(start[t]) /\ Range(start[t]) \subseteq InTable
    /\ \E i \in 1..(Len(start[t]) + 1) : WalkAt(t, i)

(* A step of another thread does not disturb a Lookup. *)
LEMMA OtherStepsKeepWalking ==
  ASSUME IInv, [Next]_vars, Walking, NEW u \in Threads, pc'[u] = "walk",
         ~Visit(u), \A k \in Key : ~Lookup(u, k)
  PROVE  /\ IsInjective(start'[u]) /\ Linked(start[u])' /\ Range(start'[u]) \subseteq InTable'
         /\ \E i \in 1..(Len(start'[u]) + 1) : WalkAt(u, i)'
<1> DEFINE s == start[u]
<1>1. /\ pc[u] = "walk" /\ cur'[u] = cur[u]
      /\ want'[u] = want[u] /\ out'[u] = out[u] /\ start'[u] = s
  BY OthersStay
<1>2. /\ IsInjective(s) /\ Linked(s) /\ Range(s) \subseteq InTable /\ s \in Seq(Node)
      /\ Len(s) \in Nat /\ DOMAIN s = 1..Len(s)
  BY <1>1, LenProperties DEF Walking, IInv, TypeOK
<1>3. PICK i \in 1..(Len(s) + 1) : WalkAt(u, i)
  BY <1>1 DEF Walking
<1>4. ~Clearing
  BY <1>1, BusyMeansNotClearing
<1>5. InTable \subseteq InTable'
  BY <1>4, TableGrows
<1>6. \A n \in Range(s) : key'[n] = key[n] /\ next'[n] = next[n]
  BY <1>2, PublishedStay
<1>7. \A j \in DOMAIN s : s[j] \in Range(s)
  BY DEF Range
<1> HIDE DEF s
<1>8. Linked(start[u])'
  BY <1>1, <1>2, <1>6, <1>7 DEF Linked
<1>9. Matching(s, i - 1, want[u])' = Matching(s, i - 1, want[u])
  <2>1. \A j \in 1..(i - 1) : j \in DOMAIN s
    BY <1>2, <1>3
  <2>2. \A n \in {s[j] : j \in 1..(i - 1)} : key'[n] = key[n]
    BY <1>6, <1>7, <2>1
  <2>3. s' = s /\ want'[u] = want[u]
    BY <1>1 DEF s
  <2> QED BY <2>2, <2>3 DEF Matching
<1>10. WalkAt(u, i)'
  BY <1>1, <1>3, <1>9 DEF WalkAt, s
<1> QED BY <1>1, <1>2, <1>3, <1>5, <1>8, <1>10

(* Lookup begins with the head of the bucket, and has found nothing. *)
LEMMA LookupBegins ==
  ASSUME IInv, IInv', NEW t \in Threads, NEW k \in Key, Lookup(t, k)
  PROVE  /\ IsInjective(start'[t]) /\ Linked(start[t])' /\ Range(start'[t]) \subseteq InTable'
         /\ \E i \in 1..(Len(start'[t]) + 1) : WalkAt(t, i)'
<1> DEFINE s == chain[Hash[k]]
<1>1. /\ want'[t] = k /\ out'[t] = << >> /\ cur'[t] = buckets_[Hash[k]] /\ start'[t] = s
      /\ next' = next /\ chain' = chain
  BY DEF Lookup, nodeVars, IInv, TypeOK
<1>2. Hash[k] \in Buckets
  BY TableAssumption
<1>3. /\ buckets_[Hash[k]] = IF s = << >> THEN Null ELSE s[1]
      /\ Linked(s) /\ IsInjective(s) /\ s \in Seq(Node)
  BY <1>2 DEF IInv, TypeOK, ChainsAreLists
<1>4. Range(s) \subseteq InTable /\ InTable' = InTable
  BY <1>1, <1>2 DEF InTable
<1> HIDE DEF s
<1>5. Linked(start[t])'
  BY <1>1, <1>3 DEF Linked
<1>6. Len(s) \in Nat /\ 1 \in 1..(Len(s) + 1) /\ (1 > Len(s) <=> s = << >>)
  BY <1>3, LenProperties, EmptySeq
<1>7. /\ Range(out'[t]) = {} /\ DOMAIN out'[t] = {} /\ 1..(1 - 1) = {}
  BY <1>1 DEF Range
<1>8. WalkAt(t, 1)'
  BY <1>1, <1>3, <1>6, <1>7 DEF WalkAt, Matching, InOrderOf
<1> QED BY <1>1, <1>3, <1>4, <1>5, <1>6, <1>8

(* Appending an element of r behind those that were taken so far. *)
LEMMA AppendInOrder ==
  ASSUME NEW S, NEW r \in Seq(S), IsInjective(r), NEW s \in Seq(S), InOrderOf(s, r),
         NEW m \in DOMAIN r, \A x \in Range(s) : \E j \in DOMAIN r : j < m /\ r[j] = x
  PROVE  InOrderOf(Append(s, r[m]), r)
<1> DEFINE e == r[m]
           a == Append(s, e)
<1>1. DOMAIN r = 1..Len(r) /\ Len(r) \in Nat /\ e \in S
  BY LenProperties
<1>2. DOMAIN s = 1..Len(s) /\ Len(s) \in Nat
  BY LenProperties
<1>3. /\ a \in Seq(S) /\ Len(a) = Len(s) + 1 /\ a[Len(s) + 1] = e
      /\ \A i \in 1..Len(s) : a[i] = s[i]
  BY <1>1, AppendProperties
<1>4. DOMAIN a = 1..(Len(s) + 1)
  BY <1>3, LenProperties
<1> HIDE DEF a
<1> SUFFICES ASSUME NEW i \in DOMAIN a, NEW j \in DOMAIN a,
                    NEW k \in DOMAIN r, NEW l \in DOMAIN r,
                    i < j, a[i] = r[k], a[j] = r[l]
             PROVE  k < l
  BY DEF InOrderOf, a
<1>5. i \in DOMAIN s /\ s[i] = r[k]
  BY <1>2, <1>3, <1>4
<1>6. CASE j = Len(s) + 1
  <2>1. l = m
    BY <1>3, <1>6 DEF IsInjective
  <2>2. PICK h \in DOMAIN r : h < m /\ r[h] = s[i]
    BY <1>5 DEF Range
  <2>3. h = k
    BY <1>5, <2>2 DEF IsInjective
  <2> QED BY <2>1, <2>2, <2>3
<1>7. CASE j # Len(s) + 1
  <2>1. j \in DOMAIN s /\ s[j] = r[l]
    BY <1>2, <1>3, <1>4, <1>7
  <2> QED BY <1>5, <2>1 DEF InOrderOf
<1> QED BY <1>6, <1>7

LEMMA VisitWalksOn ==
  ASSUME IInv, Walking, NEW t \in Threads, Visit(t)
  PROVE  /\ IsInjective(start'[t]) /\ Linked(start[t])' /\ Range(start'[t]) \subseteq InTable'
         /\ \E i \in 1..(Len(start'[t]) + 1) : WalkAt(t, i)'
<1> DEFINE s == start[t]
           o == out[t]
           w == want[t]
<1>1. /\ pc[t] = "walk" /\ cur[t] # Null /\ cur'[t] = next[cur[t]]
      /\ out'[t] = IF key[cur[t]] = w THEN Append(o, cur[t]) ELSE o
      /\ UNCHANGED <<key, next, chain, want, start>>
  BY DEF Visit, Following, nodeVars, IInv, TypeOK
<1>2. /\ IsInjective(s) /\ Linked(s) /\ Range(s) \subseteq InTable /\ s \in Seq(Node)
      /\ Len(s) \in Nat /\ DOMAIN s = 1..Len(s) /\ o \in Seq(Node)
  BY <1>1, LenProperties DEF Walking, IInv, TypeOK
<1>3. PICK i \in 1..(Len(s) + 1) : WalkAt(t, i)
  BY <1>1 DEF Walking
<1>4. /\ cur[t] = IF i > Len(s) THEN Null ELSE s[i]
      /\ Range(o) = Matching(s, i - 1, w) /\ InOrderOf(o, s)
  BY <1>3 DEF WalkAt
<1> HIDE DEF s, o, w
<1>5. i \in 1..Len(s) /\ cur[t] = s[i] /\ s[i] \in Node
  BY <1>1, <1>2, <1>3, <1>4
<1>6. cur'[t] = IF i + 1 > Len(s) THEN Null ELSE s[i + 1]
  <2>1. next[s[i]] = IF i = Len(s) THEN Null ELSE s[i + 1]
    BY <1>2, <1>5 DEF Linked
  <2> QED BY <1>1, <1>2, <1>5, <2>1
<1>7. Range(out'[t]) = Matching(s, i, w)
  <2>1. {s[j] : j \in 1..i} = {s[j] : j \in 1..(i - 1)} \cup {s[i]}
    <3>1. \A j \in 1..i : j \in 1..(i - 1) \/ j = i
      BY <1>2, <1>5
    <3>2. i \in 1..i /\ \A j \in 1..(i - 1) : j \in 1..i
      BY <1>2, <1>5
    <3> QED BY <3>1, <3>2
  <2>2. Range(Append(o, s[i])) = Range(o) \cup {s[i]}
    BY <1>2, <1>5, AppendRange
  <2>3. CASE key[s[i]] = w
    BY <1>1, <1>4, <1>5, <2>1, <2>2, <2>3 DEF Matching
  <2>4. CASE key[s[i]] # w
    BY <1>1, <1>4, <1>5, <2>1, <2>4 DEF Matching
  <2> QED BY <2>3, <2>4
<1>8. InOrderOf(out'[t], s)
  <2>1. \A x \in Range(o) : \E j \in DOMAIN s : j < i /\ s[j] = x
    <3> SUFFICES ASSUME NEW x \in Range(o) PROVE \E j \in DOMAIN s : j < i /\ s[j] = x
      OBVIOUS
    <3>1. PICK j \in 1..(i - 1) : x = s[j]
      BY <1>4 DEF Matching
    <3> QED BY <1>2, <1>5, <3>1
  <2>2. InOrderOf(Append(o, s[i]), s)
    BY <1>2, <1>4, <1>5, <2>1, AppendInOrder
  <2> QED BY <1>1, <1>4, <1>5, <2>2
<1>9. /\ start'[t] = s /\ want'[t] = w /\ InTable' = InTable
      /\ i + 1 \in 1..(Len(s) + 1) /\ (i + 1) - 1 = i
  BY <1>1, <1>2, <1>5 DEF s, w, InTable
<1>10. Matching(s, i, w)' = Matching(s, i, w) /\ s' = s /\ w' = w
  BY <1>1, <1>9 DEF Matching, s, w
<1>11. WalkAt(t, i + 1)'
  BY <1>6, <1>7, <1>8, <1>9, <1>10 DEF WalkAt, Matching
<1>12. Linked(start[t])'
  BY <1>1, <1>2, <1>9 DEF Linked
<1> QED BY <1>2, <1>9, <1>11, <1>12

(* Every Lookup in progress is where it should be, and has found what it   *)
(* should have found.                                                      *)
LEMMA LookupInvariant == Spec => []Walking
<1>1. Init => Walking
  BY DEF Init, Walking
<1>2. IInv /\ IInv' /\ Walking /\ [Next]_vars => Walking'
  <2> SUFFICES ASSUME IInv, IInv', Walking, [Next]_vars, NEW u \in Threads, pc'[u] = "walk"
               PROVE  /\ IsInjective(start'[u]) /\ Linked(start[u])'
                      /\ Range(start'[u]) \subseteq InTable'
                      /\ \E i \in 1..(Len(start'[u]) + 1) : WalkAt(u, i)'
    BY DEF Walking
  <2>1. CASE Visit(u)
    BY <2>1, VisitWalksOn
  <2>2. CASE \E k \in Key : Lookup(u, k)
    BY <2>2, LookupBegins
  <2>3. CASE ~Visit(u) /\ \A k \in Key : ~Lookup(u, k)
    BY <2>3, OtherStepsKeepWalking
  <2> QED BY <2>1, <2>2, <2>3
<1> QED BY <1>1, <1>2, TableInvariant, PTL DEF Spec

(* Lookup takes no lock, and yet it returns each node of its key that was  *)
(* in the bucket when it read the head, once and newest first, while other *)
(* threads go on inserting.                                                *)
THEOREM TableLookupFindsAll == Spec => []LookupFindsAll
<1>1. ASSUME IInv, Walking PROVE LookupFindsAll
  <2> SUFFICES ASSUME NEW t \in Threads, pc[t] = "walk", cur[t] = Null
               PROVE  /\ Range(out[t]) = {n \in Range(start[t]) : key[n] = want[t]}
                      /\ InOrderOf(out[t], start[t])
    BY DEF LookupFindsAll
  <2>1. PICK i \in 1..(Len(start[t]) + 1) : WalkAt(t, i)
    BY <1>1 DEF Walking
  <2>2. /\ start[t] \in Seq(Node) /\ Len(start[t]) \in Nat
        /\ DOMAIN start[t] = 1..Len(start[t])
    BY <1>1, LenProperties DEF IInv, TypeOK
  <2>3. i - 1 = Len(start[t])
    <3>1. ASSUME i <= Len(start[t]) PROVE FALSE
      <4>1. start[t][i] \in Node /\ cur[t] = start[t][i]
        BY <2>1, <2>2, <3>1 DEF WalkAt
      <4> QED BY <4>1, TableAssumption
    <3> QED BY <2>1, <2>2, <3>1
  <2>4. Range(start[t]) = {start[t][j] : j \in 1..(i - 1)}
    BY <2>2, <2>3 DEF Range
  <2> QED BY <2>1, <2>4 DEF WalkAt, Matching
<1> QED BY <1>1, TableInvariant, LookupInvariant, PTL
=============================================================================
