-------------------------- MODULE LockFreeHashTable --------------------------
(***************************************************************************)
(* The hash table of the parallel join (concurrency/lockfree_hashtable.cpp). *)
(*                                                                         *)
(* Each access to an atomic is one step; nodes are addresses that delete   *)
(* gives back to new.  Threads insert and look up at the same time; Clear  *)
(* is called, as its callers do, when no other call is in progress.  A     *)
(* Lookup whose acquire load reads a node sees all stores made before any  *)
(* of the releasing exchanges the list is built of, since each exchange    *)
(* continues the release sequence of the one before it: the steps may be   *)
(* taken one after the other.                                              *)
(***************************************************************************)
EXTENDS Integers, Sequences, FiniteSets, Functions

CONSTANTS
  Threads,        \* threads that use the table
  Node,           \* bound: the addresses of nodes
  Null,           \* nullptr
  Key,            \* keys
  NoKey,          \* the key of an address that holds no node
  bucket_count_,
  Hash            \* Hash[key], the bucket of a key

Buckets == 0..(bucket_count_ - 1)

ASSUME TableAssumption ==
  /\ Null \notin Node /\ NoKey \notin Key
  /\ bucket_count_ \in Nat /\ Hash \in [Key -> Buckets]

VARIABLES
  buckets_,  \* bucket -> first node
  key, next, \* the fields of the nodes
  pc,        \* thread -> where it is in Insert, Lookup or Clear
  node,      \* thread -> the node it inserts
  cur,       \* thread -> head of Insert, cur of Lookup and Clear
  want,      \* thread -> key it looks up
  out,       \* thread -> nodes its Lookup has found
  bucket,    \* the bucket Clear has come to
  chain,     \* history: bucket -> nodes of the completed inserts, newest first
  start      \* history: thread -> the chain when its Lookup began

nodeVars == <<buckets_, key, next, chain>>
lookupVars == <<want, out, start>>
vars == <<nodeVars, pc, node, cur, lookupVars, bucket>>

Init ==
  /\ buckets_ = [b \in Buckets |-> Null]
  /\ key = [n \in Node |-> NoKey] /\ next = [n \in Node |-> Null]
  /\ pc = [t \in Threads |-> "idle"]
  /\ node = [t \in Threads |-> Null] /\ cur = [t \in Threads |-> Null]
  /\ want = [t \in Threads |-> NoKey] /\ out = [t \in Threads |-> << >>]
  /\ bucket = 0
  /\ chain = [b \in Buckets |-> << >>] /\ start = [t \in Threads |-> << >>]

Goto(t, l) == pc' = [pc EXCEPT ![t] = l]
Clearing == \E t \in Threads : pc[t] = "clear"
-----------------------------------------------------------------------------
(* Insert. *)

(* The bucket of the node t inserts. *)
idx(t) == Hash[key[node[t]]]

Insert(t, n, k) ==
  /\ pc[t] = "idle" /\ ~Clearing /\ key[n] = NoKey
  /\ key' = [key EXCEPT ![n] = k] /\ next' = [next EXCEPT ![n] = Null]
  /\ node' = [node EXCEPT ![t] = n]
  /\ Goto(t, "load")
  /\ UNCHANGED <<buckets_, cur, lookupVars, bucket, chain>>

LoadHead(t) ==
  /\ pc[t] = "load"
  /\ cur' = [cur EXCEPT ![t] = buckets_[idx(t)]]
  /\ Goto(t, "store")
  /\ UNCHANGED <<nodeVars, node, lookupVars, bucket>>

StoreNext(t) ==
  /\ pc[t] = "store"
  /\ next' = [next EXCEPT ![node[t]] = cur[t]]
  /\ Goto(t, "exchange")
  /\ UNCHANGED <<buckets_, key, node, cur, lookupVars, bucket, chain>>

(* Mistake: the head is not compared with the one that was read. *)
HeadIsExpected_Always(t) == TRUE

HeadIsExpected(t) == buckets_[idx(t)] = cur[t]

(* Mistake: the loop goes on when the exchange has succeeded. *)
ExchangeSucceeds_LoopsOn(t) ==
  /\ pc[t] = "exchange" /\ HeadIsExpected(t)
  /\ buckets_' = [buckets_ EXCEPT ![idx(t)] = node[t]]
  /\ chain' = [chain EXCEPT ![idx(t)] = <<node[t]>> \o @]
  /\ Goto(t, "store")
  /\ UNCHANGED <<key, next, node, cur, lookupVars, bucket>>

ExchangeSucceeds(t) ==
  /\ pc[t] = "exchange" /\ HeadIsExpected(t)
  /\ buckets_' = [buckets_ EXCEPT ![idx(t)] = node[t]]
  /\ chain' = [chain EXCEPT ![idx(t)] = <<node[t]>> \o @]
  /\ node' = [node EXCEPT ![t] = Null] /\ cur' = [cur EXCEPT ![t] = Null]
  /\ Goto(t, "idle")
  /\ UNCHANGED <<key, next, lookupVars, bucket>>

(* Mistake: a failed exchange leaves the old head in its first argument. *)
HeadAfterFailure_Old(t) == cur[t]

HeadAfterFailure(t) == buckets_[idx(t)]

(* The head has changed, or compare_exchange_weak fails for no reason. *)
ExchangeFails(t) ==
  /\ pc[t] = "exchange"
  /\ cur' = [cur EXCEPT ![t] = HeadAfterFailure(t)]
  /\ Goto(t, "store")
  /\ UNCHANGED <<nodeVars, node, lookupVars, bucket>>
-----------------------------------------------------------------------------
(* Lookup. *)

Lookup(t, k) ==
  /\ pc[t] = "idle" /\ ~Clearing
  /\ want' = [want EXCEPT ![t] = k] /\ out' = [out EXCEPT ![t] = << >>]
  /\ cur' = [cur EXCEPT ![t] = buckets_[Hash[k]]]
  /\ start' = [start EXCEPT ![t] = chain[Hash[k]]]
  /\ Goto(t, "walk")
  /\ UNCHANGED <<nodeVars, node, bucket>>

(* Mistake: Lookup stops at the first node of its key. *)
Following_FirstOnly(t) == IF key[cur[t]] = want[t] THEN Null ELSE next[cur[t]]

Following(t) == next[cur[t]]

Visit(t) ==
  /\ pc[t] = "walk" /\ cur[t] # Null
  /\ out' = [out EXCEPT ![t] = IF key[cur[t]] = want[t] THEN Append(@, cur[t]) ELSE @]
  /\ cur' = [cur EXCEPT ![t] = Following(t)]
  /\ UNCHANGED <<nodeVars, pc, node, want, start, bucket>>

Return(t) ==
  /\ pc[t] = "walk" /\ cur[t] = Null
  /\ want' = [want EXCEPT ![t] = NoKey] /\ out' = [out EXCEPT ![t] = << >>]
  /\ start' = [start EXCEPT ![t] = << >>]
  /\ Goto(t, "idle")
  /\ UNCHANGED <<nodeVars, node, cur, bucket>>
-----------------------------------------------------------------------------
(* Clear. *)

Clear(t) ==
  /\ \A u \in Threads : pc[u] = "idle"
  /\ bucket' = 0
  /\ Goto(t, "clear")
  /\ UNCHANGED <<nodeVars, node, cur, lookupVars>>

NextBucket == bucket + 1

(* bucket.exchange(nullptr) *)
TakeBucket(t) ==
  /\ pc[t] = "clear" /\ cur[t] = Null /\ bucket < bucket_count_
  /\ cur' = [cur EXCEPT ![t] = buckets_[bucket]]
  /\ buckets_' = [buckets_ EXCEPT ![bucket] = Null]
  /\ chain' = [chain EXCEPT ![bucket] = << >>]
  /\ bucket' = NextBucket
  /\ UNCHANGED <<key, next, pc, node, lookupVars>>

(* Mistake: the rest of the list is forgotten when a node is deleted. *)
AfterDeleted_Null(t) == Null

AfterDeleted(t) == next[cur[t]]

Delete(t) ==
  /\ pc[t] = "clear" /\ cur[t] # Null
  /\ cur' = [cur EXCEPT ![t] = AfterDeleted(t)]
  /\ key' = [key EXCEPT ![cur[t]] = NoKey] /\ next' = [next EXCEPT ![cur[t]] = Null]
  /\ UNCHANGED <<buckets_, chain, pc, node, lookupVars, bucket>>

Cleared(t) ==
  /\ pc[t] = "clear" /\ cur[t] = Null /\ bucket = bucket_count_
  /\ Goto(t, "idle")
  /\ UNCHANGED <<nodeVars, node, cur, lookupVars, bucket>>
-----------------------------------------------------------------------------
Inserts(t) ==
  \/ LoadHead(t) \/ StoreNext(t) \/ ExchangeSucceeds(t) \/ ExchangeFails(t)

Next ==
  \E t \in Threads :
    \/ \E n \in Node, k \in Key : Insert(t, n, k)
    \/ Inserts(t)
    \/ \E k \in Key : Lookup(t, k)
    \/ Visit(t) \/ Return(t)
    \/ Clear(t) \/ TakeBucket(t) \/ Delete(t) \/ Cleared(t)

Spec == Init /\ [][Next]_vars

(* A thread goes on with its call, and compare_exchange_weak does not fail *)
(* for ever when the head stays the same.                                  *)
Fairness ==
  \A t \in Threads :
    /\ WF_vars(Inserts(t)) /\ SF_vars(ExchangeSucceeds(t))
    /\ WF_vars(Visit(t) \/ Return(t))
    /\ WF_vars(TakeBucket(t) \/ Delete(t) \/ Cleared(t))

FairSpec == Spec /\ Fairness
-----------------------------------------------------------------------------
Pointer == Node \cup {Null}

TypeOK ==
  /\ buckets_ \in [Buckets -> Pointer]
  /\ key \in [Node -> Key \cup {NoKey}] /\ next \in [Node -> Pointer]
  /\ pc \in [Threads -> {"idle", "load", "store", "exchange", "walk", "clear"}]
  /\ node \in [Threads -> Pointer] /\ cur \in [Threads -> Pointer]
  /\ want \in [Threads -> Key \cup {NoKey}] /\ out \in [Threads -> Seq(Node)]
  /\ bucket \in 0..bucket_count_
  /\ chain \in [Buckets -> Seq(Node)] /\ start \in [Threads -> Seq(Node)]

(* The nodes that follow one another in s are linked by next, up to Null.  *)
Linked(s) == \A i \in DOMAIN s : next[s[i]] = IF i = Len(s) THEN Null ELSE s[i + 1]

(* The list of each bucket consists of the nodes of the completed inserts  *)
(* of its keys, each of them once, and ends: an insert that raced another  *)
(* one for the head is not lost and makes no cycle.                        *)
ChainsAreLists ==
  \A b \in Buckets :
    /\ buckets_[b] = IF chain[b] = << >> THEN Null ELSE chain[b][1]
    /\ Linked(chain[b]) /\ IsInjective(chain[b])
    /\ \A n \in Range(chain[b]) : key[n] \in Key /\ Hash[key[n]] = b

(* The elements of s come in the order they have in r. *)
InOrderOf(s, r) ==
  \A i, j \in DOMAIN s, k, l \in DOMAIN r :
    i < j /\ s[i] = r[k] /\ s[j] = r[l] => k < l

(* Lookup returns the nodes of its key that were in the bucket when it     *)
(* read the head, newest first and each once, though inserts go on.        *)
LookupFindsAll ==
  \A t \in Threads :
    pc[t] = "walk" /\ cur[t] = Null =>
      /\ Range(out[t]) = {n \in Range(start[t]) : key[n] = want[t]}
      /\ InOrderOf(out[t], start[t])

Allocated == {n \in Node : key[n] # NoKey}
InTable == UNION {Range(chain[b]) : b \in Buckets}
Inserting == {t \in Threads : pc[t] \in {"load", "store", "exchange"}}

(* Nothing leaks and nothing is freed twice.  Outside Clear, an address    *)
(* holds a node if and only if the node is in a bucket or about to be      *)
(* inserted, by one thread only.  The node Clear is about to delete is in  *)
(* no bucket, and when it comes to the end of a list only the buckets      *)
(* hold nodes: none are left once it has emptied the last one.             *)
NodesHaveOneOwner ==
  /\ \A t \in Inserting :
       /\ node[t] \in Allocated \ InTable
       /\ \A u \in Inserting : u # t => node[u] # node[t]
  /\ ~Clearing => Allocated = InTable \cup {node[t] : t \in Inserting}
  /\ \A t \in Threads : pc[t] = "clear" =>
       /\ cur[t] # Null => cur[t] \in Allocated \ InTable
       /\ cur[t] = Null => Allocated = InTable
       /\ \A b \in Buckets : b < bucket => chain[b] = << >>

(* A node that threads may be reading never changes: while a node is in a  *)
(* bucket its key and next stay as they are.                               *)
PublishedNodesStay ==
  [][\A n \in InTable : key'[n] = key[n] /\ next'[n] = next[n]]_vars

(* Every Insert, Lookup and Clear returns, when finitely many other        *)
(* inserts can overtake it.                                                *)
CallsReturn == \A t \in Threads : pc[t] # "idle" ~> pc[t] = "idle"
==============================================================================
