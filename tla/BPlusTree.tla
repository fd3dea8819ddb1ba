------------------------------ MODULE BPlusTree ------------------------------
(***************************************************************************)
(* The B+ tree index (storage/bplus_tree.cpp): Insert with its splits,     *)
(* Search and RangeScan.                                                   *)
(*                                                                         *)
(* A tree is used by one thread at a time and FetchPage returns what was   *)
(* last written to a page (BufferPool), so a step of the model is what     *)
(* happens between two calls of the pool that can fail.  A NewPage, or a   *)
(* FetchPage of a page nobody has pinned, returns nullptr when all frames  *)
(* are pinned, by the tree or by other users of the pool.  The device      *)
(* takes every write: after one it has rejected the pool is no PageStore.  *)
(***************************************************************************)
EXTENDS Integers, Sequences, FiniteSets, Functions

CONSTANTS
  MinKey, MaxKey,  \* the range of int32_t
  Keys,        \* the keys that are inserted
  RIDs,        \* RIDs[k], the record ids key k is inserted with
  Searched, Ranges,  \* the keys Search and the <<low, high>> RangeScan are called with
  leaf_max_size, internal_max_size,  \* arguments of the constructor, 0 by default
  LeafCapacity, InternalCapacity,    \* entries that fit in a page
  pool_size_,  \* frames of the buffer pool
  MaxInserts,  \* bound: calls of Insert
  MaxFaults    \* bound: pool calls that fail although the tree has a frame left

leaf_max_size_ == IF leaf_max_size > 0 THEN leaf_max_size ELSE LeafCapacity
internal_max_size_ == IF internal_max_size > 0 THEN internal_max_size ELSE InternalCapacity

NoRid == 0

ASSUME TreeAssumption ==
  /\ MinKey \in Int /\ MaxKey \in Int /\ Keys \cup Searched \subseteq MinKey..MaxKey
  /\ Ranges \subseteq (MinKey..MaxKey) \X (MinKey..MaxKey)
  /\ \A k \in Keys : NoRid \notin RIDs[k]
  /\ leaf_max_size_ \in Nat \ 0..1 /\ internal_max_size_ \in Nat \ 0..2
  /\ pool_size_ \in Nat \ {0} /\ MaxInserts \in Nat /\ MaxFaults \in Nat

INVALID_PAGE_ID == -1

(* In an internal page data[1].key is the unused key 0. *)
IsLeaf(node) == node.page_type = "leaf"
Leaf(data, next) == [page_type |-> "leaf", data |-> data, next_page_id |-> next]
Internal(data) == [page_type |-> "internal", data |-> data]

VARIABLES
  pages,         \* the pages of the tree, in the order they were allocated
  root_page_id_,
  leaked,        \* the pages that were left pinned by an exception
  pc,            \* the step the call has come to; "crashed" after a null dereference
  key, rid,      \* the arguments of Insert
  path,          \* the calls of InsertInInternal in progress, innermost first
  pid,           \* the page the call works on
  result,        \* the SplitResult to be handed up
  answer,        \* the last call of Search or RangeScan, and the entries it found
  inserts, faults,
  map,           \* history: key -> rid of the last Insert of it to return, or NoRid
  doubtful,      \* history: <<key, rid>> of the Inserts that threw since
  dropped        \* history: the right_pid of a root split was dropped

insertVars == <<key, rid, path, pid, result>>
historyVars == <<map, doubtful, dropped>>
vars == <<pages, root_page_id_, leaked, pc, insertVars, answer, inserts, faults, historyVars>>

NoSplit == [key |-> 0, right_pid |-> INVALID_PAGE_ID]
NoAnswer == [low |-> 0, high |-> 0, found |-> << >>, complete |-> FALSE]

Init ==
  /\ pages = << >> /\ root_page_id_ = INVALID_PAGE_ID /\ leaked = {}
  /\ pc = "idle" /\ key = 0 /\ rid = NoRid
  /\ path = << >> /\ pid = INVALID_PAGE_ID /\ result = NoSplit
  /\ answer = NoAnswer /\ inserts = 0 /\ faults = 0
  /\ map = [k \in Keys |-> NoRid] /\ doubtful = {} /\ dropped = FALSE

page(p) == pages[p + 1]
new_pid == Len(pages)
-----------------------------------------------------------------------------
(* The buffer pool. *)

(* The page that is split is pinned until the split is over. *)
pinned == leaked \cup (IF pc \in {"leaf_split", "internal_split"} THEN {pid} ELSE {})
AllPinned == Cardinality(pinned) >= pool_size_

NewPageSucceeds == ~AllPinned /\ UNCHANGED faults
FetchSucceeds(p) == (p \in pinned \/ ~AllPinned) /\ UNCHANGED faults

(* Another user of the pool has pinned the frames that the tree has not. *)
Fault == faults < MaxFaults /\ faults' = faults + 1

(* The call returns nullptr. *)
NewPageFails == (AllPinned /\ UNCHANGED faults) \/ Fault
FetchFails(p) == p \notin pinned /\ NewPageFails

(* The same of a call just after one that did not fail. *)
RefetchFails(p) == p \notin pinned /\ ~AllPinned /\ Fault
-----------------------------------------------------------------------------
(* The pages. *)

(* Mistake: a key that is equal counts as above. *)
FirstAbove_OrEqual(data, first, k) ==
  CHOOSE i \in first..(Len(data) + 1) :
    /\ \A j \in first..(i - 1) : data[j].key < k
    /\ i <= Len(data) => data[i].key >= k

(* The first entry from the given one on whose key is above k, or size.    *)
FirstAbove(data, first, k) ==
  CHOOSE i \in first..(Len(data) + 1) :
    /\ \A j \in first..(i - 1) : data[j].key <= k
    /\ i <= Len(data) => data[i].key > k

(* Lookup: the child whose separator is the last one not above k.  The     *)
(* entries of a page are sorted, so the binary search finds it.            *)
Lookup(node, k) == node.data[FirstAbove(node.data, 2, k) - 1].child

(* InsertEntry of both kinds of page: behind the keys that are not above.  *)
InsertEntry(data, first, e) ==
  LET pos == FirstAbove(data, first, e.key)
  IN [i \in 1..(Len(data) + 1) |->
        IF i < pos THEN data[i] ELSE IF i = pos THEN e ELSE data[i - 1]]

InsertSeparator(data, split) ==
  InsertEntry(data, 2, [key |-> split.key, child |-> split.right_pid])

mid(data) == Len(data) \div 2
LowerHalf(data) == SubSeq(data, 1, mid(data))
UpperHalf(data) == SubSeq(data, mid(data) + 1, Len(data))
-----------------------------------------------------------------------------
(* Insert. *)

Goto(l) == pc' = l

(* Insert returns, or throws; its local variables are gone. *)
Leave ==
  /\ Goto("idle")
  /\ key' = 0 /\ rid' = NoRid /\ path' = << >> /\ pid' = INVALID_PAGE_ID /\ result' = NoSplit
  /\ UNCHANGED <<answer, inserts>>

Return ==
  /\ Leave
  /\ map' = [map EXCEPT ![key] = rid]
  /\ doubtful' = {d \in doubtful : d[1] # key}
  /\ UNCHANGED <<leaked, dropped>>

Throw ==
  /\ Leave
  /\ doubtful' = doubtful \cup {<<key, rid>>}
  /\ UNCHANGED <<pages, root_page_id_, map>>

Crash ==
  /\ Goto("crashed")
  /\ UNCHANGED <<pages, root_page_id_, leaked, insertVars, answer, inserts, historyVars>>

Insert(k, r) ==
  /\ pc = "idle" /\ inserts < MaxInserts
  /\ inserts' = inserts + 1 /\ key' = k /\ rid' = r /\ pid' = root_page_id_
  /\ answer' = NoAnswer
  /\ Goto(IF root_page_id_ = INVALID_PAGE_ID THEN "first_page" ELSE "in_page")
  /\ UNCHANGED <<pages, root_page_id_, leaked, path, result, faults, historyVars>>

FirstPage ==
  /\ pc = "first_page"
  /\ \/ /\ NewPageSucceeds
        /\ pages' = Append(pages, Leaf(<<[key |-> key, rid |-> rid]>>, INVALID_PAGE_ID))
        /\ root_page_id_' = new_pid
        /\ Return
     \/ NewPageFails /\ Throw /\ UNCHANGED <<leaked, dropped>>

(* InsertInPage, and InsertInInternal up to the recursive call: the page   *)
(* is fetched twice, the second time without a check.                      *)
InsertInPage ==
  /\ pc = "in_page"
  /\ \/ /\ FetchSucceeds(pid)
        /\ IF IsLeaf(page(pid))
           THEN Goto("in_leaf") /\ UNCHANGED <<path, pid>>
           ELSE Goto("in_page") /\ path' = <<pid>> \o path /\ pid' = Lookup(page(pid), key)
        /\ UNCHANGED <<pages, root_page_id_, leaked, key, rid, result, answer, inserts, historyVars>>
     \/ FetchFails(pid) /\ Throw /\ UNCHANGED <<leaked, dropped>>
     \/ RefetchFails(pid) /\ ~IsLeaf(page(pid)) /\ Crash

(* The entries of the leaf with the key in it. *)
WithEntry(data) ==
  IF \E i \in DOMAIN data : data[i].key = key
  THEN [i \in DOMAIN data |-> IF data[i].key = key THEN [data[i] EXCEPT !.rid = rid] ELSE data[i]]
  ELSE InsertEntry(data, 1, [key |-> key, rid |-> rid])

InsertInLeaf ==
  /\ pc = "in_leaf"
  /\ \/ /\ FetchSucceeds(pid)
        /\ pages' = [pages EXCEPT ![pid + 1].data = WithEntry(@)]
        /\ UNCHANGED root_page_id_
        /\ IF \/ Len(pages'[pid + 1].data) = Len(page(pid).data)
              \/ Len(pages'[pid + 1].data) < leaf_max_size_
           THEN Return
           ELSE Goto("leaf_split") /\ UNCHANGED <<leaked, insertVars, answer, inserts, historyVars>>
     \/ RefetchFails(pid) /\ Crash

(* Mistake: the old leaf is not linked to the new one. *)
LeafHalves_Unlinked(leaf) ==
  <<Leaf(LowerHalf(leaf.data), leaf.next_page_id), Leaf(UpperHalf(leaf.data), leaf.next_page_id)>>

LeafHalves(leaf) ==
  <<Leaf(LowerHalf(leaf.data), new_pid), Leaf(UpperHalf(leaf.data), leaf.next_page_id)>>

(* Mistake: the entry whose key is pushed up stays in the old node, too.   *)
InternalHalves_KeepsPushedUp(node) ==
  <<Internal(SubSeq(node.data, 1, mid(node.data) + 1)),
    Internal([UpperHalf(node.data) EXCEPT ![1].key = 0])>>

InternalHalves(node) ==
  <<Internal(LowerHalf(node.data)), Internal([UpperHalf(node.data) EXCEPT ![1].key = 0])>>

Split(halves) ==
  /\ pages' = Append([pages EXCEPT ![pid + 1] = halves[1]], halves[2])
  /\ result' = [key |-> page(pid).data[mid(page(pid).data) + 1].key, right_pid |-> new_pid]
  /\ Goto("up")
  /\ UNCHANGED <<root_page_id_, leaked, key, rid, path, pid, answer, inserts, historyVars>>

(* Mistake: the page is unpinned before the exception is thrown. *)
PinsAtThrow_Unpinned == leaked

PinsAtThrow == leaked \cup {pid}

SplitFails == NewPageFails /\ Throw /\ leaked' = PinsAtThrow /\ UNCHANGED dropped

LeafSplit ==
  /\ pc = "leaf_split"
  /\ \/ NewPageSucceeds /\ Split(LeafHalves(page(pid)))
     \/ SplitFails

(* InsertInInternal when the recursive call has returned a SplitResult. *)
InsertInInternal ==
  /\ pc = "up" /\ path # << >>
  /\ \/ /\ FetchSucceeds(Head(path))
        /\ pages' = [pages EXCEPT ![Head(path) + 1].data = InsertSeparator(@, result)]
        /\ UNCHANGED root_page_id_
        /\ IF Len(pages'[Head(path) + 1].data) <= internal_max_size_
           THEN Return
           ELSE /\ Goto("internal_split")
                /\ pid' = Head(path) /\ path' = Tail(path)
                /\ UNCHANGED <<leaked, key, rid, result, answer, inserts, historyVars>>
     \/ RefetchFails(Head(path)) /\ Crash

InternalSplit ==
  /\ pc = "internal_split"
  /\ \/ NewPageSucceeds /\ Split(InternalHalves(page(pid)))
     \/ SplitFails

RootSplit ==
  /\ pc = "up" /\ path = << >>
  /\ \/ /\ NewPageSucceeds
        /\ pages' = Append(pages, Internal(InsertSeparator(<<[key |-> 0, child |-> root_page_id_]>>, result)))
        /\ root_page_id_' = new_pid
        /\ Return
     \/ NewPageFails /\ Throw /\ dropped' = TRUE /\ UNCHANGED leaked
-----------------------------------------------------------------------------
(* Search and RangeScan. *)

(* The entries of a leaf that the loop of RangeScan pushes back; those the *)
(* binary search of Search finds, if low = high.                           *)
Matching(data) ==
  SubSeq(data, FirstAbove(data, 1, answer.low - 1), FirstAbove(data, 1, answer.high) - 1)

(* A key above the range. *)
EndsAt(leaf) == FirstAbove(leaf.data, 1, answer.high) <= Len(leaf.data)

(* The call of Search or RangeScan returns. *)
Answers(found, complete) ==
  /\ answer' = [answer EXCEPT !.found = found, !.complete = complete]
  /\ Goto("idle") /\ pid' = INVALID_PAGE_ID

Descends == pid' = Lookup(page(pid), answer.low) /\ UNCHANGED <<pc, answer>>

Begins(low, high, l) ==
  /\ pc = "idle"
  /\ answer' = [low |-> low, high |-> high, found |-> << >>,
                complete |-> root_page_id_ = INVALID_PAGE_ID]
  /\ Goto(IF root_page_id_ = INVALID_PAGE_ID THEN "idle" ELSE l) /\ pid' = root_page_id_
  /\ UNCHANGED <<pages, root_page_id_, leaked, key, rid, path, result, inserts, faults, historyVars>>

Search(k) == Begins(k, k, "search")

RangeScan(low, high) == Begins(low, high, "scan")

(* The loop of Search: it returns false for a page it cannot fetch. *)
SearchPage ==
  /\ pc = "search"
  /\ \/ /\ FetchSucceeds(pid)
        /\ IF IsLeaf(page(pid)) THEN Answers(Matching(page(pid).data), TRUE) ELSE Descends
     \/ FetchFails(pid) /\ Answers(<< >>, FALSE)
  /\ UNCHANGED <<pages, root_page_id_, leaked, key, rid, path, result, inserts, historyVars>>

(* RangeScan does not check what FetchPage returns. *)
ScanFails == FetchFails(pid) /\ Goto("crashed") /\ UNCHANGED <<pid, answer>>

(* Its loop down to a leaf. *)
ScanPage ==
  /\ pc = "scan"
  /\ \/ /\ FetchSucceeds(pid)
        /\ IF IsLeaf(page(pid)) THEN Goto("scan_leaf") /\ UNCHANGED <<pid, answer>> ELSE Descends
     \/ ScanFails
  /\ UNCHANGED <<pages, root_page_id_, leaked, key, rid, path, result, inserts, historyVars>>

(* Its loop along the chain of leaves. *)
ScanLeaf ==
  /\ pc = "scan_leaf"
  /\ \/ /\ FetchSucceeds(pid)
        /\ LET leaf == page(pid)
               found == answer.found \o Matching(leaf.data)
           IN IF EndsAt(leaf) \/ leaf.next_page_id = INVALID_PAGE_ID
              THEN Answers(found, TRUE)
              ELSE /\ pid' = leaf.next_page_id
                   /\ answer' = [answer EXCEPT !.found = found]
                   /\ UNCHANGED pc
     \/ ScanFails
  /\ UNCHANGED <<pages, root_page_id_, leaked, key, rid, path, result, inserts, historyVars>>
-----------------------------------------------------------------------------
InsertStep ==
  \/ FirstPage \/ InsertInPage \/ InsertInLeaf \/ LeafSplit
  \/ InsertInInternal \/ InternalSplit \/ RootSplit

ReadStep == SearchPage \/ ScanPage \/ ScanLeaf

Next ==
  \/ \E k \in Keys : \E r \in RIDs[k] : Insert(k, r)
  \/ InsertStep
  \/ \E k \in Searched : Search(k)
  \/ \E r \in Ranges : RangeScan(r[1], r[2])
  \/ ReadStep

Spec == Init /\ [][Next]_vars
-----------------------------------------------------------------------------
PageIds == 0..(Len(pages) - 1)

(* A subtree is <<p, low, high>>: the page at its top and the range of     *)
(* keys it is in charge of.                                                *)
Children(t) ==
  LET data == page(t[1]).data
  IN {<<data[i].child, IF i = 1 THEN t[2] ELSE data[i].key,
                       IF i = Len(data) THEN t[3] ELSE data[i + 1].key>> : i \in DOMAIN data}

(* The subtrees at depth d. *)
Level[d \in Nat] ==
  IF d = 0 THEN {<<root_page_id_, MinKey, MaxKey + 1>>} ELSE UNION {Children(t) : t \in Level[d - 1]}

(* "Invariant: subtree at data[i].child holds keys in [data[i].key,        *)
(* data[i+1].key)" (storage/bplus_tree.cpp:31): at all times, between the  *)
(* steps of a split as well as after an exception, for the subtrees of the *)
(* root, all of whose leaves are at the same depth.                        *)
SubtreesInRange ==
  root_page_id_ # INVALID_PAGE_ID =>
    \E depth \in 0..Len(pages) :
      /\ \A d \in 0..(depth - 1) : \A t \in Level[d] : ~IsLeaf(page(t[1]))
      /\ \A t \in Level[depth] :
           LET data == page(t[1]).data
           IN /\ IsLeaf(page(t[1]))
              /\ \A i \in DOMAIN data : t[2] <= data[i].key /\ data[i].key < t[3]

(* A call of Search or RangeScan finds for each key the rid of the last    *)
(* Insert of it: of the last one to return, or of a later one that threw   *)
(* an exception, which may or may not have left its entry behind.  Of the  *)
(* exceptions a full pool causes, only the one that finds the root split   *)
(* and no frame for the new root makes keys disappear.                     *)
InsertedIsFound ==
  pc = "idle" /\ ~dropped /\ answer.complete =>
    \A k \in Keys \cap (answer.low..answer.high) :
      LET rids == {e.rid : e \in {e \in Range(answer.found) : e.key = k}}
      IN \/ \E r \in RIDs[k] : rids = {r} /\ (r = map[k] \/ <<k, r>> \in doubtful)
         \/ rids = {} /\ map[k] = NoRid

(* The entries of all the leaves. *)
Contents == UNION {Range(page(p).data) : p \in {p \in PageIds : IsLeaf(page(p))}}

(* Search, down the tree, and RangeScan, along the chain of leaves, find   *)
(* the same: all entries of the range, in the order of their keys and none *)
(* twice.  Only a Search that could not fetch a page finds nothing.        *)
ScanIsSearches ==
  pc = "idle" /\ ~dropped =>
    LET found == answer.found
        matches == {e \in Contents : answer.low <= e.key /\ e.key <= answer.high}
    IN /\ \A i \in DOMAIN found : \A j \in DOMAIN found : i < j => found[i].key < found[j].key
       /\ Range(found) = IF answer.complete THEN matches ELSE {}

(* As long as no split has thrown an exception, a leaf holds fewer than    *)
(* leaf_max_size_ entries and an internal page at most internal_max_size_  *)
(* after each Insert; a split that throws takes a frame from the pool for  *)
(* good, since the page it could not split stays pinned.                   *)
OverfullOnlyAfterLeak ==
  pc = "idle" /\ leaked = {} =>
    \A p \in PageIds :
      Len(page(p).data) <= (IF IsLeaf(page(p)) THEN leaf_max_size_ - 1 ELSE internal_max_size_)

(* "Internal page exceeds PAGE_SIZE" (storage/bplus_tree.cpp:72): an       *)
(* internal page never holds more entries than fit in a page.              *)
InternalPageFits ==
  \A p \in PageIds : ~IsLeaf(page(p)) => Len(page(p).data) <= InternalCapacity
==============================================================================
