--------------------------- MODULE HeapFileProofs ----------------------------
(***************************************************************************)
(* Proofs about the heap file, for every number of pages, every size of a  *)
(* page and every set of tuples: the chain stays in one piece, a RID keeps *)
(* naming its tuple, pages fill up in order, and a walk along the chain    *)
(* sees everything once.                                                   *)
(***************************************************************************)
EXTENDS HeapFile, QueueLemmas

AnyTuple == Tuple \cup {Other}
AnyPage == PageIds \cup {INVALID_PAGE_ID}
Rid == PageIds \X Nat \X AnyTuple

Tuples(p) == current[p].tuples

TypeOK ==
  /\ pages \in 0..MaxPages
  /\ current \in [PageIds -> HeapPage]
  /\ durable \in [PageIds -> HeapPage]
  /\ first_page_id_ \in AnyPage /\ last_page_id_ \in AnyPage
  /\ pc \in {"none", "idle", "open", "insert", "allocate", "link", "write", "scan", "ids",
             "stopped", "cut"}
  /\ tuple \in AnyTuple /\ new_pid \in AnyPage /\ cur \in AnyPage
  /\ chain \in Seq(PageIds) /\ inserted \in Seq(Rid)

(* The chain is there once the file has been created, and its pages are    *)
(* allocated.                                                              *)
ChainIsAllocated ==
  /\ chain = << >> <=> pc = "none"
  /\ \A i \in DOMAIN chain : chain[i] < pages

(* What InsertTuple knows between its steps: the last page is full when it *)
(* allocates, the new page is empty and outside the chain when it links    *)
(* it, and empty when it writes to it.                                     *)
InsertKnows ==
  /\ pc \in {"allocate", "link"} => Len(Tuples(last_page_id_)) = MaxTuplesPerPage
  /\ pc = "link" => /\ new_pid \in PageIds /\ new_pid < pages
                    /\ new_pid \notin Range(chain)
                    /\ current[new_pid] = EmptyHeapPage
  /\ pc = "write" => Tuples(last_page_id_) = << >>

(* The number of tuples in the pages of the chain before the i-th. *)
Before(i) == (i - 1) * MaxTuplesPerPage

(* The j-th tuple of the i-th page is the one inserted as number           *)
(* Before(i) + j.                                                          *)
InsertedInOrder ==
  /\ chain = << >> => inserted = << >>
  /\ chain # << >> =>
       Len(inserted) = Before(Len(chain)) + Len(Tuples(chain[Len(chain)]))
  /\ \A i \in DOMAIN chain : \A j \in DOMAIN Tuples(chain[i]) :
       inserted[Before(i) + j] = <<chain[i], j - 1, Tuples(chain[i])[j]>>

(* The tuples a walk has seen when it has come to the i-th page. *)
SeenBefore(i) == SubSeq(inserted, 1, Before(i))

(* Where a walk is, and what it has seen so far. *)
WalkIsAt ==
  /\ pc = "open" => cur \in Range(chain)
  /\ pc = "scan" =>
       \/ cur = INVALID_PAGE_ID /\ out = inserted
       \/ \E i \in DOMAIN chain : cur = chain[i] /\ out = SeenBefore(i)
  /\ pc = "ids" =>
       \/ cur = INVALID_PAGE_ID /\ out = chain
       \/ \E i \in DOMAIN chain : cur = chain[i] /\ out = SubSeq(chain, 1, i - 1)
  /\ pc = "stopped" => \E k \in 0..Len(inserted) : out = SubSeq(inserted, 1, k)
  /\ pc = "cut" => \E k \in 0..Len(chain) : out = SubSeq(chain, 1, k)

IInv ==
  /\ TypeOK /\ ChainIsAllocated /\ ChainIntact /\ PagesFillUp /\ InsertKnows
  /\ RidsAreStable /\ InsertedInOrder /\ WalkIsAt
-----------------------------------------------------------------------------
(* Pages before a page, and what is in them. *)

LEMMA BeforeProperties ==
  ASSUME NEW i \in Nat \ {0}
  PROVE  /\ Before(i) \in Nat /\ Before(1) = 0
         /\ Before(i + 1) = Before(i) + MaxTuplesPerPage
         /\ \A n \in Nat : i < n => Before(i) + MaxTuplesPerPage <= Before(n)
<1> DEFINE M == MaxTuplesPerPage
<1>1. M \in Nat \ {0}
  BY HeapAssumption
<1> HIDE DEF M
<1>2. \A x \in Nat : x * M \in Nat
  BY <1>1
<1>3. (i - 1) * M \in Nat
  BY <1>2
<1>4. i * M = (i - 1) * M + M
  BY <1>1
<1>5. ASSUME NEW n \in Nat, i < n PROVE i * M <= (n - 1) * M
  <2>1. n - 1 - i \in Nat
    BY <1>5
  <2>2. (n - 1 - i) * M \in Nat
    BY <1>2, <2>1
  <2>3. (n - 1) * M = i * M + (n - 1 - i) * M
    BY <1>1, <1>5
  <2> QED BY <2>2, <2>3, <1>1
<1>6. (1 - 1) * M = 0
  BY <1>1
<1>7. (i + 1) - 1 = i
  OBVIOUS
<1> QED BY <1>1, <1>3, <1>4, <1>5, <1>6, <1>7 DEF Before, M

(* Where the i-th page's tuples are among the inserted ones. *)
LEMMA PlaceProperties ==
  ASSUME IInv, NEW i \in DOMAIN chain
  PROVE  /\ i \in Nat \ {0} /\ i <= Len(chain) /\ chain[i] \in PageIds
         /\ Tuples(chain[i]) \in Seq(AnyTuple) /\ Before(i) \in Nat
         /\ Before(i) + Len(Tuples(chain[i])) <= Len(inserted)
<1>1. chain \in Seq(PageIds) /\ Len(chain) \in Nat /\ DOMAIN chain = 1..Len(chain)
  BY LenProperties DEF IInv, TypeOK
<1>2. i \in Nat \ {0} /\ i <= Len(chain) /\ chain[i] \in PageIds
  BY <1>1
<1>3. \A p \in PageIds : Tuples(p) \in Seq(AnyTuple) /\ Len(Tuples(p)) \in Nat
  BY LenProperties DEF IInv, TypeOK, HeapPage, Tuples, AnyTuple
<1>4. Before(i) \in Nat
  BY <1>2, BeforeProperties
<1>5. /\ chain # << >> /\ Len(chain) \in DOMAIN chain
      /\ chain[Len(chain)] \in PageIds
  BY <1>1, <1>2
<1>6. Len(inserted) = Before(Len(chain)) + Len(Tuples(chain[Len(chain)]))
  BY <1>5 DEF IInv, InsertedInOrder
<1>7. CASE i < Len(chain)
  <2>1. Len(Tuples(chain[i])) = MaxTuplesPerPage
    BY <1>7 DEF IInv, PagesFillUp, Tuples
  <2>2. Before(i) + MaxTuplesPerPage <= Before(Len(chain))
    BY <1>1, <1>2, <1>7, BeforeProperties
  <2>3. Before(Len(chain)) \in Nat
    BY <1>1, <1>2, <1>5, BeforeProperties
  <2> QED BY <2>1, <2>2, <2>3, <1>2, <1>3, <1>4, <1>5, <1>6, HeapAssumption
<1>8. CASE i = Len(chain)
  BY <1>2, <1>3, <1>4, <1>6, <1>8
<1> QED BY <1>1, <1>2, <1>3, <1>4, <1>7, <1>8
-----------------------------------------------------------------------------
(* The initial state. *)
LEMMA InitHolds == Init => IInv
<1> SUFFICES ASSUME Init PROVE IInv
  OBVIOUS
<1>1. chain = << >> /\ inserted = << >> /\ pc = "none" /\ DOMAIN chain = {}
  BY DEF Init
<1>2. TypeOK
  <2>1. ASSUME NEW p \in PageIds PROVE ZeroPage \in HeapPage
    BY HeapAssumption DEF ZeroPage, HeapPage, PageIds
  <2>2. current \in [PageIds -> HeapPage] /\ durable \in [PageIds -> HeapPage]
    BY <2>1 DEF Init, Store!Init, Store!PageIds, PageIds
  <2>3. pages = 0
    BY Zenon DEF Init, Store!Init
  <2>4. pages \in 0..MaxPages
    BY <2>3, HeapAssumption
  <2> QED BY <2>2, <2>4, <1>1 DEF Init, TypeOK, AnyPage, AnyTuple, NoTuple, INVALID_PAGE_ID
<1>3. RidsAreStable
  BY <1>1 DEF RidsAreStable, Range
<1> QED BY <1>1, <1>2, <1>3 DEF IInv, ChainIsAllocated, ChainIntact, PagesFillUp,
              InsertKnows, InsertedInOrder, WalkIsAt

(* A step that leaves the pages of the chain and the inserted tuples alone *)
(* leaves what is said about them alone.                                   *)
LEMMA PagesUntouched ==
  ASSUME IInv, \A p \in Range(chain) : current'[p] = current[p],
         pages' \in Nat, pages <= pages', UNCHANGED historyVars,
         UNCHANGED first_page_id_, (pc = "none") = (pc' = "none"),
         pc' # "open" => pc # "open" /\ last_page_id_' = last_page_id_
  PROVE  /\ ChainIsAllocated' /\ ChainIntact' /\ PagesFillUp'
         /\ RidsAreStable' /\ InsertedInOrder'
<1>1. chain' = chain /\ inserted' = inserted
  BY DEF historyVars
<1>2. \A i \in DOMAIN chain : chain[i] \in PageIds /\ current'[chain[i]] = current[chain[i]]
  BY DEF IInv, TypeOK, Range
<1>3. ChainIsAllocated'
  <2>1. \A i \in DOMAIN chain : chain[i] < pages'
    BY <1>2 DEF IInv, TypeOK, ChainIsAllocated, PageIds
  <2> QED BY <1>1, <2>1 DEF IInv, ChainIsAllocated
<1>4. ChainIntact'
  BY <1>1, <1>2 DEF IInv, ChainIntact
<1>5. PagesFillUp'
  BY <1>1, <1>2 DEF IInv, PagesFillUp
<1>6. RidsAreStable'
  BY <1>1 DEF IInv, RidsAreStable
<1>7. InsertedInOrder'
  <2>1. \A i \in DOMAIN chain : Tuples(chain[i])' = Tuples(chain[i])
    BY <1>1, <1>2 DEF Tuples
  <2>2. chain # << >> => Len(chain) \in DOMAIN chain
    BY LenProperties DEF IInv, TypeOK
  <2> QED BY <1>1, <2>1, <2>2 DEF IInv, InsertedInOrder, Before, Tuples
<1> QED BY <1>3, <1>4, <1>5, <1>6, <1>7
-----------------------------------------------------------------------------
(* Steps that only read the pages. *)

LEMMA WriteBackKeeps ==
  ASSUME IInv, NEW p \in PageIds, WriteBack(p)
  PROVE  IInv'
<1>1. /\ UNCHANGED <<pages, current, fileVars, pc, insertVars, scanVars, historyVars>>
      /\ durable' = Store!Synced({p})
  BY DEF WriteBack, Store!Sync
<1>2. durable' \in [PageIds -> HeapPage]
  BY <1>1 DEF IInv, TypeOK, Store!Synced, Store!PageIds, PageIds
<1>3. TypeOK'
  BY <1>1, <1>2 DEF IInv, TypeOK, fileVars, insertVars, scanVars, historyVars
<1>4. /\ ChainIsAllocated' /\ ChainIntact' /\ PagesFillUp'
      /\ RidsAreStable' /\ InsertedInOrder'
  <2>1. pc' # "open" \/ pc = "open"
    BY <1>1
  <2> QED BY <1>1 DEF IInv, ChainIsAllocated, ChainIntact, PagesFillUp, RidsAreStable,
                 InsertedInOrder, Tuples, Before, fileVars, historyVars
<1>5. InsertKnows'
  BY <1>1 DEF IInv, InsertKnows, Tuples, fileVars, insertVars, historyVars
<1>6. WalkIsAt'
  BY <1>1 DEF IInv, WalkIsAt, SeenBefore, Before, scanVars, historyVars
<1> QED BY <1>3, <1>4, <1>5, <1>6 DEF IInv

LEMMA ReopenKeeps ==
  ASSUME IInv, Reopen
  PROVE  IInv'
<1>1. /\ UNCHANGED <<pages, current, first_page_id_, insertVars, out, historyVars>>
      /\ durable' = current /\ pc = "idle" /\ pc' = "open"
      /\ last_page_id_' = INVALID_PAGE_ID /\ cur' = first_page_id_
  BY DEF Reopen, Store!Close, Goto
<1>2. TypeOK'
  BY <1>1 DEF IInv, TypeOK, AnyPage, insertVars, historyVars
<1>3. /\ ChainIsAllocated' /\ ChainIntact' /\ PagesFillUp'
      /\ RidsAreStable' /\ InsertedInOrder'
  BY <1>1, PagesUntouched DEF IInv, TypeOK
<1>4. chain # << >> /\ first_page_id_ = chain[1]
  BY <1>1 DEF IInv, ChainIsAllocated, ChainIntact
<1>5. chain[1] \in Range(chain)
  BY <1>4 DEF IInv, TypeOK, Range
<1>6. InsertKnows' /\ WalkIsAt'
  BY <1>1, <1>4, <1>5 DEF InsertKnows, WalkIsAt, historyVars
<1> QED BY <1>2, <1>3, <1>6 DEF IInv

(* The page after one of the chain. *)
LEMMA NextInChain ==
  ASSUME IInv, NEW i \in DOMAIN chain
  PROVE  /\ chain[i] \in PageIds /\ chain[i] # INVALID_PAGE_ID
         /\ i = Len(chain) => current[chain[i]].next = INVALID_PAGE_ID
         /\ i # Len(chain) => /\ i + 1 \in DOMAIN chain
                              /\ current[chain[i]].next = chain[i + 1]
<1>1. chain \in Seq(PageIds) /\ DOMAIN chain = 1..Len(chain) /\ Len(chain) \in Nat
  BY LenProperties DEF IInv, TypeOK
<1>2. chain # << >>
  BY <1>1
<1>3. current[chain[i]].next = IF i = Len(chain) THEN INVALID_PAGE_ID ELSE chain[i + 1]
  BY <1>2 DEF IInv, ChainIntact
<1>4. \A p \in PageIds : p # INVALID_PAGE_ID
  BY HeapAssumption DEF PageIds, INVALID_PAGE_ID
<1>5. chain[i] \in PageIds /\ (i # Len(chain) => i + 1 \in DOMAIN chain)
  BY <1>1
<1> QED BY <1>3, <1>4, <1>5

LEMMA WalkOnKeeps ==
  ASSUME IInv, WalkOn
  PROVE  IInv'
<1>1. /\ UNCHANGED <<storeVars, first_page_id_, insertVars, out, historyVars>>
      /\ pc = "open"
  BY DEF WalkOn
<1>2. PICK i \in DOMAIN chain : cur = chain[i]
  BY <1>1 DEF IInv, WalkIsAt, Range
<1>3. CASE i = Len(chain)
  <2>1. /\ last_page_id_' = cur /\ cur' = INVALID_PAGE_ID /\ pc' = "idle"
    BY <1>2, <1>3, NextInChain DEF WalkOn, Goto
  <2>2. TypeOK'
    BY <1>1, <2>1 DEF IInv, TypeOK, AnyPage, storeVars, insertVars, historyVars
  <2>3. ChainIntact'
    BY <1>1, <1>2, <1>3, <2>1 DEF IInv, ChainIntact, storeVars, historyVars
  <2>4. ChainIsAllocated' /\ PagesFillUp' /\ RidsAreStable'
    BY <1>1, <2>1 DEF IInv, ChainIsAllocated, PagesFillUp, RidsAreStable, storeVars, historyVars
  <2>5. InsertedInOrder'
    BY <1>1 DEF IInv, InsertedInOrder, Tuples, Before, storeVars, historyVars
  <2>6. InsertKnows' /\ WalkIsAt'
    BY <2>1 DEF InsertKnows, WalkIsAt
  <2> QED BY <2>2, <2>3, <2>4, <2>5, <2>6 DEF IInv
<1>4. CASE i # Len(chain)
  <2>1. /\ i + 1 \in DOMAIN chain /\ cur' = chain[i + 1]
        /\ UNCHANGED <<last_page_id_, pc>> /\ cur' \in PageIds
    BY <1>2, <1>4, NextInChain DEF WalkOn, Goto
  <2>2. TypeOK'
    BY <1>1, <2>1 DEF IInv, TypeOK, AnyPage, storeVars, insertVars, historyVars
  <2>3. /\ ChainIsAllocated' /\ ChainIntact' /\ PagesFillUp'
        /\ RidsAreStable' /\ InsertedInOrder'
    BY <1>1, <2>1, PagesUntouched DEF storeVars, IInv, TypeOK
  <2>4. InsertKnows' /\ WalkIsAt'
    BY <1>1, <2>1 DEF InsertKnows, WalkIsAt, Range, historyVars
  <2> QED BY <2>2, <2>3, <2>4 DEF IInv
<1> QED BY <1>3, <1>4

LEMMA QuietInsertKeeps ==
  ASSUME IInv, InsertFails \/ LastIsFull \/ \E t \in Tuple : InsertTuple(t)
  PROVE  IInv'
<1>1. /\ UNCHANGED <<storeVars, fileVars, scanVars, historyVars>>
      /\ pc \in {"idle", "insert", "allocate", "link", "write"}
      /\ pc' \in {"idle", "insert", "allocate"}
      /\ tuple' \in AnyTuple /\ new_pid' \in AnyPage
  BY DEF InsertFails, LastIsFull, InsertTuple, Goto, insertVars, AnyTuple, AnyPage,
         NoTuple, IInv, TypeOK
<1>2. TypeOK'
  BY <1>1 DEF IInv, TypeOK, storeVars, fileVars, scanVars, historyVars
<1>3. /\ ChainIsAllocated' /\ ChainIntact' /\ PagesFillUp'
      /\ RidsAreStable' /\ InsertedInOrder'
  BY <1>1, PagesUntouched DEF storeVars, fileVars, IInv, TypeOK
<1>4. pc' = "allocate" => Len(Tuples(last_page_id_)) = MaxTuplesPerPage
  <2> SUFFICES ASSUME pc' = "allocate" PROVE Len(Tuples(last_page_id_)) = MaxTuplesPerPage
    OBVIOUS
  <2>1. LastIsFull
    BY DEF InsertFails, InsertTuple, Goto
  <2>2. /\ chain \in Seq(PageIds) /\ chain # << >>
        /\ last_page_id_ = chain[Len(chain)] /\ Len(chain) \in DOMAIN chain
    BY <2>1, LenProperties DEF LastIsFull, IInv, TypeOK, ChainIsAllocated, ChainIntact
  <2>3. Len(Tuples(last_page_id_)) <= MaxTuplesPerPage /\ last_page_id_ \in PageIds
    BY <2>2 DEF IInv, PagesFillUp, Tuples
  <2>4. Len(Tuples(last_page_id_)) \in Nat
    BY <2>3 DEF IInv, TypeOK, HeapPage, Tuples
  <2> QED BY <2>1, <2>3, <2>4, HeapAssumption DEF LastIsFull, Full, Tuples
<1>5. InsertKnows'
  BY <1>1, <1>4 DEF InsertKnows, Tuples, storeVars, fileVars
<1>6. WalkIsAt'
  BY <1>1 DEF WalkIsAt
<1> QED BY <1>2, <1>3, <1>5, <1>6 DEF IInv

(* Scan and GetPageIds begin and return. *)
LEMMA WalkStartsOrEnds ==
  ASSUME IInv, Scan \/ GetPageIds \/ ScanReturns
  PROVE  IInv'
<1>1. /\ UNCHANGED <<storeVars, fileVars, insertVars, historyVars>>
      /\ pc \in {"idle", "scan", "ids", "stopped", "cut"} /\ pc' \in {"idle", "scan", "ids"}
      /\ cur' \in AnyPage
      /\ pc' # "idle" => cur' = first_page_id_ /\ out' = << >>
  BY DEF Scan, GetPageIds, Start, ScanReturns, Return, Goto, AnyPage, IInv, TypeOK
<1>2. TypeOK'
  BY <1>1 DEF IInv, TypeOK, storeVars, fileVars, insertVars, historyVars
<1>3. /\ ChainIsAllocated' /\ ChainIntact' /\ PagesFillUp'
      /\ RidsAreStable' /\ InsertedInOrder'
  BY <1>1, PagesUntouched DEF storeVars, fileVars, IInv, TypeOK
<1>4. chain # << >> /\ first_page_id_ = chain[1] /\ 1 \in DOMAIN chain
  BY <1>1, LenProperties DEF IInv, TypeOK, ChainIsAllocated, ChainIntact
<1>5. Before(1) = 0
  BY BeforeProperties
<1>6. SeenBefore(1) = << >> /\ SubSeq(chain, 1, 1 - 1) = << >>
  BY <1>5, SubSeqEmpty DEF SeenBefore
<1>7. chain' = chain /\ inserted' = inserted /\ SeenBefore(1)' = SeenBefore(1)
  BY <1>1 DEF historyVars, SeenBefore, Before
<1>8. WalkIsAt'
  BY <1>1, <1>4, <1>6, <1>7 DEF WalkIsAt
<1>9. InsertKnows'
  BY <1>1 DEF InsertKnows
<1> QED BY <1>2, <1>3, <1>8, <1>9 DEF IInv

(* The first n of the inserted tuples. *)
LEMMA InsertedPrefix ==
  ASSUME IInv, NEW n \in 0..Len(inserted)
  PROVE  /\ SubSeq(inserted, 1, n) \in Seq(Rid) /\ Len(SubSeq(inserted, 1, n)) = n
         /\ \A k \in 1..n : SubSeq(inserted, 1, n)[k] = inserted[k]
<1>1. inserted \in Seq(Rid) /\ Len(inserted) \in Nat
  BY LenProperties DEF IInv, TypeOK
<1>2. \A k \in 1..n : inserted[k] \in Rid
  BY <1>1, ElementOfSeq
<1>3. /\ SubSeq(inserted, 1, n) \in Seq(Rid)
      /\ Len(SubSeq(inserted, 1, n)) = IF 1 <= n THEN n - 1 + 1 ELSE 0
      /\ \A k \in 1..(n - 1 + 1) : SubSeq(inserted, 1, n)[k] = inserted[1 + k - 1]
  BY <1>1, <1>2, SubSeqProperties
<1> QED BY <1>1, <1>3

(* What Scan has seen when it has handed out m rows of the i-th page.      *)
LEMMA RowsOfPage ==
  ASSUME IInv, NEW i \in DOMAIN chain, NEW m \in 0..Len(Tuples(chain[i]))
  PROVE  /\ Before(i) + m \in 0..Len(inserted) /\ Rows(chain[i]) \in Seq(Rid)
         /\ Len(Rows(chain[i])) = Len(Tuples(chain[i]))
         /\ SeenBefore(i) \o SubSeq(Rows(chain[i]), 1, m) = SubSeq(inserted, 1, Before(i) + m)
<1> DEFINE ts == Tuples(chain[i])
           b == Before(i)
           s == SeenBefore(i)
           rows == Rows(chain[i])
           r == SubSeq(rows, 1, m)
<1>1. /\ i \in Nat \ {0} /\ ts \in Seq(AnyTuple) /\ b \in Nat /\ chain[i] \in PageIds
      /\ b + Len(ts) <= Len(inserted) /\ Len(ts) \in Nat /\ DOMAIN ts = 1..Len(ts)
  BY PlaceProperties, LenProperties
<1>2. inserted \in Seq(Rid) /\ Len(inserted) \in Nat /\ DOMAIN inserted = 1..Len(inserted)
  BY LenProperties DEF IInv, TypeOK
<1>3. \A j \in 1..Len(ts) : inserted[b + j] = <<chain[i], j - 1, ts[j]>>
  BY <1>1 DEF IInv, InsertedInOrder
<1>4. rows = [j \in 1..Len(ts) |-> <<chain[i], j - 1, ts[j]>>]
  BY <1>1 DEF Rows, Tuples
<1>5. m \in 0..Len(ts)
  OBVIOUS
<1> HIDE DEF ts, b, rows
<1>6. /\ rows \in Seq(Rid) /\ Len(rows) = Len(ts)
      /\ \A j \in 1..Len(ts) : rows[j] = inserted[b + j]
  <2>1. \A j \in 1..Len(ts) : rows[j] = inserted[b + j] /\ b + j \in 1..Len(inserted)
    BY <1>1, <1>2, <1>3, <1>4
  <2>2. \A j \in 1..Len(ts) : rows[j] \in Rid
    BY <1>2, <2>1, ElementOfSeq
  <2>3. rows \in [1..Len(ts) -> Rid]
    BY <1>4, <2>2
  <2>4. rows \in Seq(Rid)
    BY <1>1, <2>3, SeqDef
  <2>5. DOMAIN rows = 1..Len(ts)
    BY <2>3
  <2>6. Len(rows) = Len(ts)
    BY <1>1, <2>4, <2>5, LenProperties
  <2> QED BY <2>1, <2>4, <2>6
<1>7. r \in Seq(Rid) /\ Len(r) = m /\ \A j \in 1..m : r[j] = inserted[b + j]
  <2>1. \A j \in 1..m : rows[j] \in Rid /\ rows[j] = inserted[b + j]
    BY <1>1, <1>5, <1>6, ElementOfSeq
  <2>2. /\ r \in Seq(Rid) /\ Len(r) = IF 1 <= m THEN m - 1 + 1 ELSE 0
        /\ \A j \in 1..(m - 1 + 1) : r[j] = rows[1 + j - 1]
    BY <1>1, <1>5, <1>6, <2>1, SubSeqProperties
  <2> QED BY <1>1, <1>5, <2>1, <2>2
<1>8. b \in 0..Len(inserted) /\ b + m \in 0..Len(inserted)
  BY <1>1, <1>2, <1>5
<1>9. s \in Seq(Rid) /\ Len(s) = b /\ \A k \in 1..b : s[k] = inserted[k]
  BY <1>8, InsertedPrefix DEF SeenBefore, b
<1> HIDE DEF s, r
<1>10. /\ s \o r \in Seq(Rid) /\ Len(s \o r) = b + m
       /\ \A k \in 1..(b + m) : (s \o r)[k] = inserted[k]
  <2>1. /\ s \o r \in Seq(Rid) /\ Len(s \o r) = b + m
        /\ \A k \in 1..(b + m) : (s \o r)[k] = IF k <= b THEN s[k] ELSE r[k - b]
    BY <1>7, <1>9, ConcatProperties
  <2>2. ASSUME NEW k \in 1..(b + m) PROVE (s \o r)[k] = inserted[k]
    <3>1. CASE k <= b
      BY <1>1, <1>9, <2>1, <3>1
    <3>2. CASE ~(k <= b)
      <4>1. k - b \in 1..m /\ b + (k - b) = k
        BY <1>1, <1>5, <3>2
      <4> QED BY <4>1, <1>7, <2>1, <3>2
    <3> QED BY <3>1, <3>2
  <2> QED BY <2>1, <2>2
<1>11. s \o r = SubSeq(inserted, 1, b + m)
  <2> DEFINE n == b + m
  <2>1. n \in 0..Len(inserted)
    BY <1>8
  <2>2. /\ SubSeq(inserted, 1, n) \in Seq(Rid) /\ Len(SubSeq(inserted, 1, n)) = n
        /\ \A k \in 1..n : SubSeq(inserted, 1, n)[k] = inserted[k]
    BY <2>1, InsertedPrefix
  <2>3. s \o r \in Seq(Rid) /\ Len(s \o r) = n /\ \A k \in 1..n : (s \o r)[k] = inserted[k]
    BY <1>10
  <2> HIDE DEF n
  <2>4. s \o r = SubSeq(inserted, 1, n)
    BY <2>2, <2>3, SeqEqual
  <2> QED BY <2>4 DEF n
<1> QED BY <1>6, <1>8, <1>11 DEF b, s, r, rows, ts

(* What Scan has seen when it has handed out all rows of the i-th page.    *)
LEMMA AllRowsOfPage ==
  ASSUME IInv, NEW i \in DOMAIN chain
  PROVE  SeenBefore(i) \o Rows(chain[i]) =
           IF i = Len(chain) THEN inserted ELSE SeenBefore(i + 1)
<1> DEFINE m == Len(Tuples(chain[i]))
<1>1. /\ i \in Nat \ {0} /\ Before(i) \in Nat /\ m \in Nat /\ inserted \in Seq(Rid)
  BY PlaceProperties, LenProperties DEF IInv, TypeOK
<1>2. m \in 0..m
  BY <1>1
<1>3. /\ Rows(chain[i]) \in Seq(Rid) /\ Len(Rows(chain[i])) = m
      /\ SeenBefore(i) \o SubSeq(Rows(chain[i]), 1, m) = SubSeq(inserted, 1, Before(i) + m)
  BY <1>2, RowsOfPage
<1>4. SubSeq(Rows(chain[i]), 1, m) = Rows(chain[i])
  BY <1>3, SubSeqFull
<1>5. CASE i = Len(chain)
  <2>1. Before(i) + m = Len(inserted)
    BY <1>1, <1>5 DEF IInv, InsertedInOrder
  <2>2. SubSeq(inserted, 1, Len(inserted)) = inserted
    BY <1>1, SubSeqFull
  <2> QED BY <1>3, <1>4, <1>5, <2>1, <2>2
<1>6. CASE i # Len(chain)
  <2>1. m = MaxTuplesPerPage
    BY <1>6, PlaceProperties, LenProperties DEF IInv, TypeOK, PagesFillUp, Tuples
  <2>2. Before(i + 1) = Before(i) + m
    BY <1>1, <2>1, BeforeProperties
  <2> QED BY <1>3, <1>4, <1>6, <2>2 DEF SeenBefore
<1> QED BY <1>5, <1>6

LEMMA ScanNextKeeps ==
  ASSUME IInv, ScanNext
  PROVE  IInv'
<1>1. /\ UNCHANGED <<storeVars, fileVars, pc, insertVars, historyVars>>
      /\ pc = "scan" /\ out' = out \o Rows(cur) /\ cur' = current[cur].next
  BY DEF ScanNext
<1>2. PICK i \in DOMAIN chain : cur = chain[i] /\ out = SeenBefore(i)
  BY DEF ScanNext, IInv, WalkIsAt
<1>3. out' = IF i = Len(chain) THEN inserted ELSE SeenBefore(i + 1)
  BY <1>1, <1>2, AllRowsOfPage
<1>4. /\ i = Len(chain) => cur' = INVALID_PAGE_ID
      /\ i # Len(chain) => i + 1 \in DOMAIN chain /\ cur' = chain[i + 1]
      /\ cur' \in AnyPage
  BY <1>1, <1>2, NextInChain DEF AnyPage
<1>5. TypeOK'
  BY <1>1, <1>4 DEF IInv, TypeOK, storeVars, fileVars, insertVars, historyVars
<1>6. /\ ChainIsAllocated' /\ ChainIntact' /\ PagesFillUp'
      /\ RidsAreStable' /\ InsertedInOrder'
  BY <1>1, PagesUntouched DEF storeVars, fileVars, IInv, TypeOK
<1>7. chain' = chain /\ inserted' = inserted /\ SeenBefore(i + 1)' = SeenBefore(i + 1)
  BY <1>1 DEF historyVars, SeenBefore, Before
<1>8. WalkIsAt'
  BY <1>1, <1>3, <1>4, <1>7 DEF WalkIsAt
<1>9. InsertKnows'
  BY <1>1 DEF InsertKnows
<1> QED BY <1>5, <1>6, <1>8, <1>9 DEF IInv

(* A Scan stops among the rows of a page. *)
LEMMA ScanStopsKeeps ==
  ASSUME IInv, ScanStops
  PROVE  IInv'
<1>1. /\ UNCHANGED <<storeVars, fileVars, insertVars, historyVars>>
      /\ pc = "scan" /\ pc' = "stopped" /\ cur' = INVALID_PAGE_ID /\ cur # INVALID_PAGE_ID
  BY DEF ScanStops, Goto
<1>2. PICK i \in DOMAIN chain : cur = chain[i] /\ out = SeenBefore(i)
  BY <1>1 DEF IInv, WalkIsAt
<1>3. PICK m \in 0..Len(Rows(cur)) : out' = out \o SubSeq(Rows(cur), 1, m)
  BY DEF ScanStops
<1>4. \E k \in 0..Len(inserted) : out' = SubSeq(inserted, 1, k)
  <2>1. 0 \in 0..Len(Tuples(chain[i]))
    BY PlaceProperties, LenProperties
  <2>2. Len(Rows(chain[i])) = Len(Tuples(chain[i]))
    BY <2>1, RowsOfPage
  <2>3. m \in 0..Len(Tuples(chain[i]))
    BY <1>2, <1>3, <2>2
  <2>4. /\ Before(i) + m \in 0..Len(inserted)
        /\ SeenBefore(i) \o SubSeq(Rows(chain[i]), 1, m) = SubSeq(inserted, 1, Before(i) + m)
    BY <2>3, RowsOfPage
  <2> QED BY <1>2, <1>3, <2>4
<1>5. TypeOK'
  BY <1>1 DEF IInv, TypeOK, AnyPage, storeVars, fileVars, insertVars, historyVars
<1>6. /\ ChainIsAllocated' /\ ChainIntact' /\ PagesFillUp'
      /\ RidsAreStable' /\ InsertedInOrder'
  BY <1>1, PagesUntouched DEF storeVars, fileVars, IInv, TypeOK
<1>7. WalkIsAt'
  BY <1>1, <1>4 DEF WalkIsAt, historyVars
<1>8. InsertKnows'
  BY <1>1 DEF InsertKnows
<1> QED BY <1>5, <1>6, <1>7, <1>8 DEF IInv

(* GetPageIds has listed the i-th page. *)
LEMMA ListedPage ==
  ASSUME IInv, NEW i \in DOMAIN chain
  PROVE  Append(SubSeq(chain, 1, i - 1), chain[i]) = SubSeq(chain, 1, i)
<1>1. chain \in Seq(PageIds) /\ DOMAIN chain = 1..Len(chain) /\ Len(chain) \in Nat
  BY LenProperties DEF IInv, TypeOK
<1>2. SubSeq(chain, 1, i) = SubSeq(chain, 1, i - 1) \o <<chain[i]>>
  <2>1. 1 \in 1..Len(chain) /\ i \in 1..Len(chain)
    BY <1>1
  <2> QED BY <1>1, <2>1, SubSeqRecursiveSecond
<1>3. \A k \in 1..(i - 1) : chain[k] \in PageIds
  BY <1>1
<1>4. SubSeq(chain, 1, i - 1) \in Seq(PageIds)
  BY <1>1, <1>3, SubSeqProperties
<1>5. Append(SubSeq(chain, 1, i - 1), chain[i]) = SubSeq(chain, 1, i - 1) \o <<chain[i]>>
  <2>1. chain[i] \in PageIds
    BY <1>1
  <2> QED BY <1>4, <2>1, AppendIsConcat
<1> QED BY <1>2, <1>5

LEMMA IdsNextKeeps ==
  ASSUME IInv, IdsNext
  PROVE  IInv'
<1>1. /\ UNCHANGED <<storeVars, fileVars, pc, insertVars, historyVars>>
      /\ pc = "ids" /\ out' = Append(out, cur) /\ cur' = current[cur].next
  BY DEF IdsNext, ListedId
<1>2. PICK i \in DOMAIN chain : cur = chain[i] /\ out = SubSeq(chain, 1, i - 1)
  BY DEF IdsNext, IInv, WalkIsAt
<1>3. chain \in Seq(PageIds) /\ DOMAIN chain = 1..Len(chain) /\ Len(chain) \in Nat
  BY LenProperties DEF IInv, TypeOK
<1>4. out' = SubSeq(chain, 1, i)
  BY <1>1, <1>2, ListedPage
<1>5. /\ i = Len(chain) => cur' = INVALID_PAGE_ID
      /\ i # Len(chain) => i + 1 \in DOMAIN chain /\ cur' = chain[i + 1]
      /\ cur' \in AnyPage
  BY <1>1, <1>2, NextInChain DEF AnyPage
<1>6. TypeOK'
  BY <1>1, <1>5 DEF IInv, TypeOK, storeVars, fileVars, insertVars, historyVars
<1>7. /\ ChainIsAllocated' /\ ChainIntact' /\ PagesFillUp'
      /\ RidsAreStable' /\ InsertedInOrder'
  BY <1>1, PagesUntouched DEF storeVars, fileVars, IInv, TypeOK
<1>8. i = Len(chain) => out' = chain
  BY <1>3, <1>4, SubSeqFull
<1>9. (i + 1) - 1 = i
  BY <1>3
<1>10. WalkIsAt'
  BY <1>1, <1>4, <1>5, <1>8, <1>9 DEF WalkIsAt, historyVars
<1>11. InsertKnows'
  BY <1>1 DEF InsertKnows
<1> QED BY <1>6, <1>7, <1>10, <1>11 DEF IInv

(* GetPageIds stops after listing a page. *)
LEMMA IdsStopKeeps ==
  ASSUME IInv, IdsStop
  PROVE  IInv'
<1>1. /\ UNCHANGED <<storeVars, fileVars, insertVars, historyVars>>
      /\ pc = "ids" /\ pc' = "cut" /\ out' = Append(out, cur)
      /\ cur' = INVALID_PAGE_ID /\ cur # INVALID_PAGE_ID
  BY DEF IdsStop, ListedId, Goto
<1>2. PICK i \in DOMAIN chain : cur = chain[i] /\ out = SubSeq(chain, 1, i - 1)
  BY <1>1 DEF IInv, WalkIsAt
<1>3. out' = SubSeq(chain, 1, i) /\ i \in 0..Len(chain)
  <2>1. out' = Append(SubSeq(chain, 1, i - 1), chain[i])
    BY <1>1, <1>2
  <2>2. Append(SubSeq(chain, 1, i - 1), chain[i]) = SubSeq(chain, 1, i)
    BY ListedPage
  <2>3. i \in 0..Len(chain)
    BY LenProperties DEF IInv, TypeOK
  <2> QED BY <2>1, <2>2, <2>3
<1>4. TypeOK'
  BY <1>1 DEF IInv, TypeOK, AnyPage, storeVars, fileVars, insertVars, historyVars
<1>5. /\ ChainIsAllocated' /\ ChainIntact' /\ PagesFillUp'
      /\ RidsAreStable' /\ InsertedInOrder'
  BY <1>1, PagesUntouched DEF storeVars, fileVars, IInv, TypeOK
<1>6. WalkIsAt'
  BY <1>1, <1>3 DEF WalkIsAt, historyVars
<1>7. InsertKnows'
  BY <1>1 DEF InsertKnows
<1> QED BY <1>4, <1>5, <1>6, <1>7 DEF IInv
-----------------------------------------------------------------------------
(* Steps that allocate a page. *)

LEMMA NewPageIsOutside ==
  ASSUME IInv, pages < MaxPages
  PROVE  /\ pages \in PageIds /\ pages \notin Range(chain) /\ pages + 1 \in 0..MaxPages
         /\ \A p \in Range(chain) : p \in PageIds /\ p # pages
<1>1. pages \in PageIds /\ pages + 1 \in 0..MaxPages
  BY HeapAssumption DEF IInv, TypeOK, PageIds
<1>2. \A i \in DOMAIN chain : chain[i] \in PageIds /\ chain[i] < pages
  BY DEF IInv, TypeOK, ChainIsAllocated
<1>3. \A p \in PageIds : ~(p < p)
  BY DEF PageIds
<1>4. \A p \in Range(chain) : p \in PageIds /\ p # pages
  BY <1>1, <1>2, <1>3 DEF Range
<1> QED BY <1>1, <1>4

LEMMA PageTypes ==
  /\ EmptyHeapPage \in HeapPage
  /\ [tuples |-> <<Other>>, next |-> INVALID_PAGE_ID] \in HeapPage
  /\ \A p \in PageIds : ZeroPage \in HeapPage
<1>1. \A p \in PageIds : 0 \in PageIds
  BY HeapAssumption DEF PageIds
<1>2. <<Other>> \in Seq(Tuple \cup {Other}) /\ << >> \in Seq(Tuple \cup {Other})
  OBVIOUS
<1> QED BY <1>1, <1>2 DEF HeapPage, EmptyHeapPage, ZeroPage

LEMMA OtherTableKeeps ==
  ASSUME IInv, OtherTable
  PROVE  IInv'
<1> DEFINE page == [tuples |-> <<Other>>, next |-> INVALID_PAGE_ID]
<1>1. /\ pages < MaxPages - 1 /\ pages' = pages + 1 /\ pc \in {"none", "idle"}
      /\ current' = [current EXCEPT ![pages] = page]
      /\ durable' = [durable EXCEPT ![pages] = ZeroPage]
      /\ UNCHANGED <<fileVars, pc, insertVars, scanVars, historyVars>>
  BY DEF OtherTable
<1>2. pages < MaxPages /\ pages \in Nat
  BY <1>1, HeapAssumption DEF IInv, TypeOK
<1>3. /\ pages \in PageIds /\ pages + 1 \in 0..MaxPages /\ pages + 1 \in Nat
      /\ pages <= pages + 1 /\ \A p \in Range(chain) : p \in PageIds /\ p # pages
  BY <1>2, NewPageIsOutside
<1>4. page \in HeapPage /\ ZeroPage \in HeapPage
  BY <1>3, PageTypes
<1> HIDE DEF page
<1>5. TypeOK'
  BY <1>1, <1>3, <1>4 DEF IInv, TypeOK, fileVars, insertVars, scanVars, historyVars
<1>6. \A p \in Range(chain) : current'[p] = current[p]
  BY <1>1, <1>3 DEF IInv, TypeOK
<1>7. /\ ChainIsAllocated' /\ ChainIntact' /\ PagesFillUp'
      /\ RidsAreStable' /\ InsertedInOrder'
  BY <1>1, <1>3, <1>6, PagesUntouched DEF fileVars
<1>8. InsertKnows' /\ WalkIsAt'
  BY <1>1 DEF InsertKnows, WalkIsAt
<1> QED BY <1>5, <1>7, <1>8 DEF IInv

LEMMA AllocateNextKeeps ==
  ASSUME IInv, AllocateNext
  PROVE  IInv'
<1>1. /\ pages < MaxPages /\ pages' = pages + 1 /\ pc = "allocate" /\ pc' = "link"
      /\ current' = [current EXCEPT ![pages] = EmptyHeapPage]
      /\ durable' = [durable EXCEPT ![pages] = ZeroPage]
      /\ new_pid' = pages /\ UNCHANGED <<fileVars, tuple, scanVars, historyVars>>
  BY DEF AllocateNext, AllocateHeapPage, Goto
<1>2. pages \in Nat
  BY DEF IInv, TypeOK
<1>3. /\ pages \in PageIds /\ pages + 1 \in 0..MaxPages /\ pages + 1 \in Nat
      /\ pages <= pages + 1 /\ pages < pages + 1
      /\ \A p \in Range(chain) : p \in PageIds /\ p # pages
  BY <1>1, <1>2, NewPageIsOutside
<1>4. EmptyHeapPage \in HeapPage /\ ZeroPage \in HeapPage
  BY <1>3, PageTypes
<1>5. TypeOK'
  BY <1>1, <1>3, <1>4 DEF IInv, TypeOK, AnyPage, fileVars, scanVars, historyVars
<1>6. \A p \in Range(chain) : current'[p] = current[p]
  BY <1>1, <1>3 DEF IInv, TypeOK
<1>7. /\ ChainIsAllocated' /\ ChainIntact' /\ PagesFillUp'
      /\ RidsAreStable' /\ InsertedInOrder'
  BY <1>1, <1>3, <1>6, PagesUntouched DEF fileVars
<1>8. InsertKnows'
  <2>1. last_page_id_ \in Range(chain)
    BY <1>1, LenProperties DEF IInv, TypeOK, ChainIsAllocated, ChainIntact, Range
  <2>2. Tuples(last_page_id_)' = Tuples(last_page_id_)
    BY <1>1, <1>6, <2>1 DEF Tuples, fileVars
  <2>3. current'[pages] = EmptyHeapPage
    BY <1>1, <1>3 DEF IInv, TypeOK
  <2> QED BY <1>1, <1>3, <2>2, <2>3 DEF IInv, InsertKnows, historyVars
<1>9. WalkIsAt'
  BY <1>1 DEF WalkIsAt
<1> QED BY <1>5, <1>7, <1>8, <1>9 DEF IInv

LEMMA CreateKeeps ==
  ASSUME IInv, Create
  PROVE  IInv'
<1>1. /\ pages < MaxPages /\ pages' = pages + 1 /\ pc = "none" /\ pc' = "idle"
      /\ current' = [current EXCEPT ![pages] = EmptyHeapPage]
      /\ durable' = [durable EXCEPT ![pages] = ZeroPage]
      /\ first_page_id_' = pages /\ last_page_id_' = pages /\ chain' = <<pages>>
      /\ UNCHANGED <<insertVars, scanVars, inserted>>
  BY DEF Create, AllocateHeapPage, Goto
<1>2. pages \in Nat
  BY DEF IInv, TypeOK
<1>3. pages \in PageIds /\ pages + 1 \in 0..MaxPages /\ pages < pages + 1
  BY <1>1, <1>2, NewPageIsOutside
<1>4. EmptyHeapPage \in HeapPage /\ ZeroPage \in HeapPage
  BY <1>3, PageTypes
<1>5. /\ chain' \in Seq(PageIds) /\ Len(chain') = 1 /\ chain' # << >>
      /\ DOMAIN chain' = {1} /\ chain'[1] = pages /\ Range(chain') = {pages}
  BY <1>1, <1>3 DEF Range
<1>6. TypeOK'
  BY <1>1, <1>3, <1>4, <1>5 DEF IInv, TypeOK, AnyPage, insertVars, scanVars
<1>7. /\ current'[pages] = EmptyHeapPage /\ current'[pages].tuples = << >>
      /\ current'[pages].next = INVALID_PAGE_ID /\ DOMAIN current'[pages].tuples = {}
  BY <1>1, <1>3 DEF IInv, TypeOK, EmptyHeapPage
<1>8. inserted' = << >>
  BY <1>1 DEF IInv, ChainIsAllocated, InsertedInOrder
<1>9. ChainIsAllocated' /\ ChainIntact'
  BY <1>1, <1>3, <1>5, <1>7 DEF ChainIsAllocated, ChainIntact, IsInjective
<1>10. PagesFillUp'
  BY <1>5, <1>7, HeapAssumption DEF PagesFillUp
<1>11. RidsAreStable'
  BY <1>5, <1>7, <1>8 DEF RidsAreStable, Range
<1>12. InsertedInOrder'
  <2>1. (1 - 1) * MaxTuplesPerPage = 0
    BY HeapAssumption
  <2> QED BY <1>5, <1>7, <1>8, <2>1 DEF InsertedInOrder, Tuples, Before
<1>13. InsertKnows' /\ WalkIsAt'
  BY <1>1 DEF InsertKnows, WalkIsAt
<1> QED BY <1>6, <1>9, <1>10, <1>11, <1>12, <1>13 DEF IInv
-----------------------------------------------------------------------------
(* Steps that change a page of the chain. *)

(* The last page of the chain, while a tuple is inserted. *)
LEMMA LastPage ==
  ASSUME IInv, pc \in {"insert", "link", "write"}
  PROVE  /\ chain # << >> /\ Len(chain) \in Nat \ {0} /\ DOMAIN chain = 1..Len(chain)
         /\ last_page_id_ = chain[Len(chain)] /\ Len(chain) \in DOMAIN chain
         /\ last_page_id_ \in PageIds /\ last_page_id_ # INVALID_PAGE_ID
         /\ last_page_id_ \in Range(chain)
         /\ \A i \in DOMAIN chain :
              chain[i] \in PageIds /\ (chain[i] = last_page_id_ <=> i = Len(chain))
<1>1. chain \in Seq(PageIds) /\ chain # << >>
  BY DEF IInv, TypeOK, ChainIsAllocated
<1>2. Len(chain) \in Nat \ {0} /\ DOMAIN chain = 1..Len(chain)
  BY <1>1, LenProperties, EmptySeq
<1>3. last_page_id_ = chain[Len(chain)] /\ IsInjective(chain)
  BY <1>1 DEF IInv, ChainIntact
<1>4. Len(chain) \in DOMAIN chain /\ \A i \in DOMAIN chain : chain[i] \in PageIds
  BY <1>1, <1>2
<1>5. last_page_id_ # INVALID_PAGE_ID
  BY <1>3, <1>4, HeapAssumption DEF PageIds, INVALID_PAGE_ID
<1> QED BY <1>1, <1>2, <1>3, <1>4, <1>5 DEF IsInjective, Range

LEMMA LinkKeeps ==
  ASSUME IInv, Link
  PROVE  IInv'
<1> DEFINE n == Len(chain)
           last == last_page_id_
           page == [current[last] EXCEPT !.next = new_pid]
<1>1. /\ pc = "link" /\ pc' = "write" /\ current' = [current EXCEPT ![last] = page]
      /\ last_page_id_' = new_pid /\ chain' = Append(chain, new_pid)
      /\ UNCHANGED <<pages, durable, first_page_id_, insertVars, scanVars, inserted>>
  BY DEF Link, Store!Put, LastAfterLink, Goto
<1>2. /\ new_pid \in PageIds /\ new_pid < pages /\ new_pid \notin Range(chain)
      /\ current[new_pid] = EmptyHeapPage /\ Len(Tuples(last)) = MaxTuplesPerPage
  BY <1>1 DEF IInv, InsertKnows
<1>3. /\ chain # << >> /\ n \in Nat \ {0} /\ DOMAIN chain = 1..n
      /\ last = chain[n] /\ n \in DOMAIN chain /\ last \in PageIds
      /\ last \in Range(chain)
      /\ \A i \in DOMAIN chain : chain[i] \in PageIds /\ (chain[i] = last <=> i = n)
  BY <1>1, LastPage
<1>4. /\ page \in HeapPage /\ page.tuples = Tuples(last) /\ page.next = new_pid
  BY <1>2, <1>3 DEF IInv, TypeOK, HeapPage, Tuples
<1>5. /\ current' \in [PageIds -> HeapPage]
      /\ \A p \in PageIds : current'[p].tuples = Tuples(p)
      /\ \A p \in PageIds : current'[p].next = IF p = last THEN new_pid ELSE current[p].next
  <2> HIDE DEF page
  <2> QED BY <1>1, <1>3, <1>4 DEF IInv, TypeOK, Tuples
<1>6. /\ chain' \in Seq(PageIds) /\ Len(chain') = n + 1 /\ chain' # << >>
      /\ DOMAIN chain' = 1..(n + 1) /\ chain'[n + 1] = new_pid
      /\ \A i \in 1..n : chain'[i] = chain[i]
  <2>1. /\ chain' \in Seq(PageIds) /\ Len(chain') = n + 1 /\ chain' # << >>
        /\ chain'[n + 1] = new_pid /\ \A i \in 1..n : chain'[i] = chain[i]
    BY <1>1, <1>2, AppendProperties DEF IInv, TypeOK
  <2> QED BY <2>1, LenProperties
<1>7. IsInjective(chain') /\ Range(chain') = Range(chain) \cup {new_pid}
  BY <1>1, <1>2, <1>3, AppendKeepsInjective DEF IInv, TypeOK, ChainIntact
<1> HIDE DEF n, last, page
<1>8. TypeOK'
  BY <1>1, <1>2, <1>5, <1>6 DEF IInv, TypeOK, AnyPage, insertVars, scanVars
<1>9. \A i \in 1..(n + 1) : i \in 1..n \/ i = n + 1
  BY <1>3
<1>10. ChainIsAllocated'
  BY <1>1, <1>2, <1>3, <1>6, <1>9 DEF IInv, ChainIsAllocated
<1>11. ChainIntact'
  <2>1. first_page_id_' = chain'[1]
    BY <1>1, <1>3, <1>6 DEF IInv, ChainIntact
  <2>2. last_page_id_' = chain'[Len(chain')]
    BY <1>1, <1>6
  <2>3. ASSUME NEW i \in DOMAIN chain'
        PROVE  current'[chain'[i]].next =
                 IF i = Len(chain') THEN INVALID_PAGE_ID ELSE chain'[i + 1]
    <3>1. CASE i = n + 1
      <4>1. new_pid # last
        BY <1>2, <1>3
      <4> QED BY <1>2, <1>5, <1>6, <3>1, <4>1 DEF EmptyHeapPage
    <3>2. CASE i = n
      BY <1>3, <1>5, <1>6, <3>2
    <3>3. CASE i \in 1..n /\ i # n
      <4>1. current[chain[i]].next = chain[i + 1] /\ chain[i] # last
        BY <1>3, <3>3, NextInChain DEF n
      <4>2. i + 1 \in 1..n /\ i # n + 1
        BY <1>3, <3>3
      <4> QED BY <1>3, <1>5, <1>6, <3>3, <4>1, <4>2
    <3> QED BY <1>6, <1>9, <3>1, <3>2, <3>3
  <2> QED BY <1>7, <2>1, <2>2, <2>3 DEF ChainIntact
<1>12. /\ \A i \in 1..n : current'[chain'[i]].tuples = Tuples(chain[i])
       /\ current'[chain'[n + 1]].tuples = << >>
  BY <1>2, <1>3, <1>5, <1>6 DEF Tuples, EmptyHeapPage
<1>13. PagesFillUp'
  <2>1. ASSUME NEW i \in 1..n PROVE Len(Tuples(chain[i])) = MaxTuplesPerPage
    <3>1. CASE i = n
      BY <1>2, <1>3, <3>1
    <3>2. CASE i # n
      <4>1. i \in DOMAIN chain /\ i < n
        BY <1>3, <3>2
      <4> QED BY <4>1 DEF IInv, PagesFillUp, Tuples, n
    <3> QED BY <3>1, <3>2
  <2> QED BY <1>6, <1>9, <1>12, <2>1, <1>3, HeapAssumption DEF PagesFillUp
<1>14. RidsAreStable'
  <2>1. \A p \in Range(chain) : p \in PageIds
    BY <1>3 DEF Range
  <2>2. UNION {{<<p, i - 1, current'[p].tuples[i]>> : i \in DOMAIN current'[p].tuples} :
                 p \in Range(chain')}
        = UNION {{<<p, i - 1, current[p].tuples[i]>> : i \in DOMAIN current[p].tuples} :
                 p \in Range(chain)}
    <3>1. DOMAIN current'[new_pid].tuples = {}
      BY <1>6, <1>12
    <3>2. \A p \in Range(chain) : current'[p].tuples = current[p].tuples
      BY <1>5, <2>1 DEF Tuples
    <3> QED BY <1>7, <3>1, <3>2
  <2> QED BY <1>1, <2>2 DEF IInv, RidsAreStable
<1>15. InsertedInOrder'
  <2>1. Len(inserted') = Before(n + 1) + Len(<< >>)
    <3>1. Len(inserted) = Before(n) + MaxTuplesPerPage
      BY <1>2, <1>3 DEF IInv, InsertedInOrder, n
    <3>2. Before(n + 1) = Before(n) + MaxTuplesPerPage /\ Before(n) \in Nat
      BY <1>3, BeforeProperties
    <3> QED BY <1>1, <3>1, <3>2, HeapAssumption
  <2>2. ASSUME NEW i \in 1..n, NEW j \in DOMAIN Tuples(chain[i])
        PROVE  inserted'[Before(i) + j] = <<chain'[i], j - 1, Tuples(chain[i])[j]>>
    BY <1>1, <1>3, <1>6 DEF IInv, InsertedInOrder
  <2>3. ASSUME NEW i \in DOMAIN chain', NEW j \in DOMAIN current'[chain'[i]].tuples
        PROVE  inserted'[Before(i) + j] = <<chain'[i], j - 1, current'[chain'[i]].tuples[j]>>
    <3>1. i \in 1..n
      BY <1>6, <1>9, <1>12
    <3> QED BY <3>1, <1>12, <2>2
  <2>4. chain' # << >> /\ Len(inserted') =
          Before(Len(chain')) + Len(current'[chain'[Len(chain')]].tuples)
    BY <1>6, <1>12, <2>1
  <2> QED BY <2>3, <2>4 DEF InsertedInOrder, Tuples, Before
<1>16. InsertKnows' /\ WalkIsAt'
  BY <1>1, <1>6, <1>12 DEF InsertKnows, WalkIsAt, Tuples
<1> QED BY <1>8, <1>10, <1>11, <1>13, <1>14, <1>15, <1>16 DEF IInv

(* InsertTuple writes to a page with room for a tuple. *)
LEMMA WriteTupleKeeps ==
  ASSUME IInv, pc \in {"insert", "write"}, WriteTuple,
         Len(Tuples(last_page_id_)) < MaxTuplesPerPage
  PROVE  IInv'
<1> DEFINE n == Len(chain)
           last == last_page_id_
           ts == Tuples(last)
           page == [current[last] EXCEPT !.tuples = Append(ts, tuple)]
           row == <<last, Len(ts), tuple>>
<1>1. /\ pc' = "idle" /\ current' = [current EXCEPT ![last] = page]
      /\ inserted' = Append(inserted, row)
      /\ tuple' = NoTuple /\ new_pid' = INVALID_PAGE_ID
      /\ UNCHANGED <<pages, durable, fileVars, scanVars, chain>>
  BY DEF WriteTuple, Store!Put, WithTuple, Slot, Tuples, Goto
<1>2. /\ chain # << >> /\ n \in Nat \ {0} /\ DOMAIN chain = 1..n
      /\ last = chain[n] /\ n \in DOMAIN chain /\ last \in PageIds /\ last \in Range(chain)
      /\ \A i \in DOMAIN chain : chain[i] \in PageIds /\ (chain[i] = last <=> i = n)
  BY LastPage
<1>3. /\ ts \in Seq(AnyTuple) /\ Len(ts) \in Nat /\ tuple \in AnyTuple
      /\ DOMAIN ts = 1..Len(ts)
  BY <1>2, LenProperties DEF IInv, TypeOK, HeapPage, Tuples, AnyTuple
<1>4. /\ Append(ts, tuple) \in Seq(AnyTuple) /\ Len(Append(ts, tuple)) = Len(ts) + 1
      /\ DOMAIN Append(ts, tuple) = 1..(Len(ts) + 1)
      /\ \A j \in 1..Len(ts) : Append(ts, tuple)[j] = ts[j]
      /\ Append(ts, tuple)[Len(ts) + 1] = tuple
  BY <1>3, AppendProperties, LenProperties
<1> HIDE DEF ts
<1>5. /\ page \in HeapPage /\ page.tuples = Append(ts, tuple)
      /\ page.next = current[last].next
  <2> DEFINE longer == Append(ts, tuple)
  <2>1. longer \in Seq(Tuple \cup {Other})
    BY <1>4 DEF AnyTuple
  <2>2. current[last] \in HeapPage /\ page = [current[last] EXCEPT !.tuples = longer]
    BY <1>2 DEF IInv, TypeOK
  <2> HIDE DEF longer, page
  <2>3. page \in HeapPage /\ page.tuples = longer /\ page.next = current[last].next
    BY <2>1, <2>2 DEF HeapPage
  <2> QED BY <2>3 DEF longer
<1> HIDE DEF page
<1>6. /\ current' \in [PageIds -> HeapPage]
      /\ \A p \in PageIds : current'[p].next = current[p].next
      /\ \A p \in PageIds : p # last => current'[p] = current[p]
      /\ current'[last].tuples = Append(ts, tuple)
  BY <1>1, <1>2, <1>5 DEF IInv, TypeOK
<1>7. /\ row \in Rid /\ inserted' \in Seq(Rid) /\ Len(inserted') = Len(inserted) + 1
      /\ \A k \in 1..Len(inserted) : inserted'[k] = inserted[k]
      /\ inserted'[Len(inserted) + 1] = row
      /\ Len(inserted) \in Nat
  <2>1. row \in Rid
    BY <1>2, <1>3 DEF Rid
  <2> HIDE DEF row
  <2> QED BY <1>1, <2>1, AppendProperties, LenProperties DEF IInv, TypeOK
<1>8. TypeOK'
  BY <1>1, <1>6, <1>7 DEF IInv, TypeOK, AnyPage, AnyTuple, NoTuple, fileVars, scanVars
<1>9. ChainIsAllocated'
  BY <1>1, <1>2 DEF IInv, ChainIsAllocated
<1>10. ChainIntact'
  BY <1>1, <1>2, <1>6 DEF IInv, ChainIntact, fileVars
<1>11. PagesFillUp'
  <2>1. ASSUME NEW i \in DOMAIN chain
        PROVE  /\ Len(current'[chain[i]].tuples) <= MaxTuplesPerPage
               /\ i < n => Len(current'[chain[i]].tuples) = MaxTuplesPerPage
    <3>1. CASE i = n
      BY <1>2, <1>3, <1>4, <1>6, <3>1, HeapAssumption DEF ts
    <3>2. CASE i # n
      BY <1>2, <1>6, <3>2 DEF IInv, PagesFillUp
    <3> QED BY <3>1, <3>2
  <2> QED BY <1>1, <2>1 DEF PagesFillUp
<1>12. RidsAreStable'
  <2> DEFINE At(c, p) == {<<p, i - 1, c[p].tuples[i]>> : i \in DOMAIN c[p].tuples}
  <2>1. Range(inserted') = Range(inserted) \cup {row}
    <3>1. inserted \in Seq(Rid) /\ row \in Rid
      BY <1>7 DEF IInv, TypeOK
    <3> HIDE DEF row
    <3> QED BY <1>1, <3>1, AppendRange
  <2>2. \A p \in Range(chain) : p \in PageIds
    BY <1>2 DEF Range
  <2>3. \A p \in Range(chain) : p # last => At(current', p) = At(current, p)
    BY <1>6, <2>2
  <2>4. At(current', last) = At(current, last) \cup {row}
    <3>1. \A i \in 1..(Len(ts) + 1) : i \in 1..Len(ts) \/ i = Len(ts) + 1
      BY <1>3
    <3>2. /\ 1..Len(ts) \subseteq 1..(Len(ts) + 1) /\ Len(ts) + 1 \in 1..(Len(ts) + 1)
          /\ (Len(ts) + 1) - 1 = Len(ts)
      BY <1>3
    <3>3. At(current', last) = {<<last, i - 1, Append(ts, tuple)[i]>> : i \in 1..(Len(ts) + 1)}
      BY <1>4, <1>6
    <3>4. At(current, last) = {<<last, i - 1, ts[i]>> : i \in 1..Len(ts)}
      BY <1>3 DEF ts, Tuples
    <3> HIDE DEF At
    <3> QED BY <1>4, <3>1, <3>2, <3>3, <3>4
  <2>5. Range(inserted) = UNION {At(current, p) : p \in Range(chain)}
    BY DEF IInv, RidsAreStable
  <2>6. UNION {At(current', p) : p \in Range(chain)} =
        (UNION {At(current, p) : p \in Range(chain)}) \cup {row}
    <3> DEFINE R == Range(chain)
               old == UNION {At(current, p) : p \in R}
               new == UNION {At(current', p) : p \in R}
    <3>1. last \in R
      BY <1>2
    <3>2. \A p \in R : p # last => At(current', p) = At(current, p)
      BY <2>3
    <3> HIDE DEF At, row, R
    <3>3. ASSUME NEW x \in new PROVE x \in old \cup {row}
      <4>1. PICK p \in R : x \in At(current', p)
        OBVIOUS
      <4> QED BY <2>4, <3>2, <4>1
    <3>4. ASSUME NEW x \in old PROVE x \in new
      <4>1. PICK p \in R : x \in At(current, p)
        OBVIOUS
      <4>2. x \in At(current', p)
        BY <2>4, <3>2, <4>1
      <4> QED BY <4>1, <4>2
    <3>5. row \in new
      BY <2>4, <3>1
    <3>6. new = old \cup {row}
      <4> HIDE DEF new, old
      <4> QED BY <3>3, <3>4, <3>5
    <3> QED BY <3>6 DEF R
  <2>7. chain' = chain
    BY <1>1
  <2> QED BY <2>1, <2>5, <2>6, <2>7 DEF RidsAreStable
<1>13. InsertedInOrder'
  <2>1. Len(inserted) = Before(n) + Len(ts) /\ Before(n) \in Nat
    BY <1>2, BeforeProperties DEF IInv, InsertedInOrder, ts
  <2>2. Len(inserted') = Before(n) + Len(current'[chain[n]].tuples)
    BY <1>2, <1>3, <1>4, <1>6, <1>7, <2>1
  <2>3. ASSUME NEW i \in DOMAIN chain, NEW j \in DOMAIN current'[chain[i]].tuples
        PROVE  inserted'[Before(i) + j] = <<chain[i], j - 1, current'[chain[i]].tuples[j]>>
    <3>1. CASE j \in DOMAIN Tuples(chain[i])
      <4>1. inserted[Before(i) + j] = <<chain[i], j - 1, Tuples(chain[i])[j]>>
        BY <3>1 DEF IInv, InsertedInOrder
      <4>2. Before(i) + j \in 1..Len(inserted)
        <5>1. /\ Before(i) \in Nat /\ Tuples(chain[i]) \in Seq(AnyTuple)
              /\ Before(i) + Len(Tuples(chain[i])) <= Len(inserted)
          BY PlaceProperties
        <5>2. j \in 1..Len(Tuples(chain[i])) /\ Len(Tuples(chain[i])) \in Nat
          BY <3>1, <5>1, LenProperties
        <5> QED BY <1>7, <5>1, <5>2
      <4>3. current'[chain[i]].tuples[j] = Tuples(chain[i])[j]
        <5>1. CASE i = n
          BY <1>2, <1>3, <1>4, <1>6, <3>1, <5>1 DEF ts
        <5>2. CASE i # n
          BY <1>2, <1>6, <5>2 DEF Tuples
        <5> QED BY <5>1, <5>2
      <4> QED BY <1>7, <4>1, <4>2, <4>3
    <3>2. CASE j \notin DOMAIN Tuples(chain[i])
      <4>1. i = n
        BY <1>2, <1>6, <3>2 DEF Tuples
      <4>2. j = Len(ts) + 1
        BY <1>2, <1>3, <1>4, <1>6, <3>2, <4>1 DEF ts
      <4>3. Before(i) + j = Len(inserted) + 1 /\ j - 1 = Len(ts)
        BY <1>3, <2>1, <4>1, <4>2
      <4> QED BY <1>2, <1>4, <1>6, <1>7, <4>1, <4>2, <4>3
    <3> QED BY <3>1, <3>2
  <2>4. /\ chain' = chain /\ chain' # << >>
        /\ Len(inserted') = Before(Len(chain')) + Len(current'[chain'[Len(chain')]].tuples)
    BY <1>1, <1>2, <2>2
  <2> QED BY <2>3, <2>4 DEF InsertedInOrder, Tuples, Before
<1>14. InsertKnows' /\ WalkIsAt'
  BY <1>1 DEF InsertKnows, WalkIsAt
<1> QED BY <1>8, <1>9, <1>10, <1>11, <1>12, <1>13, <1>14 DEF IInv
-----------------------------------------------------------------------------
LEMMA NextKeeps == IInv /\ [Next]_vars => IInv'
<1> SUFFICES ASSUME IInv, [Next]_vars PROVE IInv'
  OBVIOUS
<1>1. CASE \E p \in PageIds : WriteBack(p)
  BY <1>1, WriteBackKeeps
<1>2. CASE OtherTable
  BY <1>2, OtherTableKeeps
<1>3. CASE Create
  BY <1>3, CreateKeeps
<1>4. CASE Reopen
  BY <1>4, ReopenKeeps
<1>5. CASE WalkOn
  BY <1>5, WalkOnKeeps
<1>6. CASE InsertFails \/ LastIsFull \/ \E t \in Tuple : InsertTuple(t)
  BY <1>6, QuietInsertKeeps
<1>7. CASE InsertInLast
  <2>1. pc = "insert" /\ WriteTuple /\ ~Full(last_page_id_)
    BY <1>7 DEF InsertInLast
  <2>2. last_page_id_ \in PageIds
    BY <2>1, LastPage
  <2>3. Len(Tuples(last_page_id_)) \in Nat
    BY <2>2 DEF IInv, TypeOK, HeapPage, Tuples
  <2>4. Len(Tuples(last_page_id_)) < MaxTuplesPerPage
    BY <2>1, <2>3, HeapAssumption DEF Full, Tuples
  <2> QED BY <2>1, <2>4, WriteTupleKeeps
<1>8. CASE InsertInNew
  <2>1. pc = "write" /\ WriteTuple /\ Tuples(last_page_id_) = << >>
    BY <1>8 DEF InsertInNew, IInv, InsertKnows
  <2>2. Len(Tuples(last_page_id_)) < MaxTuplesPerPage
    BY <2>1, HeapAssumption
  <2> QED BY <2>1, <2>2, WriteTupleKeeps
<1>9. CASE AllocateNext
  BY <1>9, AllocateNextKeeps
<1>10. CASE Link
  BY <1>10, LinkKeeps
<1>11. CASE Scan \/ GetPageIds \/ ScanReturns
  BY <1>11, WalkStartsOrEnds
<1>12. CASE ScanNext
  BY <1>12, ScanNextKeeps
<1>13. CASE IdsNext
  BY <1>13, IdsNextKeeps
<1>14. CASE UNCHANGED vars
  <2>1. UNCHANGED <<pages, current, durable, first_page_id_, last_page_id_, pc, tuple,
                    new_pid, cur, out, chain, inserted>>
    BY <1>14 DEF vars, storeVars, fileVars, insertVars, scanVars, historyVars
  <2>2. TypeOK' /\ ChainIsAllocated' /\ ChainIntact' /\ PagesFillUp' /\ RidsAreStable'
    BY <2>1 DEF IInv, TypeOK, ChainIsAllocated, ChainIntact, PagesFillUp, RidsAreStable
  <2>3. InsertKnows' /\ InsertedInOrder'
    BY <2>1 DEF IInv, InsertKnows, InsertedInOrder, Before, Tuples
  <2>4. WalkIsAt'
    BY <2>1 DEF IInv, WalkIsAt, SeenBefore, Before
  <2> QED BY <2>2, <2>3, <2>4 DEF IInv
<1>15. CASE ScanStops
  BY <1>15, ScanStopsKeeps
<1>16. CASE IdsStop
  BY <1>16, IdsStopKeeps
<1> QED BY <1>1, <1>2, <1>3, <1>4, <1>5, <1>6, <1>7, <1>8, <1>9, <1>10, <1>11, <1>12,
           <1>13, <1>14, <1>15, <1>16 DEF Next, CallNext

LEMMA HeapFileInvariant == Spec => []IInv
<1> QED BY InitHolds, NextKeeps, PTL DEF Spec

(* A walk that has come to the end has seen everything, and any other walk *)
(* a prefix.                                                               *)
LEMMA InvariantImpliesWalks == IInv => WalksSeeAll
<1> SUFFICES ASSUME IInv PROVE WalksSeeAll
  OBVIOUS
<1>1. /\ chain \in Seq(PageIds) /\ DOMAIN chain = 1..Len(chain) /\ Len(chain) \in Nat
      /\ inserted \in Seq(Rid) /\ Len(inserted) \in Nat
  BY LenProperties DEF IInv, TypeOK
<1>2. \A i \in DOMAIN chain : chain[i] # INVALID_PAGE_ID
  BY NextInChain
<1>3. SubSeq(chain, 1, Len(chain)) = chain /\ SubSeq(inserted, 1, Len(inserted)) = inserted
  BY <1>1, SubSeqFull
<1>4. ASSUME NEW k \in 0..Len(chain), out = SubSeq(chain, 1, k)
      PROVE  out = SubSeq(chain, 1, Len(out))
  <2>1. \A j \in 1..k : chain[j] \in PageIds
    BY <1>1
  <2>2. Len(out) = IF 1 <= k THEN k - 1 + 1 ELSE 0
    BY <1>1, <1>4, <2>1, SubSeqProperties
  <2>3. Len(out) = k
    BY <1>1, <2>2
  <2> QED BY <1>4, <2>3
<1>5. ASSUME NEW k \in 0..Len(inserted), out = SubSeq(inserted, 1, k)
      PROVE  out = SubSeq(inserted, 1, Len(out))
  BY <1>5, InsertedPrefix
<1>6. ASSUME NEW i \in DOMAIN chain, out = SubSeq(chain, 1, i - 1)
      PROVE  out = SubSeq(chain, 1, Len(out))
  <2>1. i - 1 \in 0..Len(chain)
    BY <1>1
  <2> QED BY <1>4, <1>6, <2>1
<1>7. ASSUME NEW i \in DOMAIN chain, out = SeenBefore(i)
      PROVE  out = SubSeq(inserted, 1, Len(out))
  <2>1. Before(i) \in 0..Len(inserted)
    <3>1. 0 \in 0..Len(Tuples(chain[i])) /\ Before(i) \in Nat
      BY PlaceProperties, LenProperties
    <3>2. Before(i) + 0 \in 0..Len(inserted)
      BY <3>1, RowsOfPage
    <3> QED BY <3>1, <3>2
  <2> QED BY <1>5, <1>7, <2>1 DEF SeenBefore
<1>8. pc \in {"scan", "stopped"} => out = SubSeq(inserted, 1, Len(out))
  BY <1>3, <1>5, <1>7 DEF IInv, WalkIsAt
<1>9. pc \in {"ids", "cut"} => out = SubSeq(chain, 1, Len(out))
  BY <1>3, <1>4, <1>6 DEF IInv, WalkIsAt
<1>10. /\ pc = "scan" /\ cur = INVALID_PAGE_ID => out = inserted
       /\ pc = "ids" /\ cur = INVALID_PAGE_ID => out = chain
  BY <1>2 DEF IInv, WalkIsAt
<1> QED BY <1>8, <1>9, <1>10 DEF WalksSeeAll

(* However InsertTuple fails half way, whatever the pool writes back and   *)
(* however often the file is opened again, the pages linked so far are one *)
(* chain that ends, and last_page_id_ is its end.                          *)
THEOREM ChainStaysIntact == Spec => []ChainIntact
<1>1. IInv => ChainIntact
  BY DEF IInv
<1> QED BY <1>1, HeapFileInvariant, PTL

(* A RID that InsertTuple returned keeps naming the tuple it was returned  *)
(* for, and the chain holds nothing else.                                  *)
THEOREM RidsStayStable == Spec => []RidsAreStable
<1>1. IInv => RidsAreStable
  BY DEF IInv
<1> QED BY <1>1, HeapFileInvariant, PTL

(* InsertTuple overfills no page and moves on only from a full one.        *)
THEOREM PagesFillInOrder == Spec => []PagesFillUp
<1>1. IInv => PagesFillUp
  BY DEF IInv
<1> QED BY <1>1, HeapFileInvariant, PTL

(* A Scan that reaches the end has called the callback for every tuple,    *)
(* once and in the order of the inserts, and GetPageIds lists the chain;   *)
(* where they stop early, they have seen a prefix.                         *)
THEOREM WalksAreComplete == Spec => []WalksSeeAll
<1> QED BY InvariantImpliesWalks, HeapFileInvariant, PTL
=============================================================================
