------------------------------ MODULE HeapFile -------------------------------
(***************************************************************************)
(* A heap file (storage/heap_file.cpp): a chain of pages of tuples, kept in *)
(* a PageStore, which is what the buffer pool implements.                  *)
(*                                                                         *)
(* A heap file is used by one thread at a time.  A page stays pinned from  *)
(* FetchPage to UnpinPage, so what happens to it in between is one step;   *)
(* between two such steps nothing is pinned, the pool may write any page   *)
(* back, and any NewPage or FetchPage may find the pool full.  The device  *)
(* takes every write: only then is the pool a PageStore.                   *)
(***************************************************************************)
EXTENDS Integers, Sequences, Functions

CONSTANTS
  Tuple,             \* the tuples of the table
  Other,             \* a tuple of another table
  MaxPages,          \* bound: the pages of the file
  MaxTuplesPerPage

INVALID_PAGE_ID == -1

ASSUME HeapAssumption ==
  MaxPages \in Nat /\ MaxTuplesPerPage \in Nat \ {0} /\ Other \notin Tuple

PageIds == 0..(MaxPages - 1)

(* The header and the tuples of a page.  The bytes of a page that was      *)
(* allocated and not written to are zero: its next_page_id is page 0.      *)
HeapPage == [tuples : Seq(Tuple \cup {Other}), next : PageIds \cup {INVALID_PAGE_ID}]
ZeroPage == [tuples |-> << >>, next |-> 0]

VARIABLES
  pages, current, durable,        \* the PageStore
  first_page_id_, last_page_id_,
  pc,        \* the step the call in progress has come to
  tuple,     \* InsertTuple: the tuple
  new_pid,   \* InsertTuple: the page it has allocated
  cur,       \* Scan, GetPageIds, constructor: the page they have come to
  out,       \* Scan: what the callback has seen; GetPageIds: ids
  chain,     \* history: the pages linked so far
  inserted   \* history: <<page, slot, tuple>> of each InsertTuple that returned true

storeVars == <<pages, current, durable>>
fileVars == <<first_page_id_, last_page_id_>>
insertVars == <<tuple, new_pid>>
scanVars == <<cur, out>>
historyVars == <<chain, inserted>>
vars == <<storeVars, fileVars, pc, insertVars, scanVars, historyVars>>

Store == INSTANCE PageStore WITH
           Value <- HeapPage, Zero <- ZeroPage,
           Clients <- {"heap file"}, held <- [c \in {"heap file"} |-> {}]

NoTuple == Other

Init ==
  /\ Store!Init
  /\ first_page_id_ = INVALID_PAGE_ID /\ last_page_id_ = INVALID_PAGE_ID
  /\ pc = "none"
  /\ tuple = NoTuple /\ new_pid = INVALID_PAGE_ID
  /\ cur = INVALID_PAGE_ID /\ out = << >>
  /\ chain = << >> /\ inserted = << >>

Goto(l) == pc' = l
-----------------------------------------------------------------------------
(* Around the heap file. *)

(* The pool writes a page back. *)
WriteBack(p) ==
  /\ Store!Sync({p})
  /\ UNCHANGED <<fileVars, pc, insertVars, scanVars, historyVars>>

(* Another table is created and gets a tuple. *)
OtherTable ==
  /\ pages < MaxPages - 1
  /\ LET page == [tuples |-> <<Other>>, next |-> INVALID_PAGE_ID]
     IN /\ pages' = pages + 1
        /\ current' = [current EXCEPT ![pages] = page]
        /\ durable' = [durable EXCEPT ![pages] = ZeroPage]
  /\ pc \in {"none", "idle"}
  /\ UNCHANGED <<fileVars, pc, insertVars, scanVars, historyVars>>
-----------------------------------------------------------------------------
(* Constructors. *)

(* Mistake: the header of a new page is left as NewPage returns it. *)
EmptyHeapPage_NoHeader == ZeroPage

EmptyHeapPage == [tuples |-> << >>, next |-> INVALID_PAGE_ID]

(* NewPage succeeds: its zeroes are in the file, the header is not. *)
AllocateHeapPage ==
  /\ pages < MaxPages
  /\ pages' = pages + 1
  /\ current' = [current EXCEPT ![pages] = EmptyHeapPage]
  /\ durable' = [durable EXCEPT ![pages] = ZeroPage]

Create ==
  /\ pc = "none"
  /\ AllocateHeapPage
  /\ first_page_id_' = pages /\ last_page_id_' = pages
  /\ chain' = <<pages>>
  /\ Goto("idle")
  /\ UNCHANGED <<insertVars, scanVars, inserted>>

(* The database is closed, and the file opened from its first page. *)
Reopen ==
  /\ pc = "idle"
  /\ Store!Close
  /\ last_page_id_' = INVALID_PAGE_ID /\ cur' = first_page_id_
  /\ Goto("open")
  /\ UNCHANGED <<first_page_id_, insertVars, out, historyVars>>

WalkOn ==
  /\ pc = "open"
  /\ LET next == current[cur].next
     IN \/ /\ next = INVALID_PAGE_ID
           /\ last_page_id_' = cur /\ cur' = INVALID_PAGE_ID /\ Goto("idle")
        \/ /\ next # INVALID_PAGE_ID
           /\ cur' = next /\ UNCHANGED <<last_page_id_, pc>>
  /\ UNCHANGED <<storeVars, first_page_id_, insertVars, out, historyVars>>
-----------------------------------------------------------------------------
(* InsertTuple. *)

(* The pool is full: FetchPage returns nullptr, or NewPage does and        *)
(* AllocateHeapPage throws what InsertTuple catches.  It returns false.    *)
InsertFails ==
  /\ pc \in {"insert", "allocate", "link", "write"}
  /\ tuple' = NoTuple /\ new_pid' = INVALID_PAGE_ID
  /\ Goto("idle")
  /\ UNCHANGED <<storeVars, fileVars, scanVars, historyVars>>

InsertTuple(t) ==
  /\ pc = "idle"
  /\ tuple' = t
  /\ Goto("insert")
  /\ UNCHANGED <<storeVars, fileVars, new_pid, scanVars, historyVars>>

(* Mistake: a page takes one tuple more than fits. *)
Full_OffByOne(p) == Len(current[p].tuples) > MaxTuplesPerPage

Full(p) == Len(current[p].tuples) >= MaxTuplesPerPage

(* Mistake: a tuple is written to the first slot. *)
WithTuple_FirstSlot(p) == [current[p] EXCEPT !.tuples = <<tuple>>]

WithTuple(p) == [current[p] EXCEPT !.tuples = Append(@, tuple)]

Slot(p) == Len(current[p].tuples)

(* The tuple goes to the last page, and InsertTuple returns true. *)
WriteTuple ==
  /\ Store!Put(last_page_id_, WithTuple(last_page_id_))
  /\ inserted' = Append(inserted, <<last_page_id_, Slot(last_page_id_), tuple>>)
  /\ tuple' = NoTuple /\ new_pid' = INVALID_PAGE_ID
  /\ Goto("idle")
  /\ UNCHANGED <<fileVars, scanVars, chain>>

InsertInLast ==
  /\ pc = "insert" /\ ~Full(last_page_id_)
  /\ WriteTuple

LastIsFull ==
  /\ pc = "insert" /\ Full(last_page_id_)
  /\ Goto("allocate")
  /\ UNCHANGED <<storeVars, fileVars, insertVars, scanVars, historyVars>>

AllocateNext ==
  /\ pc = "allocate"
  /\ AllocateHeapPage
  /\ new_pid' = pages
  /\ Goto("link")
  /\ UNCHANGED <<fileVars, tuple, scanVars, historyVars>>

(* Mistake: last_page_id_ stays where it was. *)
LastAfterLink_Old == last_page_id_

LastAfterLink == new_pid

Link ==
  /\ pc = "link"
  /\ Store!Put(last_page_id_, [current[last_page_id_] EXCEPT !.next = new_pid])
  /\ last_page_id_' = LastAfterLink
  /\ chain' = Append(chain, new_pid)
  /\ Goto("write")
  /\ UNCHANGED <<first_page_id_, insertVars, scanVars, inserted>>

InsertInNew ==
  /\ pc = "write"
  /\ WriteTuple
-----------------------------------------------------------------------------
(* Scan and GetPageIds. *)

Start(l) ==
  /\ pc = "idle"
  /\ cur' = first_page_id_ /\ out' = << >>
  /\ Goto(l)
  /\ UNCHANGED <<storeVars, fileVars, insertVars, historyVars>>

Scan == Start("scan")
GetPageIds == Start("ids")

(* Mistake: the loop over the slots ends one early. *)
Rows_OffByOne(p) ==
  [i \in 1..(Len(current[p].tuples) - 1) |-> <<p, i - 1, current[p].tuples[i]>>]

(* The calls of the callback for the page cur. *)
Rows(p) == [i \in DOMAIN current[p].tuples |-> <<p, i - 1, current[p].tuples[i]>>]

ScanNext ==
  /\ pc = "scan" /\ cur # INVALID_PAGE_ID
  /\ out' = out \o Rows(cur)
  /\ cur' = current[cur].next
  /\ UNCHANGED <<storeVars, fileVars, pc, insertVars, historyVars>>

ListedId == cur

IdsNext ==
  /\ pc = "ids" /\ cur # INVALID_PAGE_ID
  /\ out' = Append(out, ListedId)
  /\ cur' = current[cur].next
  /\ UNCHANGED <<storeVars, fileVars, pc, insertVars, historyVars>>

Return ==
  /\ cur' = INVALID_PAGE_ID /\ out' = << >>
  /\ Goto("idle")
  /\ UNCHANGED <<storeVars, fileVars, insertVars, historyVars>>

ScanReturns ==
  /\ (pc \in {"scan", "ids"} /\ cur = INVALID_PAGE_ID) \/ pc \in {"stopped", "cut"}
  /\ Return

(* FetchPage finds the pool full, or the callback says stop after k rows.  *)
ScanStops ==
  /\ pc = "scan" /\ cur # INVALID_PAGE_ID
  /\ \E k \in 0..Len(Rows(cur)) : out' = out \o SubSeq(Rows(cur), 1, k)
  /\ cur' = INVALID_PAGE_ID
  /\ Goto("stopped")
  /\ UNCHANGED <<storeVars, fileVars, insertVars, historyVars>>

(* FetchPage finds the pool full; the id is in the list already.           *)
IdsStop ==
  /\ pc = "ids" /\ cur # INVALID_PAGE_ID
  /\ out' = Append(out, ListedId)
  /\ cur' = INVALID_PAGE_ID
  /\ Goto("cut")
  /\ UNCHANGED <<storeVars, fileVars, insertVars, historyVars>>
-----------------------------------------------------------------------------
CallNext ==
  \/ WalkOn
  \/ InsertFails \/ InsertInLast \/ LastIsFull \/ AllocateNext \/ Link \/ InsertInNew
  \/ ScanNext \/ IdsNext \/ ScanReturns

Next ==
  \/ \E p \in PageIds : WriteBack(p)
  \/ OtherTable
  \/ Create \/ Reopen
  \/ \E t \in Tuple : InsertTuple(t)
  \/ Scan \/ GetPageIds \/ ScanStops \/ IdsStop
  \/ CallNext

Spec == Init /\ [][Next]_vars

(* A call goes on until it returns. *)
FairSpec == Spec /\ WF_vars(CallNext)

(* The process dies, and the next one opens the file from its first page. *)
Crash ==
  /\ pc # "none"
  /\ Store!Crash
  /\ last_page_id_' = INVALID_PAGE_ID /\ cur' = first_page_id_ /\ out' = << >>
  /\ tuple' = NoTuple /\ new_pid' = INVALID_PAGE_ID
  /\ Goto("open")
  /\ UNCHANGED <<first_page_id_, historyVars>>

CrashSpec == Init /\ [][Next \/ Crash]_vars /\ WF_vars(CallNext)
-----------------------------------------------------------------------------
(* The pages linked so far form one chain from first_page_id_ that ends    *)
(* with INVALID_PAGE_ID, whatever inserts failed half way; and             *)
(* last_page_id_ is its end, also when the file has been opened again.     *)
ChainIntact ==
  chain # << >> =>
    /\ first_page_id_ = chain[1] /\ IsInjective(chain)
    /\ pc # "open" => last_page_id_ = chain[Len(chain)]
    /\ \A i \in DOMAIN chain :
         current[chain[i]].next =
           IF i = Len(chain) THEN INVALID_PAGE_ID ELSE chain[i + 1]

(* The chain holds exactly the tuples whose InsertTuple returned true, in  *)
(* the place their RID names.                                              *)
RidsAreStable ==
  Range(inserted) =
    UNION {{<<p, i - 1, current[p].tuples[i]>> : i \in DOMAIN current[p].tuples} :
             p \in Range(chain)}

(* No page holds more tuples than fit behind its header, and no page of    *)
(* the chain but the last one has room: inserts fill the pages in order.   *)
PagesFillUp ==
  \A i \in DOMAIN chain :
    LET n == Len(current[chain[i]].tuples)
    IN n <= MaxTuplesPerPage /\ (i < Len(chain) => n = MaxTuplesPerPage)

(* A Scan that comes to the end of the chain has seen every tuple, once    *)
(* and in the order of the inserts, and GetPageIds lists the chain.  One   *)
(* that stops early, which its caller cannot tell, has seen a prefix: it   *)
(* leaves out only what was inserted last, and never skips a page.         *)
WalksSeeAll ==
  /\ pc = "scan" /\ cur = INVALID_PAGE_ID => out = inserted
  /\ pc = "ids" /\ cur = INVALID_PAGE_ID => out = chain
  /\ pc \in {"scan", "stopped"} => out = SubSeq(inserted, 1, Len(out))
  /\ pc \in {"ids", "cut"} => out = SubSeq(chain, 1, Len(out))

(* Every call returns: no walk along the chain goes round in a circle.     *)
CallsReturn == pc # "idle" /\ pc # "none" ~> pc = "idle"

(* Once the crashes stop, the constructor that opens a file finds the end  *)
(* of its chain.                                                           *)
OpenReturns == <>[][~Crash]_vars => (pc = "open" ~> pc = "idle")
==============================================================================
