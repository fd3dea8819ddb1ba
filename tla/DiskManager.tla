----------------------------- MODULE DiskManager -----------------------------
(***************************************************************************)
(* The page file (storage/disk_manager.cpp).                               *)
(*                                                                         *)
(* Every method holds io_latch_ for its whole body, so each is an operator *)
(* from one value of the state to the next.  The state is a record         *)
(*   file        the contents of each page slot; a slot past the end of    *)
(*               the file reads as Zero, as ReadPage zero-fills            *)
(*   size        the length of the file in pages                           *)
(*   num_pages_  the member of that name                                   *)
(*   db_io_      the state of the stream: "good", "fail" (failbit only) or *)
(*               "bad" (badbit)                                            *)
(* The contents of a page are one member of Value; Zero is the page of     *)
(* zero bytes.                                                             *)
(***************************************************************************)
EXTENDS Integers

CONSTANTS
  Value,      \* possible contents of a page
  Zero,       \* the zeroed page
  MaxPages,   \* bound: the longest file considered, in pages
  PAGE_SIZE,  \* bytes of a page
  IntRange    \* number of values of a C++ int, 2^32 in the program

ASSUME DiskAssumption ==
  /\ Zero \in Value
  /\ MaxPages \in Nat
  /\ PAGE_SIZE \in Nat \ {0}
  /\ IntRange \in Nat \ {0}

PageIds == 0..(MaxPages - 1)

INVALID_PAGE_ID == -1

(* static_cast<int>: the value modulo 2^32, read as a signed number. *)
ToInt(n) ==
  LET m == n % IntRange IN IF 2 * m < IntRange THEN m ELSE m - IntRange

(* Integer division of C++, which truncates towards zero. *)
Quotient(a, b) == IF a >= 0 THEN a \div b ELSE -((-a) \div b)

NewDisk == [file |-> [p \in PageIds |-> Zero], size |-> 0,
            num_pages_ |-> 0, db_io_ |-> "good"]

(* The destructor closes the stream; the constructor opens the file again *)
(* and derives num_pages_ from its length in bytes.                       *)
Open(d) ==
  [d EXCEPT !.num_pages_ = Quotient(ToInt(d.size * PAGE_SIZE), PAGE_SIZE),
            !.db_io_ = "good"]

(* What the device does with a write: it takes the page, it fails in       *)
(* write(), or it fails only when flush() hands the page over.             *)
Device == {"accepts", "rejects", "loses"}

(* seekp, write and flush of one page.  Nothing happens unless the stream  *)
(* is good; a negative offset sets failbit; a page the device does not     *)
(* take is not in the file and sets badbit.                                *)
PutPage(d, p, v, dev) ==
  IF d.db_io_ # "good" THEN d
  ELSE IF p < 0 THEN [d EXCEPT !.db_io_ = "fail"]
  ELSE IF dev # "accepts" THEN [d EXCEPT !.db_io_ = "bad"]
  ELSE [d EXCEPT !.file[p] = v, !.size = IF p < @ THEN @ ELSE p + 1]

WritePage(d, p, v, dev) == PutPage(d, p, v, dev)

(* WritePage throws if the stream is bad between write() and flush(): a    *)
(* page lost in flush() goes unnoticed, and the next WritePage throws.     *)
WriteThrows(d, dev) ==
  d.db_io_ = "bad" \/ (d.db_io_ = "good" /\ dev = "rejects")

(* AllocatePage looks at no error: num_pages_ grows in any case. *)
AllocatePage(d, dev) ==
  [PutPage(d, d.num_pages_, Zero, dev) EXCEPT !.num_pages_ = @ + 1]

(* The bytes ReadPage returns.  On a stream that is not good the read      *)
(* transfers nothing, and the whole page is zero-filled.                   *)
ReadData(d, p) == IF d.db_io_ = "good" THEN d.file[p] ELSE Zero

(* ReadPage clears the error state of the stream. *)
ReadPage(d) == [d EXCEPT !.db_io_ = "good"]
==============================================================================
