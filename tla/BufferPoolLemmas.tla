-------------------------- MODULE BufferPoolLemmas ---------------------------
(***************************************************************************)
(* Facts the proofs of the buffer pool rest on: what the operations of the *)
(* replacer do to the sets of listed and of evictable frames, what those   *)
(* of the page file return, what GetFreeFrame leaves, and what installing  *)
(* or writing back a page does to the invariants; and that a client that   *)
(* gets a page (NewPage, FetchPage) or writes to one keeps the invariant.  *)
(***************************************************************************)
EXTENDS BufferPool, QueueLemmas, FiniteSetTheorems

(* The replacer. *)

(* Erasing the node of f removes f from the list and nothing else, and     *)
(* leaves no element twice (lru_list_.erase in Evict, RecordAccess and     *)
(* Remove).                                                                *)
LEMMA EraseProperties ==
  ASSUME NEW S, NEW s \in Seq(S), IsInjective(s), NEW f \in Range(s)
  PROVE  /\ Erase(s, f) \in Seq(S)
         /\ IsInjective(Erase(s, f))
         /\ Range(Erase(s, f)) = Range(s) \ {f}
<1> DEFINE k == CHOOSE i \in 1..Len(s) : s[i] = f
           a == SubSeq(s, 1, k - 1)
           b == SubSeq(s, k + 1, Len(s))
<1>1. /\ Len(s) \in Nat /\ DOMAIN s = 1..Len(s)
      /\ \A i \in 1..Len(s) : s[i] \in S
  BY LenProperties, ElementOfSeq
<1>2. k \in 1..Len(s) /\ s[k] = f
  BY <1>1 DEF Range
<1> HIDE DEF k
<1>3. /\ a \in Seq(S) /\ Len(a) = k - 1
      /\ \A i \in 1..(k - 1) : a[i] = s[i]
  <2>1. \A i \in 1..(k - 1) : s[i] \in S
    BY <1>1, <1>2
  <2> QED BY <1>1, <1>2, <2>1, SubSeqProperties
<1>4. /\ b \in Seq(S) /\ Len(b) = Len(s) - k
      /\ \A i \in 1..(Len(s) - k) : b[i] = s[k + i]
  <2>1. \A i \in (k + 1)..Len(s) : s[i] \in S
    BY <1>1, <1>2
  <2>2. /\ b \in Seq(S)
        /\ Len(b) = IF k + 1 <= Len(s) THEN Len(s) - (k + 1) + 1 ELSE 0
        /\ \A i \in 1 .. Len(s) - (k + 1) + 1 : b[i] = s[k + 1 + i - 1]
    BY <1>1, <1>2, <2>1, SubSeqProperties
  <2> HIDE DEF b
  <2>3. Len(b) = Len(s) - k
    <3>1. Len(s) \in Nat /\ k \in 1..Len(s)
      BY <1>1, <1>2
    <3>2. Len(b) = IF k + 1 <= Len(s) THEN Len(s) - (k + 1) + 1 ELSE 0
      BY <2>2
    <3> QED BY <3>1, <3>2
  <2>4. ASSUME NEW i \in 1..(Len(s) - k) PROVE b[i] = s[k + i]
    <3>1. i \in 1 .. Len(s) - (k + 1) + 1 /\ k + 1 + i - 1 = k + i
      BY <1>1, <1>2
    <3> QED BY <2>2, <3>1
  <2> QED BY <2>2, <2>3, <2>4
<1> DEFINE e == a \o b
<1>5. Erase(s, f) = e
  BY DEF Erase, k
<1>6. /\ e \in Seq(S) /\ Len(e) = Len(s) - 1
      /\ \A i \in 1..(Len(s) - 1) : e[i] = IF i < k THEN s[i] ELSE s[i + 1]
  <2>1. a \in Seq(S) /\ b \in Seq(S)
    BY <1>3, <1>4
  <2> HIDE DEF a, b
  <2>2. /\ e \in Seq(S) /\ Len(e) = Len(a) + Len(b)
        /\ \A i \in 1..(Len(a) + Len(b)) :
             e[i] = IF i <= Len(a) THEN a[i] ELSE b[i - Len(a)]
    BY <2>1, ConcatProperties
  <2> HIDE DEF e
  <2>3. Len(e) = Len(s) - 1
    BY <1>1, <1>2, <1>3, <1>4, <2>2
  <2>4. ASSUME NEW i \in 1..(Len(s) - 1), i < k PROVE e[i] = s[i]
    <3>1. i \in 1..(Len(a) + Len(b)) /\ i <= Len(a) /\ i \in 1..(k - 1)
      BY <2>4, <1>1, <1>2, <1>3, <1>4
    <3> QED BY <3>1, <2>2, <1>3
  <2>5. ASSUME NEW i \in 1..(Len(s) - 1), ~(i < k) PROVE e[i] = s[i + 1]
    <3>1. i \in 1..(Len(a) + Len(b)) /\ ~(i <= Len(a)) /\ i - Len(a) = i - k + 1
      BY <2>5, <1>1, <1>2, <1>3, <1>4
    <3>2. (i - k + 1) \in 1..(Len(s) - k) /\ k + (i - k + 1) = i + 1
      BY <2>5, <1>1, <1>2
    <3> QED BY <3>1, <3>2, <2>2, <1>4
  <2> QED BY <2>2, <2>3, <2>4, <2>5
<1> HIDE DEF e
<1>7. IsInjective(e)
  <2> DEFINE at(i) == IF i < k THEN i ELSE i + 1
  <2>1. DOMAIN e = 1..(Len(s) - 1) /\ DOMAIN s = 1..Len(s)
    BY <1>1, <1>6, LenProperties
  <2> SUFFICES ASSUME NEW i \in 1..(Len(s) - 1), NEW j \in 1..(Len(s) - 1), e[i] = e[j]
               PROVE  i = j
    BY <2>1 DEF IsInjective
  <2>2. /\ at(i) \in 1..Len(s) /\ at(j) \in 1..Len(s)
        /\ at(i) = at(j) => i = j
    BY <1>1, <1>2
  <2>3. e[i] = s[at(i)] /\ e[j] = s[at(j)]
    BY <1>6, Zenon
  <2> QED BY Zenon, <2>1, <2>2, <2>3 DEF IsInjective
<1>8. DOMAIN e = 1..(Len(s) - 1)
  BY <1>6, LenProperties
<1>9. ASSUME NEW x \in Range(e) PROVE x \in Range(s) \ {f}
  <2>1. PICK i \in 1..(Len(s) - 1) : x = e[i]
    BY <1>8 DEF Range
  <2> DEFINE j == IF i < k THEN i ELSE i + 1
  <2>2. j \in 1..Len(s) /\ j # k /\ x = s[j]
    BY <2>1, <1>1, <1>2, <1>6
  <2> QED BY <2>2, <1>1, <1>2 DEF Range, IsInjective
<1>10. ASSUME NEW x \in Range(s) \ {f} PROVE x \in Range(e)
  <2>1. PICK i \in 1..Len(s) : x = s[i]
    BY <1>1 DEF Range
  <2>2. i # k
    BY <2>1, <1>2
  <2>3. CASE i < k
    <3>1. i \in 1..(Len(s) - 1) /\ e[i] = x
      BY <2>1, <2>3, <1>1, <1>2, <1>6
    <3> QED BY <3>1, <1>8 DEF Range
  <2>4. CASE i > k
    <3>1. (i - 1) \in 1..(Len(s) - 1) /\ e[i - 1] = x
      BY <2>1, <2>4, <1>1, <1>2, <1>6
    <3> QED BY <3>1, <1>8 DEF Range
  <2> QED BY <2>2, <2>3, <2>4, <1>1, <1>2
<1> QED BY <1>5, <1>6, <1>7, <1>9, <1>10

(* The states the replacer is kept in: no frame is listed twice.           *)
ReplacerOK(r, F) ==
  /\ r \in [lru_list_ : Seq(F), evictable_ : SUBSET F]
  /\ IsInjective(r.lru_list_)

(* Evict unlists its victim, which was listed and evictable.               *)
LEMMA EvictProperties ==
  ASSUME NEW F, NEW r, ReplacerOK(r, F), NEW f, IsVictim(r, f)
  PROVE  /\ f \in F /\ f \in Range(r.lru_list_) /\ f \in r.evictable_
         /\ ReplacerOK(Evict(r, f), F)
         /\ Range(Evict(r, f).lru_list_) = Range(r.lru_list_) \ {f}
         /\ Evict(r, f).evictable_ = r.evictable_ \ {f}
<1>1. r.lru_list_ \in Seq(F) /\ IsInjective(r.lru_list_) /\ r.evictable_ \subseteq F
  BY DEF ReplacerOK
<1>2. f \in Range(r.lru_list_) /\ f \in r.evictable_
  BY <1>1, LenProperties DEF IsVictim, Range
<1> QED BY <1>1, <1>2, EraseProperties DEF Evict, ReplacerOK

(* RecordAccess lists the frame, whether or not it was listed before.      *)
LEMMA RecordAccessProperties ==
  ASSUME NEW F, NEW r, ReplacerOK(r, F), NEW f \in F
  PROVE  /\ ReplacerOK(RecordAccess(r, f), F)
         /\ Range(RecordAccess(r, f).lru_list_) = Range(r.lru_list_) \cup {f}
         /\ RecordAccess(r, f).evictable_ = r.evictable_
<1> DEFINE l == IF InList(r, f) THEN Erase(r.lru_list_, f) ELSE r.lru_list_
<1>1. r.lru_list_ \in Seq(F) /\ IsInjective(r.lru_list_)
  BY DEF ReplacerOK
<1>2. /\ l \in Seq(F) /\ IsInjective(l) /\ f \notin Range(l)
      /\ Range(l) \cup {f} = Range(r.lru_list_) \cup {f}
  BY <1>1, EraseProperties DEF InList
<1>3. RecordAccess(r, f) = [r EXCEPT !.lru_list_ = <<f>> \o l]
  BY DEF RecordAccess
<1> HIDE DEF l
<1>4. /\ <<f>> \o l \in Seq(F) /\ IsInjective(<<f>> \o l)
      /\ Range(<<f>> \o l) = Range(r.lru_list_) \cup {f}
  BY <1>2, PushFrontProperties
<1> QED BY Zenon, <1>3, <1>4 DEF ReplacerOK

(* Remove forgets the frame.                                               *)
LEMMA RemoveFrameProperties ==
  ASSUME NEW F, NEW r, ReplacerOK(r, F), NEW f \in F
  PROVE  /\ ReplacerOK(RemoveFrame(r, f), F)
         /\ Range(RemoveFrame(r, f).lru_list_) = Range(r.lru_list_) \ {f}
         /\ RemoveFrame(r, f).evictable_ = r.evictable_ \ {f}
<1>1. r.lru_list_ \in Seq(F) /\ IsInjective(r.lru_list_) /\ r.evictable_ \subseteq F
  BY DEF ReplacerOK
<1> QED BY <1>1, EraseProperties DEF RemoveFrame, InList, ReplacerOK
-----------------------------------------------------------------------------
(* The page file and the frames. *)

(* The values that stand for "no frame" and "no page" are neither. *)
LEMMA NoneIsNone == NoFrame \notin Frames /\ INVALID_PAGE_ID \notin PageIds
BY DiskAssumption, PoolAssumption DEF NoFrame, Frames, INVALID_PAGE_ID, PageIds

DiskType == [file : [PageIds -> Value], size : 0..MaxPages,
             num_pages_ : 0..MaxPages, db_io_ : {"good", "bad"}]

(* Marking a page clean changes nothing else of it. *)
LEMMA CleanPage ==
  ASSUME NEW x \in Page
  PROVE  LET h == [x EXCEPT !.is_dirty_ = FALSE] IN
         /\ h \in Page /\ h.page_id_ = x.page_id_
         /\ h.pin_count_ = x.pin_count_ /\ h.data_ = x.data_
BY Zenon DEF Page

(* The inductive invariant. *)
IInv == /\ TypeOK
        /\ TableMatchesFrames
        /\ FramesHaveOneOwner
        /\ PinsAreHolders
        /\ ReplacerOffersUnpinned
        /\ Bookkeeping
        /\ NoLostWrite

-----------------------------------------------------------------------------
(* A set of bounded numbers has a greatest element: the well-ordering of   *)
(* the natural numbers, turned round.                                      *)
LEMMA MaxExists ==
  ASSUME NEW n \in Nat, NEW S \in SUBSET (0..n), S # {}
  PROVE  Max(S) \in S /\ \A k \in S : k <= Max(S)
<1> DEFINE T == {n - k : k \in S}
           R == {ss \in Nat \X Nat : ss[1] < ss[2]}
<1>1. R = OpToRel(<, Nat)
  BY DEF OpToRel
<1>2. IsWellFoundedOn(R, Nat)
  BY Zenon, <1>1, NatLessThanWellFounded
<1>3. T \subseteq Nat /\ T # {}
  <2>1. PICK k \in S : TRUE
    OBVIOUS
  <2>2. n - k \in T
    OBVIOUS
  <2>3. \A x \in T : x \in Nat
    OBVIOUS
  <2> QED BY <2>2, <2>3
<1> HIDE DEF R
<1>4. \E x \in T : \A y \in T : ~(<<y, x>> \in R)
  <2> HIDE DEF T
  <2> QED BY Zenon, <1>2, <1>3, WFMin
<1>5. PICK x \in T : \A y \in T : ~(<<y, x>> \in R)
  BY <1>4
<1>6. PICK m \in S : x = n - m
  BY <1>5
<1>7. ASSUME NEW k \in S PROVE m >= k
  <2>1. n - k \in T /\ n - k \in Nat /\ x \in Nat
    BY Zenon, <1>3
  <2>2. ~ (n - k < x)
    BY Zenon, <2>1, <1>5 DEF R
  <2> QED BY <2>2, <1>6
<1>8. \E z \in S : \A k \in S : z >= k
  BY <1>7
<1>9. Max(S) \in S /\ \A k \in S : Max(S) >= k
  BY Zenon, <1>8 DEF Max
<1> QED BY <1>9

(* The page file. *)

(* A write that the device takes, on a good stream, stores the page.       *)
LEMMA TakenWrite ==
  ASSUME NEW d \in DiskType, NEW p \in PageIds, NEW v \in Value, d.db_io_ = "good"
  PROVE  /\ WritePage(d, p, v, "accepts") \in DiskType
         /\ WritePage(d, p, v, "accepts").num_pages_ = d.num_pages_
         /\ WritePage(d, p, v, "accepts").file = [d.file EXCEPT ![p] = v]
         /\ WritePage(d, p, v, "accepts").db_io_ = "good"
         /\ WritePage(d, p, v, "accepts").size = IF p < d.size THEN d.size ELSE p + 1
<1> DEFINE w == WritePage(d, p, v, "accepts")
<1>1. w = [d EXCEPT !.file[p] = v, !.size = IF p < @ THEN @ ELSE p + 1]
  BY DiskAssumption DEF WritePage, PutPage, PageIds
<1>2. /\ w.file = [d.file EXCEPT ![p] = v]
      /\ w.size = IF p < d.size THEN d.size ELSE p + 1
      /\ w.db_io_ = "good" /\ w.num_pages_ = d.num_pages_
  BY <1>1 DEF DiskType
<1>3. w.file \in [PageIds -> Value] /\ w.size \in 0..MaxPages
  BY <1>2, DiskAssumption DEF DiskType, PageIds
<1>4. w \in DiskType
  BY Zenon, <1>1, <1>2, <1>3 DEF DiskType
<1> QED BY <1>2, <1>4

(* Any other write leaves the file as it was.                              *)
LEMMA UntakenWrite ==
  ASSUME NEW d \in DiskType, NEW p \in PageIds, NEW v \in Value, NEW b \in Device,
         d.db_io_ # "good" \/ b # "accepts"
  PROVE  /\ WritePage(d, p, v, b) \in DiskType
         /\ WritePage(d, p, v, b).num_pages_ = d.num_pages_
         /\ WritePage(d, p, v, b).file = d.file
<1> DEFINE w == WritePage(d, p, v, b)
<1>1. CASE d.db_io_ # "good"
  BY <1>1 DEF DiskType, WritePage, PutPage
<1>2. CASE d.db_io_ = "good" /\ b # "accepts"
  <2>1. w = [d EXCEPT !.db_io_ = "bad"]
    BY <1>2, DiskAssumption DEF WritePage, PutPage, PageIds
  <2> HIDE DEF w
  <2>2. w \in DiskType /\ w.file = d.file /\ w.num_pages_ = d.num_pages_
    BY <2>1 DEF DiskType
  <2> QED BY <2>2 DEF w
<1> QED BY <1>1, <1>2

(* When WritePage throws: the stream was bad, or the device has rejected   *)
(* the page.                                                               *)
LEMMA ThrowsProperties ==
  ASSUME NEW d \in DiskType, NEW b \in Device
  PROVE  WriteThrows(d, b) <=> (d.db_io_ # "good" \/ b = "rejects")
BY DEF WriteThrows, DiskType

(* AllocatePage adds one page; unless the write is rejected, or one was    *)
(* before it, the page is in the file and holds zeroes.                    *)
LEMMA AllocateProperties ==
  ASSUME NEW d \in DiskType, NEW b \in Device, d.num_pages_ \in PageIds
  PROVE  /\ AllocatePage(d, b) \in DiskType
         /\ AllocatePage(d, b).num_pages_ = d.num_pages_ + 1
         /\ \A q \in PageIds : q # d.num_pages_ => AllocatePage(d, b).file[q] = d.file[q]
         /\ (d.db_io_ = "good" /\ d.size = d.num_pages_ /\ b = "accepts") =>
              /\ AllocatePage(d, b).db_io_ = "good"
              /\ AllocatePage(d, b).size = d.num_pages_ + 1
              /\ AllocatePage(d, b).file[d.num_pages_] = Zero
<1> DEFINE p == d.num_pages_
           w == WritePage(d, p, Zero, b)
<1>1. AllocatePage(d, b) = [w EXCEPT !.num_pages_ = @ + 1]
  BY DEF AllocatePage, WritePage
<1>2. Zero \in Value /\ p + 1 \in 0..MaxPages
  BY DiskAssumption DEF PageIds
<1>3. CASE d.db_io_ # "good" \/ b # "accepts"
  <2>1. w \in DiskType /\ w.num_pages_ = p /\ w.file = d.file
    BY <1>2, <1>3, UntakenWrite
  <2> HIDE DEF w
  <2>2. /\ AllocatePage(d, b) \in DiskType /\ AllocatePage(d, b).num_pages_ = p + 1
        /\ AllocatePage(d, b).file = d.file
    BY <2>1, <1>1, <1>2 DEF DiskType
  <2> QED BY <2>2, <1>3
<1>4. CASE d.db_io_ = "good" /\ b = "accepts"
  <2>1. /\ w \in DiskType /\ w.num_pages_ = p /\ w.file = [d.file EXCEPT ![p] = Zero]
        /\ w.db_io_ = "good" /\ w.size = IF p < d.size THEN d.size ELSE p + 1
    BY <1>2, <1>4, TakenWrite
  <2>2. d.size = p => w.size = p + 1
    BY <2>1, <1>2 DEF DiskType
  <2> HIDE DEF w
  <2> QED BY <2>1, <2>2, <1>1, <1>2 DEF DiskType
<1> QED BY <1>3, <1>4

(* The length of the file fits an int, so opening the file finds all of    *)
(* its pages (the constructor of DiskManager).                             *)
LEMMA OpenFindsPages ==
  ASSUME NEW d \in DiskType
  PROVE  Open(d) = [d EXCEPT !.num_pages_ = d.size, !.db_io_ = "good"]
<1> DEFINE n == d.size
           b == n * PAGE_SIZE
<1>1. n \in Nat /\ n <= MaxPages
  BY DiskAssumption DEF DiskType
<1>2. b \in Nat /\ 2 * b < IntRange
  <2>1. b \in Nat /\ MaxPages * PAGE_SIZE \in Nat
    BY <1>1, DiskAssumption
  <2>2. b <= MaxPages * PAGE_SIZE
    BY <1>1, DiskAssumption
  <2>3. 2 * MaxPages * PAGE_SIZE = 2 * (MaxPages * PAGE_SIZE)
    BY DiskAssumption
  <2> HIDE DEF b
  <2> QED BY <2>1, <2>2, <2>3, PoolAssumption, DiskAssumption
<1>3. b % IntRange = b
  BY <1>2, DiskAssumption
<1>4. ToInt(b) = b
  BY <1>2, <1>3 DEF ToInt
<1>5. b \div PAGE_SIZE = n
  BY <1>1, DiskAssumption
<1>6. Quotient(ToInt(b), PAGE_SIZE) = n
  BY <1>2, <1>4, <1>5 DEF Quotient
<1> QED BY Zenon, <1>6 DEF Open

-----------------------------------------------------------------------------
(* Consequences of the invariant used by every action. *)

(* The device fails only at the price of a fault.                          *)
LEMMA FaultProperties ==
  ASSUME TypeOK, NEW dev \in Device, Fault(dev)
  PROVE  /\ faults' \in 0..MaxFaults /\ (faults = 0 \/ faults' # 0)
         /\ dev # "accepts" => faults' # 0
<1>1. faults \in 0..MaxFaults
  BY DEF TypeOK
<1> QED BY <1>1, PoolAssumption DEF Fault

(* No client holds a page that is not resident, or whose pin count is 0.   *)
LEMMA UnpinnedNotHeld ==
  ASSUME TypeOK, TableMatchesFrames, PinsAreHolders,
         NEW p \in PageIds, Resident(p) => frames_[page_table_[p]].pin_count_ = 0
  PROVE  \A c \in Clients : ptr[c][p] = NoFrame
<1> SUFFICES ASSUME NEW c \in Clients, ptr[c][p] # NoFrame PROVE FALSE
  OBVIOUS
<1>1. page_table_[p] = ptr[c][p] /\ Resident(p)
  BY DEF PinsAreHolders, Resident
<1>2. IsFiniteSet(Holders(p, page_table_[p]))
  BY PoolAssumption, FS_Subset DEF Holders
<1>3. Cardinality(Holders(p, page_table_[p])) = 0
  BY <1>1 DEF PinsAreHolders
<1>4. Holders(p, page_table_[p]) = {}
  BY <1>2, <1>3, FS_EmptySet
<1> QED BY <1>1, <1>4 DEF Holders

(* The frame GetFreeFrame returns belongs to nobody afterwards: the page   *)
(* table, the free list, the replacer and the clients refer to it no more, *)
(* and for every other frame nothing has changed.                          *)
LEMMA FreeFrameProperties ==
  ASSUME IInv, NEW f \in Frames, FreeFrame(f)
  PROVE  /\ ListAfter \in Seq(Frames) /\ IsInjective(ListAfter)
         /\ Range(ListAfter) = Range(free_list_) \ {f}
         /\ TableAfter(f) \in [PageIds -> Frames \cup {NoFrame}]
         /\ \A p \in PageIds : TableAfter(f)[p] =
              IF page_table_[p] = f THEN NoFrame ELSE page_table_[p]
         /\ ReplacerOK(ReplacerAfter(f), Frames)
         /\ Range(ReplacerAfter(f).lru_list_) = Range(replacer_.lru_list_) \ {f}
         /\ ReplacerAfter(f).evictable_ = replacer_.evictable_ \ {f}
         /\ \A c \in Clients, p \in PageIds : ptr[c][p] # f
         /\ Evicting => PageIn(f) \in PageIds
<1> USE DEF IInv
<1>0. ReplacerOK(replacer_, Frames)
  BY DEF TypeOK, FramesHaveOneOwner, ReplacerOK
<1>1. CASE Evicting
  <2>1. /\ f \in Range(replacer_.lru_list_) /\ f \in replacer_.evictable_
        /\ ReplacerOK(Evict(replacer_, f), Frames)
        /\ Range(Evict(replacer_, f).lru_list_) = Range(replacer_.lru_list_) \ {f}
        /\ Evict(replacer_, f).evictable_ = replacer_.evictable_ \ {f}
    BY <1>0, <1>1, EvictProperties DEF FreeFrame
  <2>2. /\ PageIn(f) \in PageIds /\ page_table_[PageIn(f)] = f
        /\ frames_[f].pin_count_ = 0
    BY <2>1 DEF TypeOK, Page, PageIn, FramesHaveOneOwner, ReplacerOffersUnpinned,
                TableMatchesFrames
  <2>3. \A p \in PageIds : page_table_[p] = f <=> p = PageIn(f)
    BY DEF TableMatchesFrames
  <2>4. \A c \in Clients, p \in PageIds : ptr[c][p] # f
    <3>1. \A c \in Clients : ptr[c][PageIn(f)] = NoFrame
      <4>1. Resident(PageIn(f)) => frames_[page_table_[PageIn(f)]].pin_count_ = 0
        BY <2>2
      <4>2. PageIn(f) \in PageIds
        BY <2>2
      <4> QED BY <4>1, <4>2, UnpinnedNotHeld, Zenon
    <3> QED BY <3>1, <2>2, <2>3, NoneIsNone DEF PinsAreHolders
  <2>5. ListAfter = << >> /\ free_list_ = << >>
    BY <1>1 DEF ListAfter, Evicting
  <2>6. Range(<< >>) = {} /\ IsInjective(<< >>) /\ << >> \in Seq(Frames)
    BY DEF Range, IsInjective
  <2>7. TableAfter(f) = [page_table_ EXCEPT ![PageIn(f)] = NoFrame]
    BY <1>1 DEF TableAfter
  <2>8. ReplacerAfter(f) = Evict(replacer_, f)
    BY <1>1 DEF ReplacerAfter
  <2>9. TableAfter(f) \in [PageIds -> Frames \cup {NoFrame}]
    BY Zenon, <2>7 DEF TypeOK
  <2>10. ASSUME NEW p \in PageIds
         PROVE  TableAfter(f)[p] = IF page_table_[p] = f THEN NoFrame ELSE page_table_[p]
    BY <2>2, <2>3, <2>7 DEF TypeOK
  <2> QED BY <2>1, <2>2, <2>4, <2>5, <2>6, <2>8, <2>9, <2>10
<1>2. CASE ~Evicting
  <2>1. /\ free_list_ \in Seq(Frames) /\ free_list_ # << >> /\ f = Head(free_list_)
        /\ IsInjective(free_list_)
    BY <1>2 DEF Evicting, FreeFrame, TypeOK, FramesHaveOneOwner
  <2>2. ListAfter = Tail(free_list_) /\ TableAfter(f) = page_table_
        /\ ReplacerAfter(f) = replacer_
    BY <1>2 DEF ListAfter, TableAfter, ReplacerAfter
  <2>3. f \in Range(free_list_)
    BY <2>1, LenProperties, EmptySeq DEF Range
  <2>4. PageIn(f) = INVALID_PAGE_ID
    BY <2>3 DEF FramesHaveOneOwner
  <2>5. \A p \in PageIds : page_table_[p] # f
    BY <2>4, NoneIsNone DEF TableMatchesFrames
  <2>6. f \notin Range(replacer_.lru_list_) /\ f \notin replacer_.evictable_
    BY <2>4 DEF FramesHaveOneOwner, ReplacerOffersUnpinned
  <2>7. \A c \in Clients, p \in PageIds : ptr[c][p] # f
    BY <2>5, NoneIsNone DEF PinsAreHolders
  <2>8. /\ Tail(free_list_) \in Seq(Frames) /\ IsInjective(Tail(free_list_))
        /\ Range(Tail(free_list_)) = Range(free_list_) \ {f}
    BY <2>1, TailProperties
  <2> QED BY <1>0, <1>2, <2>2, <2>5, <2>6, <2>7, <2>8 DEF TypeOK
<1> QED BY <1>1, <1>2

(* What NewPage and FetchPage have done once p is in frame f. *)
Installed(c, f, p, v) ==
  /\ frames_' \in [Frames -> Page]
  /\ page_table_' \in [PageIds -> Frames \cup {NoFrame}]
  /\ free_list_' \in Seq(Frames)
  /\ replacer_' \in [lru_list_ : Seq(Frames), evictable_ : SUBSET Frames]
  /\ ptr' \in [Clients -> [PageIds -> Frames \cup {NoFrame}]]
  /\ wrote' = wrote
  /\ \A q \in PageIds : page_table_'[q] =
       IF q = p THEN f ELSE IF page_table_[q] = f THEN NoFrame ELSE page_table_[q]
  /\ \A g \in Frames : g # f => frames_'[g] = frames_[g]
  /\ frames_'[f] = [data_ |-> v, page_id_ |-> p, pin_count_ |-> 1,
                    is_dirty_ |-> FALSE]
  /\ TableMatchesFrames' /\ FramesHaveOneOwner' /\ PinsAreHolders'
  /\ \A g \in replacer_'.evictable_ :
       g \in Range(replacer_'.lru_list_) /\ frames_'[g].pin_count_ = 0
  /\ \A g \in Frames : frames_'[g].pin_count_ > 0 =>
       g \in Range(replacer_'.lru_list_)
  /\ Stranded = {} => Stranded' = {}
  /\ \A e \in Clients, q \in PageIds :
       ptr'[e][q] = IF e = c /\ q = p THEN f ELSE ptr[e][q]

(* Installing page p in the frame that GetFreeFrame returned keeps the     *)
(* bookkeeping of the pool (the common end of NewPage and FetchPage).      *)
LEMMA InstallProperties ==
  ASSUME IInv, NEW c \in Clients, NEW f \in Frames, NEW p \in PageIds,
         NEW v \in Value, FreeFrame(f), ~Resident(p), Install(c, f, p, v)
  PROVE  Installed(c, f, p, v)
<1>1. /\ ListAfter \in Seq(Frames) /\ IsInjective(ListAfter)
      /\ Range(ListAfter) = Range(free_list_) \ {f}
      /\ TableAfter(f) \in [PageIds -> Frames \cup {NoFrame}]
      /\ \A q \in PageIds : TableAfter(f)[q] =
           IF page_table_[q] = f THEN NoFrame ELSE page_table_[q]
      /\ ReplacerOK(ReplacerAfter(f), Frames)
      /\ Range(ReplacerAfter(f).lru_list_) = Range(replacer_.lru_list_) \ {f}
      /\ ReplacerAfter(f).evictable_ = replacer_.evictable_ \ {f}
      /\ \A d \in Clients, q \in PageIds : ptr[d][q] # f
  BY FreeFrameProperties
<1>2. /\ ReplacerOK(replacer_', Frames)
      /\ Range(replacer_'.lru_list_) = Range(replacer_.lru_list_) \cup {f}
      /\ replacer_'.evictable_ = replacer_.evictable_ \ {f}
  <2> DEFINE r == RecordAccess(ReplacerAfter(f), f)
  <2>1. /\ ReplacerOK(r, Frames)
        /\ Range(r.lru_list_) = Range(replacer_.lru_list_) \cup {f}
        /\ r.evictable_ = replacer_.evictable_ \ {f}
    <3>1. /\ ReplacerOK(r, Frames)
          /\ Range(r.lru_list_) = Range(ReplacerAfter(f).lru_list_) \cup {f}
          /\ r.evictable_ = ReplacerAfter(f).evictable_
      <4>1. ReplacerOK(ReplacerAfter(f), Frames)
        BY <1>1
      <4> QED BY <4>1, RecordAccessProperties
    <3> QED BY <3>1, <1>1
  <2>2. replacer_' = [r EXCEPT !.evictable_ = @ \ {f}]
    BY DEF Install, SetEvictable
  <2> HIDE DEF r
  <2> QED BY <2>1, <2>2 DEF ReplacerOK
<1>3. /\ frames_ \in [Frames -> Page] /\ ptr \in [Clients -> [PageIds -> Frames \cup {NoFrame}]]
      /\ page_table_ \in [PageIds -> Frames \cup {NoFrame}]
  BY DEF IInv, TypeOK
<1>4. /\ frames_' \in [Frames -> Page]
      /\ \A g \in Frames : g # f => frames_'[g] = frames_[g]
      /\ frames_'[f] = [data_ |-> v, page_id_ |-> p, pin_count_ |-> 1, is_dirty_ |-> FALSE]
  BY <1>3 DEF Install, Page
<1>5. /\ page_table_' \in [PageIds -> Frames \cup {NoFrame}]
      /\ \A q \in PageIds : page_table_'[q] =
           IF q = p THEN f ELSE IF page_table_[q] = f THEN NoFrame ELSE page_table_[q]
  BY <1>1, <1>3 DEF Install
<1>6. /\ ptr' \in [Clients -> [PageIds -> Frames \cup {NoFrame}]]
      /\ \A d \in Clients, q \in PageIds :
           ptr'[d][q] = IF d = c /\ q = p THEN f ELSE ptr[d][q]
  BY <1>3 DEF Install
<1>7. free_list_' = ListAfter /\ wrote' = wrote
  BY DEF Install
<1>8. /\ \A g \in Frames : g # f => PageIn(g)' = PageIn(g)
      /\ PageIn(f)' = p
  BY <1>4 DEF PageIn
<1>9. TableMatchesFrames'
  <2> SUFFICES ASSUME NEW q \in PageIds, NEW g \in Frames
               PROVE  page_table_'[q] = g <=> PageIn(g)' = q
    BY DEF TableMatchesFrames
  <2>1. page_table_[q] = g <=> PageIn(g) = q
    BY DEF IInv, TableMatchesFrames
  <2>2. page_table_[p] = NoFrame
    BY DEF Resident
  <2> QED BY <1>5, <1>8, <2>1, <2>2, NoneIsNone DEF IInv, TableMatchesFrames
<1>10. FramesHaveOneOwner'
  <2>1. IsInjective(free_list_') /\ IsInjective(replacer_'.lru_list_)
    BY <1>1, <1>2, <1>7 DEF ReplacerOK
  <2>2. \A g \in Frames : g \in Range(free_list_') <=> PageIn(g)' = INVALID_PAGE_ID
    BY <1>1, <1>7, <1>8, NoneIsNone DEF IInv, FramesHaveOneOwner
  <2>3. \A g \in Range(replacer_'.lru_list_) : PageIn(g)' # INVALID_PAGE_ID
    <3>1. Range(replacer_'.lru_list_) \subseteq Frames
      BY <1>2, RangeOfSeq DEF ReplacerOK
    <3> QED BY <3>1, <1>2, <1>8, NoneIsNone DEF IInv, FramesHaveOneOwner
  <2> QED BY <2>1, <2>2, <2>3 DEF FramesHaveOneOwner
<1>11. PinsAreHolders'
  <2>1. \A d \in Clients : ptr[d][p] = NoFrame
    BY UnpinnedNotHeld DEF IInv
  <2>2. ASSUME NEW d \in Clients, NEW q \in PageIds, ptr'[d][q] # NoFrame
        PROVE  page_table_'[q] = ptr'[d][q]
    <3>1. CASE d = c /\ q = p
      BY <3>1, <1>5, <1>6
    <3>2. CASE ~(d = c /\ q = p)
      <4>1. ptr'[d][q] = ptr[d][q] /\ ptr[d][q] # NoFrame
        BY <2>2, <3>2, <1>6
      <4>2. page_table_[q] = ptr[d][q]
        BY <4>1 DEF IInv, PinsAreHolders
      <4>3. q # p
        BY <4>1, <2>1
      <4>4. page_table_[q] # f
        BY <4>1, <4>2, <1>1
      <4> QED BY <4>1, <4>2, <4>3, <4>4, <1>5
    <3> QED BY <3>1, <3>2
  <2>3. ASSUME NEW q \in PageIds, Resident(q)'
        PROVE  frames_'[page_table_'[q]].pin_count_ = Cardinality(Holders(q, page_table_[q])')
    <3>1. CASE q = p
      <4>1. Holders(p, page_table_[p])' = {c}
        BY <2>1, <1>5, <1>6, <3>1, NoneIsNone DEF Holders
      <4>2. Cardinality({c}) = 1
        BY Zenon, FS_Singleton
      <4> QED BY <4>1, <4>2, <3>1, <1>4, <1>5
    <3>2. CASE q # p
      <4>1. page_table_'[q] = page_table_[q] /\ page_table_[q] # f /\ Resident(q)
            /\ page_table_[q] \in Frames
        BY <2>3, <3>2, <1>3, <1>5 DEF Resident
      <4>2. Holders(q, page_table_[q])' = Holders(q, page_table_[q])
        BY <3>2, <4>1, <1>6 DEF Holders
      <4> QED BY <4>1, <4>2, <1>4 DEF IInv, PinsAreHolders
    <3> QED BY <3>1, <3>2
  <2> QED BY <2>2, <2>3 DEF PinsAreHolders
<1>12. \A g \in replacer_'.evictable_ :
         g \in Range(replacer_'.lru_list_) /\ frames_'[g].pin_count_ = 0
  BY <1>2, <1>4 DEF IInv, ReplacerOffersUnpinned, TypeOK
<1>13. \A g \in Frames : frames_'[g].pin_count_ > 0 => g \in Range(replacer_'.lru_list_)
  BY <1>2, <1>4 DEF IInv, Bookkeeping
<1>14. Stranded = {} => Stranded' = {}
  BY <1>2, <1>4, <1>8 DEF Stranded
<1> QED
  BY <1>1, <1>2, <1>4, <1>5, <1>6, <1>7, <1>9, <1>10, <1>11, <1>12, <1>13, <1>14
     DEF ReplacerOK, Installed

(* Writing back the victim leaves the file as it was but for the page of   *)
(* the victim, whose contents are then in the file if the device took them. *)
LEMMA WriteBackProperties ==
  ASSUME IInv, NEW f \in Frames, FreeFrame(f), NEW dev \in Device,
         IF WritesBack(f) THEN ~WriteThrows(disk, dev) ELSE dev = "accepts"
  PROVE  LET d == WriteBack(f, dev) IN
         /\ d \in DiskType /\ d.num_pages_ = disk.num_pages_
         /\ faults = 0 /\ dev = "accepts" => d.db_io_ = "good" /\ d.size = d.num_pages_
         /\ \A q \in PageIds : page_table_[q] # f => d.file[q] = disk.file[q]
         /\ \A q \in PageIds :
              /\ dev = "accepts" /\ page_table_[q] = f
              /\ faults = 0 \/ frames_[f].is_dirty_
              => d.file[q] = frames_[f].data_
<1> DEFINE d == WriteBack(f, dev)
<1>1. /\ disk \in DiskType /\ frames_[f] \in Page /\ frames_[f].data_ \in Value
  BY DEF IInv, TypeOK, DiskType, Page
<1>2. faults = 0 => disk.db_io_ = "good" /\ disk.size = disk.num_pages_
  BY DEF IInv, Bookkeeping
<1>3. ASSUME NEW q \in PageIds, page_table_[q] = f
      PROVE Evicting /\ PageIn(f) = q /\ q < disk.num_pages_
  <2>1. PageIn(f) = q /\ Resident(q)
    BY <1>3, NoneIsNone DEF IInv, TableMatchesFrames, Resident
  <2>2. Evicting
    <3> SUFFICES ASSUME ~Evicting PROVE FALSE
      OBVIOUS
    <3>1. free_list_ \in Seq(Frames) /\ free_list_ # << >> /\ f = Head(free_list_)
      BY DEF Evicting, FreeFrame, IInv, TypeOK
    <3>2. f \in Range(free_list_)
      BY <3>1, LenProperties, EmptySeq DEF Range
    <3> QED BY <3>2, <2>1, NoneIsNone DEF IInv, FramesHaveOneOwner
  <2> QED BY <2>1, <2>2 DEF IInv, Bookkeeping
<1>4. CASE WritesBack(f)
  <2>1. PageIn(f) \in PageIds /\ page_table_[PageIn(f)] = f
    BY <1>4, FreeFrameProperties DEF WritesBack, IInv, TableMatchesFrames
  <2>2. PageIn(f) < disk.num_pages_
    BY <1>3, <2>1
  <2>3. d = WritePage(disk, PageIn(f), frames_[f].data_, dev)
    BY <1>4 DEF WriteBack
  <2>4. disk.db_io_ = "good"
    BY <1>1, <1>4, ThrowsProperties
  <2> HIDE DEF d
  <2>5. /\ d \in DiskType /\ d.num_pages_ = disk.num_pages_
        /\ dev = "accepts" =>
             /\ d.file = [disk.file EXCEPT ![PageIn(f)] = frames_[f].data_]
             /\ d.db_io_ = "good"
             /\ d.size = IF PageIn(f) < disk.size THEN disk.size ELSE PageIn(f) + 1
        /\ dev # "accepts" => d.file = disk.file
    <3>1. CASE dev = "accepts"
      BY <3>1, <1>1, <2>1, <2>3, <2>4, TakenWrite
    <3>2. CASE dev # "accepts"
      BY <3>2, <1>1, <2>1, <2>3, UntakenWrite
    <3> QED BY <3>1, <3>2
  <2>6. faults = 0 /\ dev = "accepts" => d.size = d.num_pages_
    BY <1>2, <2>2, <2>5
  <2>7. \A q \in PageIds : d.file[q] =
          IF q = PageIn(f) /\ dev = "accepts" THEN frames_[f].data_ ELSE disk.file[q]
    BY <2>1, <2>5, <1>1 DEF DiskType
  <2> QED BY <2>1, <2>5, <2>6, <2>7, <1>3 DEF d
<1>5. CASE ~WritesBack(f)
  <2>1. d = disk
    BY <1>5 DEF WriteBack
  <2>2. ASSUME NEW q \in PageIds, faults = 0, page_table_[q] = f
        PROVE  disk.file[q] = frames_[f].data_
    <3>1. ~frames_[f].is_dirty_ /\ f \in replacer_.evictable_ /\ Resident(q)
      <4>1. Evicting
        BY <1>3, <2>2
      <4>2. f \in replacer_.evictable_
        BY <4>1 DEF FreeFrame, IsVictim
      <4> QED BY <4>1, <4>2, <1>5, <2>2, NoneIsNone DEF WritesBack, Resident
    <3>2. frames_[page_table_[q]].pin_count_ = 0
      BY <2>2, <3>1 DEF IInv, ReplacerOffersUnpinned
    <3>3. \A c \in Clients : ptr[c][q] = NoFrame
      <4>1. Resident(q) => frames_[page_table_[q]].pin_count_ = 0
        BY <3>2
      <4> QED BY <4>1, UnpinnedNotHeld DEF IInv
    <3>4. Holders(q, page_table_[q]) = {}
      BY <2>2, <3>3, NoneIsNone DEF Holders
    <3> QED BY <2>2, <3>1, <3>4 DEF IInv, NoLostWrite
  <2>3. ASSUME NEW q \in PageIds, page_table_[q] = f PROVE ~frames_[f].is_dirty_
    BY <2>3, <1>3, <1>5 DEF WritesBack
  <2> QED BY <1>1, <1>2, <2>1, <2>2, <2>3
<1> QED BY <1>4, <1>5

(* Only the page of a victim can be lost by GetFreeFrame.                  *)
LEMMA LostIsPage ==
  ASSUME IInv, NEW f \in Frames, NEW dev \in Device, GetFreeFrame(f, dev)
  PROVE  lost' \in SUBSET PageIds
<1>1. CASE dev = "loses"
  <2>1. FreeFrame(f) /\ Evicting
    BY <1>1 DEF GetFreeFrame, WritesBack
  <2>2. PageIn(f) \in PageIds
    BY Zenon, <2>1, FreeFrameProperties
  <2> QED BY <2>2, <1>1 DEF GetFreeFrame, Losing
<1>2. CASE dev # "loses"
  BY <1>2 DEF GetFreeFrame, Losing
<1> QED BY <1>1, <1>2

(* What installing a page changes. *)
LEMMA InstalledChanges ==
  ASSUME NEW c, NEW f, NEW p, NEW v, Installed(c, f, p, v)
  PROVE  /\ wrote' = wrote
         /\ \A q \in PageIds : page_table_'[q] =
              IF q = p THEN f ELSE IF page_table_[q] = f THEN NoFrame ELSE page_table_[q]
         /\ \A g \in Frames : g # f => frames_'[g] = frames_[g]
         /\ frames_'[f].data_ = v
         /\ \A e \in Clients, q \in PageIds :
              ptr'[e][q] = IF e = c /\ q = p THEN f ELSE ptr[e][q]
<1>1. frames_'[f] = [data_ |-> v, page_id_ |-> p, pin_count_ |-> 1, is_dirty_ |-> FALSE]
  BY Zenon DEF Installed
<1>2. frames_'[f].data_ = v
  BY <1>1
<1> QED BY Zenon, <1>2 DEF Installed

(* A page installed with its contents in the file hides no unwritten data. *)
LEMMA InstallKeepsWrites ==
  ASSUME IInv, NEW c \in Clients, NEW f \in Frames, NEW p \in PageIds, NEW v,
         Installed(c, f, p, v), faults' = 0 => faults = 0 /\ disk'.file[p] = v,
         \A q \in PageIds : q # p /\ page_table_[q] # f => disk'.file[q] = disk.file[q]
  PROVE  NoLostWrite'
<1> SUFFICES ASSUME faults' = 0, NEW q \in PageIds, page_table_'[q] # NoFrame,
                    frames_'[page_table_'[q]].data_ # disk'.file[q]
             PROVE  \/ frames_'[page_table_'[q]].is_dirty_
                    \/ \E e \in Holders(q, page_table_[q])' : q \in wrote'[e]
  BY Zenon DEF NoLostWrite, Resident
<1>1. /\ wrote' = wrote
      /\ page_table_'[q] = IF q = p THEN f ELSE IF page_table_[q] = f THEN NoFrame ELSE page_table_[q]
      /\ \A g \in Frames : g # f => frames_'[g] = frames_[g]
      /\ frames_'[f].data_ = v
      /\ \A e \in Clients : ptr'[e][q] = IF e = c /\ q = p THEN f ELSE ptr[e][q]
  BY InstalledChanges
<1>2. q # p
  BY Zenon, <1>1
<1>3. page_table_[q] \in Frames \cup {NoFrame}
  BY DEF IInv, TypeOK
<1>4. page_table_'[q] = page_table_[q] /\ page_table_[q] # f /\ page_table_[q] \in Frames
  BY <1>1, <1>2, <1>3
<1>5. frames_'[page_table_[q]] = frames_[page_table_[q]] /\ disk'.file[q] = disk.file[q]
  BY Zenon, <1>1, <1>2, <1>4
<1>6. Holders(q, page_table_[q])' = Holders(q, page_table_[q])
  BY <1>1, <1>2, <1>4 DEF Holders
<1>7. \/ frames_[page_table_[q]].is_dirty_
      \/ \E e \in Holders(q, page_table_[q]) : q \in wrote[e]
  BY Zenon, <1>4, <1>5 DEF IInv, NoLostWrite, Resident
<1> QED BY Zenon, <1>1, <1>4, <1>5, <1>6, <1>7

-----------------------------------------------------------------------------
(* Getting a page and writing to it keep the invariant. *)

(* FetchPage, when the page is not resident.                               *)
LEMMA FetchMissPreserves ==
  ASSUME IInv, NEW c \in Clients, NEW p \in PageIds, NEW f \in Frames,
         FetchMiss(c, p, f)
  PROVE  IInv'
<1>1. PICK dev \in Device :
        /\ GetFreeFrame(f, dev) /\ Fault(dev)
        /\ disk' = ReadPage(WriteBack(f, dev))
        /\ Install(c, f, p, ReadData(WriteBack(f, dev), p))
  BY DEF FetchMiss
<1> DEFINE d == WriteBack(f, dev)
<1>a. /\ ~Resident(p) /\ p < disk.num_pages_ /\ FreeFrame(f)
      /\ IF WritesBack(f) THEN ~WriteThrows(disk, dev) ELSE dev = "accepts"
  BY <1>1 DEF FetchMiss, CanFetch, GetFreeFrame
<1>b. lost' \in SUBSET PageIds
  BY <1>1, LostIsPage
<1>c. faults' \in 0..MaxFaults /\ (faults' = 0 => faults = 0 /\ dev = "accepts")
  BY <1>1, FaultProperties DEF IInv
<1>2. /\ d \in DiskType /\ d.num_pages_ = disk.num_pages_
      /\ faults' = 0 => d.db_io_ = "good" /\ d.size = d.num_pages_
      /\ \A q \in PageIds : page_table_[q] # f => d.file[q] = disk.file[q]
  BY Zenon, <1>a, <1>c, WriteBackProperties
<1>3. ReadData(d, p) \in Value /\ (faults' = 0 => ReadData(d, p) = d.file[p])
  BY <1>2, DiskAssumption DEF ReadData, DiskType
<1>4. /\ disk' \in DiskType /\ disk'.file = d.file /\ disk'.num_pages_ = disk.num_pages_
      /\ faults' = 0 => disk'.db_io_ = "good" /\ disk'.size = disk'.num_pages_
  BY <1>1, <1>2 DEF ReadPage, DiskType
<1>d. Install(c, f, p, ReadData(d, p))
  BY <1>1
<1> HIDE DEF d
<1> DEFINE v == ReadData(d, p)
<1>5. Installed(c, f, p, v)
  BY Zenon, <1>a, <1>d, <1>3, InstallProperties
<1> HIDE DEF v
<1>6. TypeOK'
  BY Zenon, <1>b, <1>c, <1>4, <1>5 DEF TypeOK, DiskType, IInv, Installed
<1>7. ReplacerOffersUnpinned'
  BY Zenon, <1>c, <1>5 DEF ReplacerOffersUnpinned, IInv, Installed
<1>8. Bookkeeping'
  BY Zenon, <1>a, <1>4, <1>5 DEF Bookkeeping, IInv, Resident, Installed
<1>9. NoLostWrite'
  <2>1. faults' = 0 => faults = 0 /\ disk'.file[p] = v
    BY Zenon, <1>c, <1>3, <1>4 DEF v
  <2>2. \A q \in PageIds : q # p /\ page_table_[q] # f => disk'.file[q] = disk.file[q]
    BY Zenon, <1>2, <1>4
  <2> QED BY <1>5, <2>1, <2>2, InstallKeepsWrites
<1> QED BY Zenon, <1>5, <1>6, <1>7, <1>8, <1>9 DEF IInv, Installed

(* NewPage.  The page it allocates was not resident.                       *)
LEMMA NewPagePreserves ==
  ASSUME IInv, NEW c \in Clients, NEW f \in Frames, NewPage(c, f)
  PROVE  IInv'
<1>1. PICK dev \in Device, alloc \in Device :
        /\ "accepts" \in {dev, alloc} /\ GetFreeFrame(f, dev)
        /\ Fault(IF dev = "accepts" THEN alloc ELSE dev)
        /\ disk' = AllocatePage(WriteBack(f, dev), alloc)
  BY DEF NewPage
<1> DEFINE d == WriteBack(f, dev)
           p == disk.num_pages_
<1>a. /\ p \in PageIds /\ FreeFrame(f) /\ Install(c, f, p, Zero)
      /\ IF WritesBack(f) THEN ~WriteThrows(disk, dev) ELSE dev = "accepts"
  BY <1>1 DEF NewPage, GetFreeFrame
<1>b. lost' \in SUBSET PageIds
  BY <1>1, LostIsPage
<1>2. /\ d \in DiskType /\ d.num_pages_ = disk.num_pages_
      /\ faults = 0 /\ dev = "accepts" => d.db_io_ = "good" /\ d.size = d.num_pages_
      /\ \A q \in PageIds : page_table_[q] # f => d.file[q] = disk.file[q]
  BY Zenon, <1>a, WriteBackProperties
<1>3. ~Resident(p) /\ \A q \in PageIds : page_table_[q] # NoFrame => q < p
  <2>1. \A q \in PageIds : page_table_[q] # NoFrame => q < p
    BY Zenon DEF IInv, Bookkeeping, Resident
  <2>2. p \in PageIds /\ ~(p < p)
    BY <1>a, DiskAssumption DEF PageIds
  <2> QED BY Zenon, <2>1, <2>2 DEF Resident
<1>4. /\ faults' \in 0..MaxFaults
      /\ faults' = 0 => faults = 0 /\ dev = "accepts" /\ alloc = "accepts"
  <2>1. CASE dev = "accepts"
    BY <1>1, <2>1, FaultProperties DEF IInv
  <2>2. CASE dev # "accepts"
    BY <1>1, <2>2, FaultProperties DEF IInv
  <2> QED BY <2>1, <2>2
<1> HIDE DEF d
<1>5. /\ disk' \in DiskType /\ disk'.num_pages_ = p + 1
      /\ \A q \in PageIds : q # p => disk'.file[q] = d.file[q]
      /\ faults' = 0 => /\ disk'.db_io_ = "good" /\ disk'.size = disk'.num_pages_
                        /\ disk'.file[p] = Zero
  <2>1. d.num_pages_ \in PageIds /\ d.num_pages_ = p /\ disk' = AllocatePage(d, alloc)
    BY <1>1, <1>a, <1>2 DEF d
  <2>2. faults' = 0 => d.db_io_ = "good" /\ d.size = p /\ alloc = "accepts"
    BY <1>2, <1>4
  <2> HIDE DEF p
  <2> QED BY <2>1, <2>2, <1>2, AllocateProperties
<1>6. Installed(c, f, p, Zero)
  BY <1>a, <1>3, DiskAssumption, InstallProperties
<1>7. TypeOK'
  BY Zenon, <1>b, <1>4, <1>5, <1>6 DEF TypeOK, DiskType, IInv, Installed
<1>8. ReplacerOffersUnpinned'
  BY Zenon, <1>4, <1>6 DEF ReplacerOffersUnpinned, IInv, Installed
<1>9. Bookkeeping'
  <2>1. ASSUME NEW q \in PageIds, page_table_'[q] # NoFrame PROVE q < disk'.num_pages_
    <3>1. q = p \/ page_table_[q] # NoFrame
      BY Zenon, <2>1, <1>6 DEF Installed
    <3> QED BY <3>1, <1>a, <1>3, <1>5 DEF PageIds
  <2> QED BY Zenon, <2>1, <1>5, <1>6 DEF Bookkeeping, Resident, Installed
<1>10. NoLostWrite'
  <2>1. faults' = 0 => faults = 0 /\ disk'.file[p] = Zero
    BY Zenon, <1>4, <1>5
  <2>2. \A q \in PageIds : q # p /\ page_table_[q] # f => disk'.file[q] = disk.file[q]
    BY Zenon, <1>2, <1>5
  <2> HIDE DEF p
  <2> QED BY <1>a, <1>6, <2>1, <2>2, InstallKeepsWrites
<1> QED BY Zenon, <1>6, <1>7, <1>8, <1>9, <1>10 DEF IInv, Installed

(* FetchPage, when the page is resident: one more client holds the frame.  *)
LEMMA FetchHitPreserves ==
  ASSUME IInv, NEW c \in Clients, NEW p \in PageIds, FetchHit(c, p)
  PROVE  IInv'
<1> DEFINE f == page_table_[p]
<1> USE DEF IInv
<1>1. /\ f \in Frames /\ PageIn(f) = p /\ Resident(p) /\ ptr[c][p] = NoFrame
      /\ frames_[f] \in Page /\ frames_[f].pin_count_ \in Nat
  BY NoneIsNone DEF FetchHit, CanFetch, TypeOK, TableMatchesFrames, Resident, Page
<1>2. /\ frames_' = [frames_ EXCEPT ![f].pin_count_ = @ + 1]
      /\ ptr' = [ptr EXCEPT ![c][p] = f]
      /\ page_table_' = page_table_ /\ free_list_' = free_list_ /\ disk' = disk
      /\ wrote' = wrote /\ faults' = faults /\ lost' = {}
  BY DEF FetchHit, NoFault
<1> DEFINE r == RecordAccess(replacer_, f)
<1>3. /\ ReplacerOK(replacer_', Frames)
      /\ Range(replacer_'.lru_list_) = Range(replacer_.lru_list_) \cup {f}
      /\ replacer_'.evictable_ = replacer_.evictable_ \ {f}
  <2>1. ReplacerOK(replacer_, Frames)
    BY DEF TypeOK, FramesHaveOneOwner, ReplacerOK
  <2>2. /\ ReplacerOK(r, Frames) /\ r.evictable_ = replacer_.evictable_
        /\ Range(r.lru_list_) = Range(replacer_.lru_list_) \cup {f}
    BY <1>1, <2>1, RecordAccessProperties
  <2>3. replacer_' = [r EXCEPT !.evictable_ = @ \ {f}]
    BY DEF FetchHit, SetEvictable
  <2> HIDE DEF r
  <2> QED BY <2>2, <2>3 DEF ReplacerOK
<1> HIDE DEF f, r
<1>4. /\ frames_' \in [Frames -> Page]
      /\ \A g \in Frames : g # f => frames_'[g] = frames_[g]
      /\ frames_'[f] = [frames_[f] EXCEPT !.pin_count_ = @ + 1]
  <2>1. [frames_[f] EXCEPT !.pin_count_ = @ + 1] \in Page
    BY <1>1 DEF Page
  <2>2. frames_' = [frames_ EXCEPT ![f] = [frames_[f] EXCEPT !.pin_count_ = @ + 1]]
    BY <1>2
  <2> QED BY <1>1, <2>1, <2>2 DEF TypeOK
<1>5. \A g \in Frames : /\ frames_'[g].page_id_ = frames_[g].page_id_
                        /\ frames_'[g].data_ = frames_[g].data_
                        /\ frames_'[g].is_dirty_ = frames_[g].is_dirty_
  BY <1>1, <1>4 DEF Page
<1>6. frames_'[f].pin_count_ = frames_[f].pin_count_ + 1
  BY <1>1, <1>4 DEF Page
<1>7. /\ ptr' \in [Clients -> [PageIds -> Frames \cup {NoFrame}]]
      /\ \A e \in Clients, q \in PageIds :
           ptr'[e][q] = IF e = c /\ q = p THEN f ELSE ptr[e][q]
  BY <1>1, <1>2 DEF TypeOK
<1>8. TypeOK'
  BY <1>2, <1>3, <1>4, <1>7 DEF TypeOK, ReplacerOK
<1>9. TableMatchesFrames'
  BY <1>2, <1>5 DEF TableMatchesFrames, PageIn
<1>10. FramesHaveOneOwner'
  <2>1. Range(replacer_.lru_list_) \subseteq Frames
    BY RangeOfSeq DEF TypeOK
  <2> QED BY <2>1, <1>1, <1>2, <1>3, <1>5, NoneIsNone DEF FramesHaveOneOwner, PageIn, ReplacerOK
<1>11. PinsAreHolders'
  <2>1. ASSUME NEW e \in Clients, NEW q \in PageIds, ptr'[e][q] # NoFrame
        PROVE  page_table_'[q] = ptr'[e][q]
    BY <2>1, <1>2, <1>7 DEF PinsAreHolders, f
  <2>2. ASSUME NEW q \in PageIds, Resident(q)'
        PROVE  frames_'[page_table_'[q]].pin_count_ = Cardinality(Holders(q, page_table_[q])')
    <3>1. CASE q = p
      <4>1. Holders(p, f)' = Holders(p, f) \cup {c}
        BY <1>7, <1>2 DEF Holders, f
      <4>2. c \notin Holders(p, f) /\ IsFiniteSet(Holders(p, f))
        BY <1>1, NoneIsNone, PoolAssumption, FS_Subset DEF Holders
      <4>3. Cardinality(Holders(p, f) \cup {c}) = Cardinality(Holders(p, f)) + 1
        BY Zenon, <4>2, FS_AddElement
      <4>4. frames_[f].pin_count_ = Cardinality(Holders(p, f))
        BY <1>1 DEF PinsAreHolders, f
      <4>5. page_table_'[q] = f /\ Holders(q, page_table_[q])' = Holders(p, f)'
        BY <1>2, <3>1 DEF f
      <4> QED BY <4>1, <4>3, <4>4, <4>5, <1>6
    <3>2. CASE q # p
      <4>1. page_table_[q] # f /\ page_table_[q] \in Frames /\ Resident(q)
        BY <2>2, <3>2, <1>1, <1>2 DEF TableMatchesFrames, TypeOK, Resident
      <4>2. Holders(q, page_table_[q])' = Holders(q, page_table_[q])
        BY <3>2, <1>2, <1>7 DEF Holders
      <4> QED BY <4>1, <4>2, <1>2, <1>4 DEF PinsAreHolders
    <3> QED BY <3>1, <3>2
  <2> QED BY <2>1, <2>2 DEF PinsAreHolders
<1>12. ReplacerOffersUnpinned'
  <2>1. \A g \in replacer_'.evictable_ :
          g \in Range(replacer_'.lru_list_) /\ frames_'[g].pin_count_ = 0
    BY <1>3, <1>4 DEF ReplacerOffersUnpinned, TypeOK
  <2>2. Stranded = {} => Stranded' = {}
    <3>1. \A g \in Frames : g \in Stranded' => g \in Stranded
      <4>1. frames_'[f].pin_count_ # 0
        BY <1>1, <1>6
      <4> QED BY Zenon, <4>1, <1>3, <1>4, <1>5 DEF Stranded, PageIn
    <3>2. Stranded' \subseteq Frames
      BY DEF Stranded
    <3> QED BY <3>1, <3>2
  <2> QED BY <2>1, <2>2, <1>2 DEF ReplacerOffersUnpinned
<1>13. Bookkeeping'
  BY <1>1, <1>2, <1>3, <1>4 DEF Bookkeeping, Resident
<1>14. NoLostWrite'
  <2> SUFFICES ASSUME faults = 0, NEW q \in PageIds, Resident(q),
                      frames_'[page_table_[q]].data_ # disk.file[q]
               PROVE  \/ frames_'[page_table_[q]].is_dirty_
                      \/ \E e \in Holders(q, page_table_[q])' : q \in wrote[e]
    BY <1>2 DEF NoLostWrite, Resident
  <2>1. page_table_[q] \in Frames
    BY DEF TypeOK, Resident
  <2>2. Holders(q, page_table_[q]) \subseteq Holders(q, page_table_[q])'
    BY <1>1, <1>2, <1>7, <2>1, NoneIsNone DEF Holders
  <2> QED BY <2>1, <2>2, <1>5 DEF NoLostWrite
<1> QED BY <1>8, <1>9, <1>10, <1>11, <1>12, <1>13, <1>14

(* The write-back of a victim that throws: the frame leaves the replacer,  *)
(* unpinned and still in the page table.                                   *)
LEMMA GetFreeFrameThrowsPreserves ==
  ASSUME IInv, NEW f \in Frames, GetFreeFrameThrows(f)
  PROVE  IInv'
<1> USE DEF IInv
<1>1. PICK dev \in Device :
        /\ FreeFrame(f) /\ WritesBack(f) /\ Fault(dev)
        /\ WriteThrows(disk, dev)
        /\ disk' = WriteBack(f, dev)
  BY DEF GetFreeFrameThrows
<1>2. /\ replacer_' = ReplacerAfter(f) /\ frames_' = frames_ /\ page_table_' = page_table_
      /\ free_list_' = free_list_ /\ ptr' = ptr /\ wrote' = wrote /\ lost' = {}
  BY DEF GetFreeFrameThrows, clientVars
<1>3. Evicting /\ disk \in DiskType /\ frames_[f] \in Page /\ frames_[f].data_ \in Value
  BY <1>1 DEF WritesBack, TypeOK, DiskType, Page
<1>4. /\ ReplacerOK(replacer_', Frames) /\ PageIn(f) \in PageIds
      /\ Range(replacer_'.lru_list_) = Range(replacer_.lru_list_) \ {f}
      /\ replacer_'.evictable_ = replacer_.evictable_ \ {f}
  BY Zenon, <1>1, <1>2, <1>3, FreeFrameProperties
<1>5. disk' = WritePage(disk, PageIn(f), frames_[f].data_, dev)
  BY <1>1 DEF WriteBack
<1>6. /\ disk' \in DiskType /\ disk'.num_pages_ = disk.num_pages_ /\ disk'.file = disk.file
      /\ dev # "accepts" \/ disk.db_io_ # "good"
  <2> DEFINE p == PageIn(f)
             v == frames_[f].data_
  <2>1. disk \in DiskType /\ p \in PageIds /\ v \in Value /\ dev \in Device
    BY <1>1, <1>3, <1>4
  <2>2. disk' = WritePage(disk, p, v, dev)
    BY <1>5
  <2>3. dev # "accepts" \/ disk.db_io_ # "good"
    BY Zenon, <1>1, <2>1, ThrowsProperties
  <2> HIDE DEF p, v
  <2> QED BY <2>1, <2>2, <2>3, UntakenWrite
<1>7. faults' \in 0..MaxFaults /\ faults' # 0
  <2>1. disk.db_io_ # "good" => faults # 0
    BY DEF Bookkeeping
  <2> QED BY <2>1, <1>1, <1>6, FaultProperties
<1>8. TypeOK'
  BY Zenon, <1>2, <1>4, <1>6, <1>7 DEF TypeOK, DiskType, ReplacerOK
<1>9. TableMatchesFrames' /\ PinsAreHolders'
  BY <1>2 DEF TableMatchesFrames, PinsAreHolders, PageIn, Holders, Resident
<1>10. FramesHaveOneOwner'
  BY <1>2, <1>4 DEF FramesHaveOneOwner, PageIn, ReplacerOK
<1>11. ReplacerOffersUnpinned'
  BY Zenon, <1>2, <1>4, <1>7 DEF ReplacerOffersUnpinned
<1>12. Bookkeeping'
  <2>1. frames_[f].pin_count_ = 0
    BY Zenon, <1>1, <1>3 DEF FreeFrame, IsVictim, ReplacerOffersUnpinned
  <2>2. \A g \in Frames : frames_'[g].pin_count_ > 0 => g \in Range(replacer_'.lru_list_)
    BY <2>1, <1>2, <1>4 DEF Bookkeeping
  <2>3. \A p \in PageIds : Resident(p)' => p < disk'.num_pages_
    BY <1>2, <1>6 DEF Bookkeeping, Resident
  <2> QED BY Zenon, <2>2, <2>3, <1>7 DEF Bookkeeping
<1>13. NoLostWrite'
  BY <1>7 DEF NoLostWrite
<1> QED BY <1>8, <1>9, <1>10, <1>11, <1>12, <1>13

(* A client writes through its Page*, to a page it has pinned.             *)
LEMMA WriteDataPreserves ==
  ASSUME IInv, NEW c \in Clients, NEW p \in PageIds, NEW v \in Value, WriteData(c, p, v)
  PROVE  IInv'
<1> DEFINE f == ptr[c][p]
<1> USE DEF IInv
<1>1. /\ f \in Frames /\ page_table_[p] = f /\ Resident(p)
      /\ frames_[f] \in Page
  BY NoneIsNone DEF WriteData, TypeOK, PinsAreHolders, Resident
<1>2. /\ frames_' = [frames_ EXCEPT ![f].data_ = v]
      /\ wrote' = [wrote EXCEPT ![c] = @ \cup {p}]
      /\ page_table_' = page_table_ /\ free_list_' = free_list_ /\ disk' = disk
      /\ replacer_' = replacer_ /\ ptr' = ptr /\ faults' = faults /\ lost' = {}
  BY DEF WriteData, NoFault
<1>3. f = page_table_[p] /\ c \in Holders(p, f)
  BY <1>1 DEF Holders
<1> HIDE DEF f
<1>4. /\ frames_' \in [Frames -> Page]
      /\ \A g \in Frames : g # f => frames_'[g] = frames_[g]
      /\ \A g \in Frames : /\ frames_'[g].page_id_ = frames_[g].page_id_
                           /\ frames_'[g].pin_count_ = frames_[g].pin_count_
                           /\ frames_'[g].is_dirty_ = frames_[g].is_dirty_
  BY Zenon, <1>1, <1>2 DEF TypeOK, Page
<1>5. wrote' \in [Clients -> SUBSET PageIds] /\ p \in wrote'[c]
      /\ \A e \in Clients : wrote[e] \subseteq wrote'[e]
  BY <1>2 DEF TypeOK
<1>6. TypeOK'
  BY <1>2, <1>4, <1>5 DEF TypeOK
<1>7. TableMatchesFrames' /\ FramesHaveOneOwner'
  <2>1. Range(replacer_.lru_list_) \subseteq Frames
    BY RangeOfSeq DEF TypeOK
  <2> QED BY <2>1, <1>2, <1>4 DEF TableMatchesFrames, FramesHaveOneOwner, PageIn
<1>8. PinsAreHolders'
  BY <1>2, <1>4 DEF PinsAreHolders, Holders, Resident, TypeOK
<1>9. ReplacerOffersUnpinned'
  BY <1>2, <1>4 DEF ReplacerOffersUnpinned, Stranded, PageIn, TypeOK
<1>10. Bookkeeping'
  BY <1>2, <1>4 DEF Bookkeeping, Resident
<1>11. NoLostWrite'
  <2> SUFFICES ASSUME faults = 0, NEW q \in PageIds, Resident(q),
                      frames_'[page_table_[q]].data_ # disk.file[q]
               PROVE  \/ frames_'[page_table_[q]].is_dirty_
                      \/ \E e \in Holders(q, page_table_[q])' : q \in wrote'[e]
    BY <1>2 DEF NoLostWrite, Resident
  <2>1. page_table_[q] \in Frames /\ Holders(q, page_table_[q])' = Holders(q, page_table_[q])
    BY <1>2 DEF TypeOK, Resident, Holders
  <2>2. CASE q = p
    BY <2>1, <2>2, <1>3, <1>5
  <2>3. CASE q # p
    <3>1. page_table_[q] # f
      BY <2>1, <2>3, <1>1 DEF TableMatchesFrames
    <3>2. frames_'[page_table_[q]] = frames_[page_table_[q]]
      BY <2>1, <3>1, <1>4
    <3>3. \/ frames_[page_table_[q]].is_dirty_
          \/ \E e \in Holders(q, page_table_[q]) : q \in wrote[e]
      BY <3>2 DEF NoLostWrite
    <3>4. \A e \in Holders(q, page_table_[q]) : e \in Clients
      BY DEF Holders
    <3> QED BY <3>2, <3>3, <3>4, <2>1, <1>5
  <2> QED BY <2>2, <2>3
<1> QED BY <1>6, <1>7, <1>8, <1>9, <1>10, <1>11
==============================================================================
