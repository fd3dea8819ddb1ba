-------------------------- MODULE BufferPoolProofs ---------------------------
(***************************************************************************)
(* Proofs that the buffer pool keeps its invariants, for every number of   *)
(* frames, pages, clients and device faults, and that it implements        *)
(* PageStore while the device takes every write.                           *)
(***************************************************************************)
EXTENDS BufferPoolLemmas

(* Giving a page back (UnpinPage, DeletePage) keeps the invariant. *)

(* UnpinPage: the caller's pin goes, and if it wrote to the page the frame *)
(* is dirty from then on.                                                  *)
LEMMA UnpinPagePreserves ==
  ASSUME IInv, NEW c \in Clients, NEW p \in PageIds, NEW is_dirty \in BOOLEAN,
         UnpinPage(c, p, is_dirty)
  PROVE  IInv'
<1> DEFINE f == page_table_[p]
           pins == frames_[f].pin_count_ - 1
           dirty == frames_[f].is_dirty_ \/ is_dirty
<1> USE DEF IInv
<1>1. /\ f \in Frames /\ ptr[c][p] = f /\ Resident(p)
      /\ frames_[f] \in Page /\ pins \in Nat /\ frames_[f].pin_count_ = pins + 1
      /\ p \in wrote[c] => is_dirty
  <2>1. /\ ptr[c][p] # NoFrame /\ (p \in wrote[c] => is_dirty)
        /\ Resident(p) /\ frames_[f].pin_count_ # 0
    BY DEF UnpinPage
  <2>2. f \in Frames /\ ptr[c][p] = f
    BY <2>1 DEF TypeOK, PinsAreHolders, Resident
  <2>3. frames_[f] \in Page
    BY <2>2 DEF TypeOK
  <2>4. pins \in Nat /\ frames_[f].pin_count_ = pins + 1
    BY <2>1, <2>3 DEF Page
  <2> QED BY <2>1, <2>2, <2>3, <2>4
<1>2. /\ frames_' = [frames_ EXCEPT ![f].is_dirty_ = dirty, ![f].pin_count_ = pins]
      /\ ptr' = [ptr EXCEPT ![c][p] = NoFrame]
      /\ wrote' = [wrote EXCEPT ![c] = @ \ {p}]
      /\ page_table_' = page_table_ /\ free_list_' = free_list_ /\ disk' = disk
      /\ faults' = faults /\ lost' = {}
  BY DEF UnpinPage, DirtyAfterUnpin, NoFault
<1>3. /\ replacer_' \in [lru_list_ : Seq(Frames), evictable_ : SUBSET Frames]
      /\ replacer_'.lru_list_ = replacer_.lru_list_
      /\ replacer_'.evictable_ =
           IF pins = 0 THEN replacer_.evictable_ \cup {f} ELSE replacer_.evictable_
  BY Zenon, <1>1 DEF UnpinPage, ReplacerAfterUnpin, SetEvictable, TypeOK
<1>4. f = page_table_[p] /\ dirty \in BOOLEAN /\ (frames_[f].is_dirty_ => dirty)
      /\ (is_dirty => dirty)
  BY <1>1 DEF Page
<1> HIDE DEF f, dirty, pins
<1>5. /\ frames_' \in [Frames -> Page]
      /\ \A g \in Frames : g # f => frames_'[g] = frames_[g]
      /\ frames_'[f].pin_count_ = pins /\ frames_'[f].is_dirty_ = dirty
      /\ frames_'[f].data_ = frames_[f].data_ /\ frames_'[f].page_id_ = frames_[f].page_id_
  <2> DEFINE h == [frames_[f] EXCEPT !.is_dirty_ = dirty, !.pin_count_ = pins]
  <2>1. /\ h \in Page /\ h.pin_count_ = pins /\ h.is_dirty_ = dirty
        /\ h.data_ = frames_[f].data_ /\ h.page_id_ = frames_[f].page_id_
    BY Zenon, <1>1, <1>4 DEF Page
  <2>2. frames_' = [frames_ EXCEPT ![f] = h]
    BY Zenon, <1>1, <1>2 DEF TypeOK, Page
  <2> HIDE DEF h
  <2> QED BY <1>1, <2>1, <2>2 DEF TypeOK
<1>6. /\ ptr' \in [Clients -> [PageIds -> Frames \cup {NoFrame}]]
      /\ \A e \in Clients, q \in PageIds :
           ptr'[e][q] = IF e = c /\ q = p THEN NoFrame ELSE ptr[e][q]
      /\ wrote' \in [Clients -> SUBSET PageIds]
      /\ \A e \in Clients, q \in PageIds :
           q \in wrote[e] => q \in wrote'[e] \/ (e = c /\ q = p)
  BY <1>2 DEF TypeOK
<1>7. TypeOK'
  BY <1>2, <1>3, <1>5, <1>6 DEF TypeOK
<1>8. \A g \in Frames : frames_'[g].page_id_ = frames_[g].page_id_
  BY <1>5
<1>9. TableMatchesFrames' /\ FramesHaveOneOwner'
  <2>1. Range(replacer_.lru_list_) \subseteq Frames
    BY RangeOfSeq DEF TypeOK
  <2>2. \A g \in Frames : PageIn(g)' = PageIn(g)
    BY <1>8 DEF PageIn
  <2>3. TableMatchesFrames'
    BY <2>2, <1>2 DEF TableMatchesFrames
  <2>4. IsInjective(free_list_') /\ IsInjective(replacer_'.lru_list_)
    BY <1>2, <1>3 DEF FramesHaveOneOwner
  <2> QED BY <2>1, <2>2, <2>3, <2>4, <1>2, <1>3 DEF FramesHaveOneOwner
<1>10. PinsAreHolders'
  <2>1. ASSUME NEW e \in Clients, NEW q \in PageIds, ptr'[e][q] # NoFrame
        PROVE  page_table_'[q] = ptr'[e][q]
    BY <2>1, <1>2, <1>6 DEF PinsAreHolders
  <2>2. ASSUME NEW q \in PageIds, Resident(q)'
        PROVE  frames_'[page_table_'[q]].pin_count_ = Cardinality(Holders(q, page_table_[q])')
    <3>1. CASE q = p
      <4>1. Holders(p, f)' = Holders(p, f) \ {c}
        BY <1>1, <1>6, <1>2, NoneIsNone DEF Holders, f
      <4>2. c \in Holders(p, f) /\ IsFiniteSet(Holders(p, f))
        BY <1>1, PoolAssumption, FS_Subset DEF Holders
      <4>3. Cardinality(Holders(p, f) \ {c}) = Cardinality(Holders(p, f)) - 1
        BY Zenon, <4>2, FS_RemoveElement
      <4>4. frames_[f].pin_count_ = Cardinality(Holders(p, f))
        BY <1>1, <1>4 DEF PinsAreHolders
      <4>5. page_table_'[q] = f /\ Holders(q, page_table_[q])' = Holders(p, f)'
        BY <1>2, <1>4, <3>1 DEF f
      <4> QED BY <4>1, <4>3, <4>4, <4>5, <1>1, <1>5
    <3>2. CASE q # p
      <4>1. page_table_[q] # f /\ page_table_[q] \in Frames /\ Resident(q)
        BY <2>2, <3>2, <1>1, <1>2, <1>4 DEF TableMatchesFrames, TypeOK, Resident
      <4>2. Holders(q, page_table_[q])' = Holders(q, page_table_[q])
        BY <3>2, <1>2, <1>6 DEF Holders
      <4> QED BY <4>1, <4>2, <1>2, <1>5 DEF PinsAreHolders
    <3> QED BY <3>1, <3>2
  <2> QED BY <2>1, <2>2 DEF PinsAreHolders
<1>11. f \in Range(replacer_.lru_list_)
  BY <1>1 DEF Bookkeeping
<1>12. ReplacerOffersUnpinned'
  <2>1. \A g \in replacer_'.evictable_ :
          g \in Range(replacer_'.lru_list_) /\ frames_'[g].pin_count_ = 0
    <3>1. f \notin replacer_.evictable_
      BY <1>1 DEF ReplacerOffersUnpinned
    <3> QED BY <3>1, <1>3, <1>5, <1>11 DEF ReplacerOffersUnpinned, TypeOK
  <2>2. \A g \in Frames : g \in Stranded' => g \in Stranded
    BY <1>3, <1>5, <1>8 DEF Stranded, PageIn
  <2>3. Stranded' \subseteq Frames
    BY DEF Stranded
  <2> QED BY Zenon, <2>1, <2>2, <2>3, <1>2 DEF ReplacerOffersUnpinned
<1>13. Bookkeeping'
  BY <1>1, <1>2, <1>3, <1>5, <1>11 DEF Bookkeeping, Resident
<1>14. NoLostWrite'
  <2> SUFFICES ASSUME faults = 0, NEW q \in PageIds, Resident(q),
                      frames_'[page_table_[q]].data_ # disk.file[q]
               PROVE  \/ frames_'[page_table_[q]].is_dirty_
                      \/ \E e \in Holders(q, page_table_[q])' : q \in wrote'[e]
    BY Zenon, <1>2 DEF NoLostWrite, Resident
  <2>1. page_table_[q] \in Frames
    BY DEF TypeOK, Resident
  <2>2. \/ frames_[page_table_[q]].is_dirty_
        \/ \E e \in Holders(q, page_table_[q]) : q \in wrote[e]
    BY <2>1, <1>5 DEF NoLostWrite
  <2>3. CASE frames_[page_table_[q]].is_dirty_
    BY <2>1, <2>3, <1>4, <1>5
  <2>4. ASSUME NEW e \in Holders(q, page_table_[q]), q \in wrote[e]
        PROVE  \/ frames_'[page_table_[q]].is_dirty_
               \/ \E x \in Holders(q, page_table_[q])' : q \in wrote'[x]
    <3>1. e \in Clients /\ ptr[e][q] = page_table_[q]
      BY <2>4 DEF Holders
    <3>2. CASE e = c /\ q = p
      BY <3>2, <2>4, <1>1, <1>4, <1>5
    <3>3. CASE ~(e = c /\ q = p)
      BY <3>1, <3>3, <2>4, <1>2, <1>6 DEF Holders
    <3> QED BY <3>2, <3>3
  <2> QED BY <2>2, <2>3, <2>4
<1> QED BY <1>7, <1>9, <1>10, <1>12, <1>13, <1>14

(* DeletePage: an unpinned frame goes back to the free list.               *)
LEMMA DeletePagePreserves ==
  ASSUME IInv, NEW p \in PageIds, DeletePage(p)
  PROVE  IInv'
<1> DEFINE f == page_table_[p]
<1> USE DEF IInv
<1>1. /\ f \in Frames /\ PageIn(f) = p /\ Resident(p) /\ frames_[f].pin_count_ = 0
  BY NoneIsNone DEF DeletePage, TypeOK, TableMatchesFrames, Resident
<1>2. /\ page_table_' = [page_table_ EXCEPT ![p] = NoFrame]
      /\ replacer_' = RemoveFrame(replacer_, f)
      /\ free_list_' = Append(free_list_, f)
      /\ frames_' = [frames_ EXCEPT ![f] = EmptyPage]
      /\ disk' = disk /\ ptr' = ptr /\ wrote' = wrote /\ faults' = faults
      /\ lost' = {}
  BY DEF DeletePage, clientVars, NoFault
<1>3. \A e \in Clients : ptr[e][p] = NoFrame
  BY <1>1, UnpinnedNotHeld
<1>4. \A q \in PageIds : page_table_[q] = f <=> q = p
  BY <1>1 DEF TableMatchesFrames
<1> HIDE DEF f
<1>5. /\ ReplacerOK(replacer_', Frames)
      /\ Range(replacer_'.lru_list_) = Range(replacer_.lru_list_) \ {f}
      /\ replacer_'.evictable_ = replacer_.evictable_ \ {f}
  <2>1. ReplacerOK(replacer_, Frames)
    BY DEF TypeOK, FramesHaveOneOwner, ReplacerOK
  <2> QED BY <1>1, <1>2, <2>1, RemoveFrameProperties
<1>6. /\ free_list_' \in Seq(Frames) /\ IsInjective(free_list_')
      /\ Range(free_list_') = Range(free_list_) \cup {f}
  <2>1. /\ f \notin Range(free_list_) /\ free_list_ \in Seq(Frames)
        /\ IsInjective(free_list_)
    BY <1>1, NoneIsNone DEF FramesHaveOneOwner, TypeOK
  <2> QED BY <1>1, <1>2, <2>1, AppendKeepsInjective
<1>7. /\ frames_' \in [Frames -> Page]
      /\ \A g \in Frames : g # f => frames_'[g] = frames_[g]
      /\ frames_'[f].page_id_ = INVALID_PAGE_ID /\ frames_'[f].pin_count_ = 0
  <2>1. EmptyPage \in Page /\ EmptyPage.page_id_ = INVALID_PAGE_ID /\ EmptyPage.pin_count_ = 0
    BY DiskAssumption DEF EmptyPage, Page
  <2> QED BY <1>1, <1>2, <2>1 DEF TypeOK
<1>8. /\ page_table_' \in [PageIds -> Frames \cup {NoFrame}]
      /\ \A q \in PageIds : page_table_'[q] = IF q = p THEN NoFrame ELSE page_table_[q]
  BY <1>2 DEF TypeOK
<1>9. TypeOK'
  BY <1>2, <1>5, <1>6, <1>7, <1>8 DEF TypeOK, ReplacerOK
<1>10. TableMatchesFrames'
  <2> SUFFICES ASSUME NEW q \in PageIds, NEW g \in Frames
               PROVE  page_table_'[q] = g <=> frames_'[g].page_id_ = q
    BY DEF TableMatchesFrames, PageIn
  <2>1. CASE g = f
    BY <2>1, <1>4, <1>7, <1>8, NoneIsNone
  <2>2. CASE g # f
    <3>1. page_table_[q] = g <=> frames_'[g].page_id_ = q
      BY <2>2, <1>7 DEF TableMatchesFrames, PageIn
    <3>2. page_table_'[q] = g <=> page_table_[q] = g
      BY <2>2, <1>4, <1>8, NoneIsNone
    <3> QED BY <3>1, <3>2
  <2> QED BY <2>1, <2>2
<1>11. FramesHaveOneOwner'
  <2>1. Range(replacer_.lru_list_) \subseteq Frames
    BY RangeOfSeq DEF TypeOK
  <2>2. \A g \in Frames : g \in Range(free_list_') <=> frames_'[g].page_id_ = INVALID_PAGE_ID
    BY <1>6, <1>7 DEF FramesHaveOneOwner, PageIn
  <2>3. \A g \in Range(replacer_'.lru_list_) : frames_'[g].page_id_ # INVALID_PAGE_ID
    BY <2>1, <1>5, <1>7 DEF FramesHaveOneOwner, PageIn
  <2> QED BY Zenon, <2>2, <2>3, <1>5, <1>6 DEF FramesHaveOneOwner, PageIn, ReplacerOK
<1>12. PinsAreHolders'
  <2>1. ASSUME NEW e \in Clients, NEW q \in PageIds, ptr'[e][q] # NoFrame
        PROVE  page_table_'[q] = ptr'[e][q]
    BY <2>1, <1>2, <1>3, <1>8 DEF PinsAreHolders
  <2>2. ASSUME NEW q \in PageIds, Resident(q)'
        PROVE  frames_'[page_table_'[q]].pin_count_ = Cardinality(Holders(q, page_table_[q])')
    <3>1. q # p /\ Resident(q) /\ page_table_'[q] = page_table_[q]
      BY <2>2, <1>8 DEF Resident
    <3>2. page_table_[q] \in Frames /\ page_table_[q] # f
      BY <3>1, <1>4 DEF TypeOK, Resident
    <3>3. Holders(q, page_table_[q])' = Holders(q, page_table_[q])
      BY <3>1, <1>2 DEF Holders
    <3> QED BY <3>1, <3>2, <3>3, <1>7 DEF PinsAreHolders
  <2> QED BY <2>1, <2>2 DEF PinsAreHolders
<1>13. ReplacerOffersUnpinned'
  <2>1. \A g \in replacer_'.evictable_ :
          g \in Range(replacer_'.lru_list_) /\ frames_'[g].pin_count_ = 0
    BY <1>5, <1>7 DEF ReplacerOffersUnpinned, TypeOK
  <2>2. \A g \in Frames : g \in Stranded' => g \in Stranded
    BY <1>5, <1>7 DEF Stranded, PageIn
  <2>3. Stranded' \subseteq Frames
    BY DEF Stranded
  <2> QED BY <2>1, <2>2, <2>3, <1>2 DEF ReplacerOffersUnpinned
<1>14. Bookkeeping'
  BY <1>2, <1>5, <1>7, <1>8 DEF Bookkeeping, Resident
<1>15. NoLostWrite'
  <2> SUFFICES ASSUME faults = 0, NEW q \in PageIds, Resident(q)',
                      frames_'[page_table_'[q]].data_ # disk.file[q]
               PROVE  \/ frames_'[page_table_'[q]].is_dirty_
                      \/ \E e \in Holders(q, page_table_[q])' : q \in wrote[e]
    BY <1>2 DEF NoLostWrite
  <2>1. q # p /\ Resident(q) /\ page_table_'[q] = page_table_[q]
    BY <1>8 DEF Resident
  <2>2. page_table_[q] \in Frames /\ page_table_[q] # f
    BY <2>1, <1>4 DEF TypeOK, Resident
  <2>3. Holders(q, page_table_[q])' = Holders(q, page_table_[q])
    BY <2>1, <1>2 DEF Holders
  <2> QED BY <2>1, <2>2, <2>3, <1>7 DEF NoLostWrite
<1> QED BY <1>9, <1>10, <1>11, <1>12, <1>13, <1>14, <1>15
-----------------------------------------------------------------------------
(* The flushes and the constructors keep the invariant too. *)

(* What FlushPage and FlushAllPages do: some pages reach the file, and the *)
(* dirty flag is dropped only from a frame whose contents are in the file, *)
(* or have been lost.                                                      *)
Flushed ==
  /\ frames_' \in [Frames -> Page]
  /\ \A g \in Frames : /\ frames_'[g].page_id_ = frames_[g].page_id_
                       /\ frames_'[g].pin_count_ = frames_[g].pin_count_
                       /\ frames_'[g].data_ = frames_[g].data_
  /\ disk' \in DiskType /\ disk'.num_pages_ = disk.num_pages_
  /\ \A q \in PageIds :
       \/ disk'.file[q] = disk.file[q]
       \/ Resident(q) /\ disk'.file[q] = frames_[page_table_[q]].data_
  /\ \A q \in PageIds : Resident(q) =>
       \/ disk'.file[q] = frames_[page_table_[q]].data_
       \/ frames_'[page_table_[q]].is_dirty_ = frames_[page_table_[q]].is_dirty_
       \/ faults' # 0 /\ lost' = {q}
  /\ faults' \in 0..MaxFaults
  /\ faults' = 0 => faults = 0 /\ disk'.db_io_ = "good" /\ disk'.size = disk.size
  /\ faults = 0 \/ faults' # 0
  /\ lost' \in SUBSET PageIds
  /\ page_table_' = page_table_ /\ free_list_' = free_list_ /\ replacer_' = replacer_
  /\ ptr' = ptr /\ wrote' = wrote

LEMMA FlushedPreserves ==
  ASSUME IInv, Flushed
  PROVE  IInv'
<1> USE DEF IInv, Flushed
<1>1. TypeOK'
  BY DEF TypeOK, DiskType
<1>2. TableMatchesFrames'
  BY DEF TableMatchesFrames, PageIn
<1>3. FramesHaveOneOwner'
  <2>1. Range(replacer_.lru_list_) \subseteq Frames
    BY RangeOfSeq DEF TypeOK
  <2> QED BY <2>1 DEF FramesHaveOneOwner, PageIn
<1>4. PinsAreHolders'
  BY DEF PinsAreHolders, Holders, Resident, TypeOK
<1>5. ReplacerOffersUnpinned'
  BY Zenon DEF ReplacerOffersUnpinned, Stranded, PageIn, TypeOK
<1>6. Bookkeeping'
  BY DEF Bookkeeping, Resident
<1>7. NoLostWrite'
  <2> SUFFICES ASSUME faults' = 0, NEW q \in PageIds, Resident(q),
                      frames_'[page_table_[q]].data_ # disk'.file[q]
               PROVE  \/ frames_'[page_table_[q]].is_dirty_
                      \/ \E e \in Holders(q, page_table_[q])' : q \in wrote[e]
    BY DEF NoLostWrite, Resident
  <2>1. page_table_[q] \in Frames
    BY DEF TypeOK, Resident
  <2>2. Holders(q, page_table_[q])' = Holders(q, page_table_[q])
    BY DEF Holders
  <2> QED BY <2>1, <2>2 DEF NoLostWrite
<1> QED BY <1>1, <1>2, <1>3, <1>4, <1>5, <1>6, <1>7

(* FlushPage writes one page, or fails to.                                 *)
LEMMA FlushPageFlushes ==
  ASSUME IInv, NEW p \in PageIds, FlushPage(p)
  PROVE  Flushed
<1> DEFINE f == page_table_[p]
           v == frames_[f].data_
<1> USE DEF IInv
<1>1. /\ f \in Frames /\ Resident(p) /\ v \in Value /\ disk \in DiskType
      /\ frames_ \in [Frames -> Page]
  BY DEF FlushPage, TypeOK, Resident, Page, DiskType
<1>2. PICK dev \in Device :
        /\ Fault(dev) /\ disk' = WritePage(disk, p, v, dev)
        /\ frames_' = IF WriteThrows(disk, dev) THEN frames_
                      ELSE [frames_ EXCEPT ![f].is_dirty_ = FALSE]
        /\ lost' = Losing(p, dev)
  BY DEF FlushPage
<1>3. /\ page_table_' = page_table_ /\ free_list_' = free_list_ /\ replacer_' = replacer_
      /\ ptr' = ptr /\ wrote' = wrote
  BY DEF FlushPage, clientVars
<1>4. /\ faults' \in 0..MaxFaults /\ (faults = 0 \/ faults' # 0)
      /\ faults' = 0 => faults = 0 /\ dev = "accepts" /\ disk.db_io_ = "good"
  BY <1>2, FaultProperties DEF Bookkeeping
<1>5. f = page_table_[p] /\ v = frames_[f].data_ /\ lost' \in SUBSET PageIds
  BY <1>2 DEF Losing
<1> HIDE DEF f, v
<1>6. /\ frames_' \in [Frames -> Page]
      /\ \A g \in Frames : /\ frames_'[g].page_id_ = frames_[g].page_id_
                           /\ frames_'[g].pin_count_ = frames_[g].pin_count_
                           /\ frames_'[g].data_ = frames_[g].data_
                           /\ g # f => frames_'[g] = frames_[g]
  <2>1. CASE frames_' = frames_
    BY <2>1, <1>1
  <2>2. CASE frames_' = [frames_ EXCEPT ![f].is_dirty_ = FALSE]
    BY Zenon, <1>1, <2>2 DEF Page
  <2> QED BY <2>1, <2>2, <1>2
<1>7. ASSUME NEW q \in PageIds, Resident(q), q # p
      PROVE  frames_'[page_table_[q]].is_dirty_ = frames_[page_table_[q]].is_dirty_
  <2>1. page_table_[q] \in Frames /\ page_table_[q] # f
    BY <1>7, <1>1, <1>5 DEF TypeOK, Resident, TableMatchesFrames
  <2> QED BY <2>1, <1>6
<1>8. CASE disk.db_io_ = "good" /\ dev = "accepts"
  <2>1. /\ disk' \in DiskType /\ disk'.num_pages_ = disk.num_pages_
        /\ disk'.file = [disk.file EXCEPT ![p] = v] /\ disk'.db_io_ = "good"
        /\ disk'.size = IF p < disk.size THEN disk.size ELSE p + 1
    BY <1>1, <1>2, <1>8, TakenWrite
  <2>2. faults' = 0 => disk'.size = disk.size
    BY <2>1, <1>1, <1>4, DiskAssumption DEF Bookkeeping, PageIds, DiskType
  <2>3. \A q \in PageIds : disk'.file[q] = IF q = p THEN v ELSE disk.file[q]
    BY <2>1, <1>1 DEF DiskType
  <2> QED BY Zenon, <2>1, <2>2, <2>3, <1>1, <1>3, <1>4, <1>5, <1>6, <1>7 DEF Flushed
<1>9. CASE disk.db_io_ # "good" \/ dev # "accepts"
  <2>1. disk' \in DiskType /\ disk'.num_pages_ = disk.num_pages_ /\ disk'.file = disk.file
    BY <1>1, <1>2, <1>9, UntakenWrite
  <2>2. faults' # 0
    BY <1>4, <1>9
  <2>3. frames_' = frames_ \/ lost' = {p}
    <3>1. WriteThrows(disk, dev) \/ dev = "loses"
      BY <1>1, <1>9, ThrowsProperties DEF Device
    <3> QED BY <3>1, <1>2 DEF Losing
  <2> QED BY Zenon, <2>1, <2>2, <2>3, <1>3, <1>4, <1>5, <1>6, <1>7 DEF Flushed
<1> QED BY <1>8, <1>9

(* Writing out pages that are resident does not make the file longer, as   *)
(* long as the file holds all the pages that have been allocated.          *)
LEMMA WrittenOutProperties ==
  ASSUME IInv, NEW S \in SUBSET PageIds, \A p \in S : Resident(p)
  PROVE  /\ WrittenOut(S) \in DiskType
         /\ WrittenOut(S).num_pages_ = disk.num_pages_
         /\ WrittenOut(S).db_io_ = disk.db_io_
         /\ \A q \in PageIds : WrittenOut(S).file[q] =
              IF q \in S THEN frames_[page_table_[q]].data_ ELSE disk.file[q]
         /\ faults = 0 => WrittenOut(S).size = disk.size
<1> DEFINE w == WrittenOut(S)
           sizes == {disk.size} \cup {p + 1 : p \in S}
           file == [p \in PageIds |->
                      IF p \in S THEN frames_[page_table_[p]].data_ ELSE disk.file[p]]
<1> USE DEF IInv
<1>1. disk \in DiskType /\ disk.size \in 0..MaxPages /\ disk.file \in [PageIds -> Value]
  BY DEF TypeOK, DiskType
<1>2. w = [disk EXCEPT !.file = file, !.size = Max(sizes)]
  BY <1>1 DEF WrittenOut, DiskType
<1>3. sizes \in SUBSET (0..MaxPages) /\ disk.size \in sizes /\ sizes # {}
  BY <1>1, DiskAssumption DEF PageIds
<1>4. Max(sizes) \in sizes /\ \A k \in sizes : k <= Max(sizes)
  BY Zenon, <1>3, DiskAssumption, MaxExists
<1>5. ASSUME faults = 0 PROVE Max(sizes) = disk.size
  <2>1. \A k \in sizes : k <= disk.size
    BY <1>1, <1>5, DiskAssumption DEF Bookkeeping, PageIds, TypeOK
  <2>2. \A k \in sizes : k \in Int
    BY <1>3
  <2>3. disk.size \in Int /\ disk.size <= Max(sizes)
    BY <1>1, <1>3, <1>4
  <2>4. Max(sizes) \in Int /\ Max(sizes) <= disk.size
    BY <2>1, <2>2, <1>4
  <2> QED BY <2>3, <2>4
<1>6. file \in [PageIds -> Value]
  <2>1. ASSUME NEW p \in S PROVE frames_[page_table_[p]].data_ \in Value
    BY <2>1 DEF TypeOK, Resident, Page
  <2> QED BY <2>1, <1>1
<1>7. Max(sizes) \in 0..MaxPages
  BY <1>3, <1>4
<1> HIDE DEF sizes
<1>8. /\ w \in DiskType /\ w.num_pages_ = disk.num_pages_ /\ w.db_io_ = disk.db_io_
      /\ w.file = file /\ w.size = Max(sizes)
  <2> HIDE DEF file, w
  <2> QED BY Zenon, <1>1, <1>2, <1>6, <1>7 DEF DiskType
<1> QED BY <1>5, <1>8

(* FlushAllPages writes the dirty pages, or those before the first failure. *)
LEMMA FlushAllPagesFlushes ==
  ASSUME IInv, NEW S \in SUBSET PageIds, FlushAllPages(S)
  PROVE  Flushed
<1> DEFINE W == WrittenOut(S)
<1> USE DEF IInv
<1>1. /\ \A p \in DirtyPages : p \in PageIds /\ Resident(p)
      /\ S \subseteq DirtyPages
      /\ page_table_' = page_table_ /\ free_list_' = free_list_ /\ replacer_' = replacer_
      /\ ptr' = ptr /\ wrote' = wrote
  BY DEF FlushAllPages, clientVars, DirtyPages
<1>2. /\ W \in DiskType /\ W.num_pages_ = disk.num_pages_ /\ W.db_io_ = disk.db_io_
      /\ \A q \in PageIds : W.file[q] =
           IF q \in S THEN frames_[page_table_[q]].data_ ELSE disk.file[q]
      /\ faults = 0 => W.size = disk.size
  BY <1>1, WrittenOutProperties
<1>3. ASSUME NEW C, frames_' = Cleaned(C)
      PROVE  /\ frames_' \in [Frames -> Page]
             /\ \A g \in Frames : /\ frames_'[g].page_id_ = frames_[g].page_id_
                                  /\ frames_'[g].pin_count_ = frames_[g].pin_count_
                                  /\ frames_'[g].data_ = frames_[g].data_
                                  /\ PageIn(g) \notin C => frames_'[g] = frames_[g]
  <2>1. ASSUME NEW g \in Frames
        PROVE  LET h == [frames_[g] EXCEPT !.is_dirty_ = FALSE] IN
               /\ h \in Page /\ h.page_id_ = frames_[g].page_id_
               /\ h.pin_count_ = frames_[g].pin_count_ /\ h.data_ = frames_[g].data_
    <3>1. frames_[g] \in Page
      BY <2>1 DEF TypeOK
    <3> QED BY <3>1, CleanPage
  <2>2. \A g \in Frames : frames_[g] \in Page
    BY DEF TypeOK
  <2>3. frames_' = [g \in Frames |-> IF PageIn(g) \in C
                      THEN [frames_[g] EXCEPT !.is_dirty_ = FALSE] ELSE frames_[g]]
    BY <1>3 DEF Cleaned
  <2> QED BY <2>1, <2>2, <2>3
<1>4. \A q \in PageIds : Resident(q) =>
        /\ page_table_[q] \in Frames /\ PageIn(page_table_[q]) = q
  BY DEF TypeOK, Resident, TableMatchesFrames
<1>5. \A q \in PageIds : q \in S => Resident(q)
  BY <1>1
<1> HIDE DEF W
<1>6. CASE disk' = W /\ frames_' = Cleaned(S) /\ NoFault
  <2>1. /\ frames_' \in [Frames -> Page]
        /\ \A g \in Frames : /\ frames_'[g].page_id_ = frames_[g].page_id_
                             /\ frames_'[g].pin_count_ = frames_[g].pin_count_
                             /\ frames_'[g].data_ = frames_[g].data_
                             /\ PageIn(g) \notin S => frames_'[g] = frames_[g]
    BY <1>3, <1>6
  <2>2. \A q \in PageIds : Resident(q) =>
          \/ disk'.file[q] = frames_[page_table_[q]].data_
          \/ frames_'[page_table_[q]].is_dirty_ = frames_[page_table_[q]].is_dirty_
    BY <2>1, <1>2, <1>4, <1>6
  <2>3. \A q \in PageIds :
          \/ disk'.file[q] = disk.file[q]
          \/ Resident(q) /\ disk'.file[q] = frames_[page_table_[q]].data_
    BY <1>2, <1>5, <1>6
  <2>4. /\ disk' \in DiskType /\ disk'.num_pages_ = disk.num_pages_
        /\ faults' = faults /\ faults \in 0..MaxFaults /\ lost' = {}
        /\ faults = 0 => disk'.db_io_ = "good" /\ disk'.size = disk.size
    BY <1>2, <1>6 DEF NoFault, TypeOK, Bookkeeping
  <2> QED BY Zenon, <2>1, <2>2, <2>3, <2>4, <1>1 DEF Flushed
<1>7. ASSUME NEW p \in DirtyPages \ S, NEW dev \in Device,
             dev # "accepts" \/ disk.db_io_ # "good", Fault(dev),
             disk' = WritePage(W, p, frames_[page_table_[p]].data_, dev),
             frames_' = Cleaned(CleanAfterFailure(S, p, dev)), lost' = Losing(p, dev)
      PROVE  Flushed
  <2> DEFINE v == frames_[page_table_[p]].data_
             C == CleanAfterFailure(S, p, dev)
  <2>1. p \in PageIds /\ v \in Value
    BY <1>7, <1>1, <1>4 DEF TypeOK, Page
  <2>2. disk' \in DiskType /\ disk'.num_pages_ = disk.num_pages_ /\ disk'.file = W.file
    <3>1. disk' = WritePage(W, p, v, dev) /\ (W.db_io_ # "good" \/ dev # "accepts")
      BY <1>7, <1>2
    <3> HIDE DEF v
    <3> QED BY <2>1, <3>1, <1>2, UntakenWrite
  <2>3. faults' \in 0..MaxFaults /\ faults' # 0
    BY <1>7, FaultProperties DEF Bookkeeping
  <2>4. C = S \/ (C = S \cup {p} /\ lost' = {p})
    <3>1. disk \in DiskType
      BY DEF TypeOK, DiskType
    <3>2. WriteThrows(disk, dev) \/ dev = "loses"
      BY <3>1, <1>7, ThrowsProperties DEF Device
    <3> QED BY <3>2, <1>7 DEF CleanAfterFailure, Losing
  <2>5. lost' \in SUBSET PageIds
    BY <2>1, <1>7 DEF Losing
  <2> HIDE DEF v, C
  <2>6. /\ frames_' \in [Frames -> Page]
        /\ \A g \in Frames : /\ frames_'[g].page_id_ = frames_[g].page_id_
                             /\ frames_'[g].pin_count_ = frames_[g].pin_count_
                             /\ frames_'[g].data_ = frames_[g].data_
                             /\ PageIn(g) \notin C => frames_'[g] = frames_[g]
    BY <1>3, <1>7 DEF C
  <2>7. \A q \in PageIds : Resident(q) =>
          \/ disk'.file[q] = frames_[page_table_[q]].data_
          \/ frames_'[page_table_[q]].is_dirty_ = frames_[page_table_[q]].is_dirty_
          \/ lost' = {q}
    BY Zenon, <2>2, <2>4, <2>6, <1>2, <1>4
  <2>8. \A q \in PageIds :
          \/ disk'.file[q] = disk.file[q]
          \/ Resident(q) /\ disk'.file[q] = frames_[page_table_[q]].data_
    BY <2>2, <1>2, <1>5
  <2> QED BY Zenon, <2>2, <2>3, <2>5, <2>6, <2>7, <2>8, <1>1 DEF Flushed
<1> QED BY <1>6, <1>7 DEF FlushAllPages, W

-----------------------------------------------------------------------------
(* The constructors. *)

LEMMA FreshPool ==
  /\ EmptyFrames \in [Frames -> Page]
  /\ \A f \in Frames : /\ EmptyFrames[f].page_id_ = INVALID_PAGE_ID
                       /\ EmptyFrames[f].pin_count_ = 0
  /\ EmptyTable \in [PageIds -> Frames \cup {NoFrame}]
  /\ \A p \in PageIds : EmptyTable[p] = NoFrame
  /\ FullFreeList \in Seq(Frames) /\ IsInjective(FullFreeList)
  /\ Range(FullFreeList) = Frames
  /\ EmptyReplacer \in [lru_list_ : Seq(Frames), evictable_ : SUBSET Frames]
  /\ EmptyReplacer.lru_list_ = << >> /\ EmptyReplacer.evictable_ = {}
  /\ Range(<< >>) = {} /\ IsInjective(<< >>)
  /\ NoPtr \in [Clients -> [PageIds -> Frames \cup {NoFrame}]]
  /\ \A c \in Clients, p \in PageIds : NoPtr[c][p] = NoFrame
  /\ NoWrites \in [Clients -> SUBSET PageIds]
<1>1. /\ EmptyFrames \in [Frames -> Page]
      /\ \A f \in Frames : /\ EmptyFrames[f].page_id_ = INVALID_PAGE_ID
                           /\ EmptyFrames[f].pin_count_ = 0
  BY DiskAssumption DEF EmptyFrames, EmptyPage, Page
<1>2. /\ EmptyTable \in [PageIds -> Frames \cup {NoFrame}]
      /\ \A p \in PageIds : EmptyTable[p] = NoFrame
  BY DEF EmptyTable
<1>3. /\ FullFreeList \in Seq(Frames) /\ IsInjective(FullFreeList)
      /\ Range(FullFreeList) = Frames
  <2>1. FullFreeList \in Seq(Frames) /\ DOMAIN FullFreeList = 1..pool_size_
        /\ \A i \in 1..pool_size_ : FullFreeList[i] = i - 1
    BY PoolAssumption DEF FullFreeList, Frames
  <2>2. IsInjective(FullFreeList)
    BY <2>1, PoolAssumption DEF IsInjective
  <2>3. Range(FullFreeList) \subseteq Frames
    BY <2>1, PoolAssumption DEF Range, Frames
  <2>4. ASSUME NEW f \in Frames PROVE f \in Range(FullFreeList)
    <3>1. f + 1 \in 1..pool_size_ /\ FullFreeList[f + 1] = f
      BY <2>1, PoolAssumption DEF Frames
    <3> QED BY <3>1, <2>1 DEF Range
  <2> QED BY Zenon, <2>1, <2>2, <2>3, <2>4
<1>4. /\ EmptyReplacer \in [lru_list_ : Seq(Frames), evictable_ : SUBSET Frames]
      /\ EmptyReplacer.lru_list_ = << >> /\ EmptyReplacer.evictable_ = {}
      /\ Range(<< >>) = {} /\ IsInjective(<< >>)
  BY DEF EmptyReplacer, Range, IsInjective
<1>5. /\ NoPtr \in [Clients -> [PageIds -> Frames \cup {NoFrame}]]
      /\ \A c \in Clients, p \in PageIds : NoPtr[c][p] = NoFrame
      /\ NoWrites \in [Clients -> SUBSET PageIds]
  BY <1>2 DEF NoPtr, NoWrites
<1> QED BY <1>1, <1>2, <1>3, <1>4, <1>5

(* A pool just built over a file whose pages have all been found. *)
Fresh ==
  /\ frames_ = EmptyFrames /\ page_table_ = EmptyTable
  /\ free_list_ = FullFreeList /\ replacer_ = EmptyReplacer
  /\ disk \in DiskType /\ disk.num_pages_ = disk.size /\ disk.db_io_ = "good"
  /\ ptr = NoPtr /\ wrote = NoWrites /\ faults \in 0..MaxFaults /\ lost = {}

LEMMA FreshSatisfiesInvariant == Fresh => IInv
<1> SUFFICES ASSUME Fresh PROVE IInv
  OBVIOUS
<1> USE FreshPool DEF Fresh
<1>1. TypeOK
  BY DEF TypeOK, DiskType
<1>2. TableMatchesFrames
  BY NoneIsNone DEF TableMatchesFrames, PageIn
<1>3. FramesHaveOneOwner
  BY DEF FramesHaveOneOwner, PageIn
<1>4. PinsAreHolders /\ NoLostWrite
  BY DEF PinsAreHolders, NoLostWrite, Resident
<1>5. ReplacerOffersUnpinned
  BY DEF ReplacerOffersUnpinned, Stranded, PageIn
<1>6. Bookkeeping
  BY DEF Bookkeeping, Resident
<1> QED BY <1>1, <1>2, <1>3, <1>4, <1>5, <1>6 DEF IInv

LEMMA ReopenPreserves ==
  ASSUME IInv, NEW d, d \in DiskType, Reopen(d)
  PROVE  IInv'
<1>1. disk' = [d EXCEPT !.num_pages_ = d.size, !.db_io_ = "good"]
  BY Zenon, OpenFindsPages DEF Reopen
<1>2. disk' \in DiskType /\ disk'.num_pages_ = disk'.size /\ disk'.db_io_ = "good"
  BY Zenon, <1>1 DEF DiskType
<1>3. Fresh'
  BY <1>2 DEF Fresh, Reopen, NoFault, IInv, TypeOK
<1> QED BY <1>3, FreshSatisfiesInvariant, PTL

-----------------------------------------------------------------------------
(* Whatever the pool, its clients and its device do, IInv holds: it is the *)
(* inductive invariant of the buffer pool.                                 *)
THEOREM PoolInvariant == Spec => []IInv
<1>1. Init => IInv
  <2>1. Init => Fresh
    BY DiskAssumption, PoolAssumption DEF Init, Fresh, NewDisk, DiskType
  <2> QED BY <2>1, FreshSatisfiesInvariant
<1>2. IInv /\ [Next]_vars => IInv'
  <2> SUFFICES ASSUME IInv, [Next]_vars PROVE IInv'
    OBVIOUS
  <2>1. CASE UNCHANGED vars
    <3>1. TypeOK'
      BY <2>1 DEF IInv, vars, TypeOK
    <3>2. TableMatchesFrames' /\ FramesHaveOneOwner'
      BY <2>1 DEF IInv, vars, TableMatchesFrames, FramesHaveOneOwner, PageIn, Resident
    <3>3. PinsAreHolders'
      BY <2>1 DEF IInv, vars, PinsAreHolders, Holders, PageIn, Resident
    <3>4. ReplacerOffersUnpinned' /\ Bookkeeping'
      BY <2>1 DEF IInv, vars, ReplacerOffersUnpinned, Stranded, Bookkeeping, Resident, PageIn
    <3>5. NoLostWrite'
      BY <2>1 DEF IInv, vars, NoLostWrite, Holders, Resident
    <3> QED BY <3>1, <3>2, <3>3, <3>4, <3>5 DEF IInv
  <2>2. ASSUME NEW c \in Clients, NEW f \in Frames, NewPage(c, f) PROVE IInv'
    BY <2>2, NewPagePreserves
  <2>3. ASSUME NEW c \in Clients, NEW p \in PageIds, FetchHit(c, p) PROVE IInv'
    BY <2>3, FetchHitPreserves
  <2>4. ASSUME NEW c \in Clients, NEW p \in PageIds, NEW f \in Frames, FetchMiss(c, p, f)
        PROVE  IInv'
    BY <2>4, FetchMissPreserves
  <2>5. ASSUME NEW f \in Frames, GetFreeFrameThrows(f) PROVE IInv'
    BY <2>5, GetFreeFrameThrowsPreserves
  <2>6. ASSUME NEW c \in Clients, NEW p \in PageIds, NEW v \in Value, WriteData(c, p, v)
        PROVE  IInv'
    BY <2>6, WriteDataPreserves
  <2>7. ASSUME NEW c \in Clients, NEW p \in PageIds, NEW d \in BOOLEAN, UnpinPage(c, p, d)
        PROVE  IInv'
    BY <2>7, UnpinPagePreserves
  <2>8. ASSUME NEW p \in PageIds, FlushPage(p) PROVE IInv'
    BY <2>8, FlushPageFlushes, FlushedPreserves
  <2>9. ASSUME NEW S \in SUBSET PageIds, FlushAllPages(S) PROVE IInv'
    BY <2>9, FlushAllPagesFlushes, FlushedPreserves
  <2>10. ASSUME NEW p \in PageIds, DeletePage(p) PROVE IInv'
    BY <2>10, DeletePagePreserves
  <2>11. CASE Restart
    <3>1. DirtyPages \in SUBSET PageIds /\ \A p \in DirtyPages : Resident(p)
      BY DEF DirtyPages
    <3>2. WrittenOut(DirtyPages) \in DiskType
      BY <3>1, WrittenOutProperties
    <3> QED BY <2>11, <3>2, ReopenPreserves DEF Restart
  <2>12. CASE Crash
    <3>1. disk \in DiskType
      BY DEF IInv, TypeOK, DiskType
    <3> QED BY <2>12, <3>1, ReopenPreserves DEF Crash
  <2> QED BY <2>1, <2>2, <2>3, <2>4, <2>5, <2>6, <2>7, <2>8, <2>9, <2>10, <2>11, <2>12
          DEF Next, KeepNext, Calls
<1> QED BY <1>1, <1>2, PTL DEF Spec

(* Every variable of the pool keeps its type. *)
THEOREM PoolTypeCorrect == Spec => []TypeOK
BY PoolInvariant, PTL DEF IInv

(* No page is ever in two frames: page_table_ and the page ids of the      *)
(* frames stay inverse to each other.                                      *)
THEOREM PoolTableMatchesFrames == Spec => []TableMatchesFrames
BY PoolInvariant, PTL DEF IInv

(* No frame is handed out twice, whatever GetFreeFrame, the exception in   *)
(* it, and DeletePage do: free_list_ is exactly the frames without a page. *)
THEOREM PoolFramesHaveOneOwner == Spec => []FramesHaveOneOwner
BY PoolInvariant, PTL DEF IInv

(* A page in use is never evicted, and the pin count is the number of      *)
(* clients that hold the page.                                             *)
THEOREM PoolPinsAreHolders == Spec => []PinsAreHolders
BY PoolInvariant, PTL DEF IInv

(* Evict never returns a pinned frame, and until a write fails every       *)
(* unpinned page can be evicted.                                           *)
THEOREM PoolReplacerOffersUnpinned == Spec => []ReplacerOffersUnpinned
BY PoolInvariant, PTL DEF IInv

(* A pinned frame stays listed by the replacer, only allocated pages are   *)
(* in frames, and num_pages_ is the length of the file until a write of    *)
(* the page file fails.                                                    *)
THEOREM PoolBookkeeping == Spec => []Bookkeeping
BY PoolInvariant, PTL DEF IInv

(* Until a write fails, a page that differs from the file is written back  *)
(* before its frame is reused: it is marked dirty, or its writer still has *)
(* it pinned.                                                              *)
THEOREM PoolNoLostWrite == Spec => []NoLostWrite
BY PoolInvariant, PTL DEF IInv
-----------------------------------------------------------------------------
(* A dirty page stays dirty until it is written, whatever the device does. *)

(* A dirty page whose frame keeps page, contents and mark is kept.         *)
LEMMA FrameKept ==
  ASSUME IInv, NEW p \in DirtyPages, page_table_'[p] = page_table_[p],
         frames_'[page_table_[p]].is_dirty_,
         frames_'[page_table_[p]].data_ = frames_[page_table_[p]].data_
  PROVE  KeptOrWritten(p)
<1>1. p \in PageIds /\ page_table_[p] # NoFrame
  BY DEF DirtyPages, Resident
<1>2. p \in DirtyPages' /\ CurrentData'[p] = CurrentData[p]
  BY Zenon, <1>1 DEF DirtyPages, Resident, CurrentData
<1> QED BY <1>2 DEF KeptOrWritten

(* A dirty victim is in the file before its frame is reused, unless it has *)
(* been lost.                                                              *)
LEMMA VictimWritten ==
  ASSUME IInv, NEW f \in Frames, NEW dev \in Device, GetFreeFrame(f, dev),
         NEW p \in DirtyPages, page_table_[p] = f
  PROVE  WriteBack(f, dev).file[p] = CurrentData[p] \/ lost' = {p}
<1>1. /\ p \in PageIds /\ Resident(p) /\ frames_[f].is_dirty_
      /\ FreeFrame(f) /\ (IF WritesBack(f) THEN ~WriteThrows(disk, dev) ELSE dev = "accepts")
  BY DEF DirtyPages, GetFreeFrame
<1>2. CurrentData[p] = frames_[f].data_
  BY <1>1 DEF CurrentData
<1>3. CASE dev = "accepts"
  <2>1. WriteBack(f, dev).file[p] = frames_[f].data_
    BY Zenon, <1>1, <1>3, WriteBackProperties
  <2> QED BY <1>2, <2>1
<1>4. CASE dev # "accepts"
  <2>1. disk \in DiskType
    BY DEF IInv, TypeOK, DiskType
  <2>2. dev = "loses"
    BY <1>1, <1>4, <2>1, ThrowsProperties DEF Device
  <2>3. PageIn(f) = p
    BY <1>1 DEF IInv, TableMatchesFrames
  <2> QED BY <2>2, <2>3 DEF GetFreeFrame, Losing
<1> QED BY <1>3, <1>4

LEMMA FetchMissKeepsDirty ==
  ASSUME IInv, NEW c \in Clients, NEW q \in PageIds, NEW f \in Frames, FetchMiss(c, q, f),
         NEW p \in DirtyPages
  PROVE  KeptOrWritten(p)
<1>1. PICK dev \in Device :
        /\ GetFreeFrame(f, dev)
        /\ disk' = ReadPage(WriteBack(f, dev))
        /\ Install(c, f, q, ReadData(WriteBack(f, dev), q))
  BY DEF FetchMiss
<1> DEFINE d == WriteBack(f, dev)
           v == ReadData(d, q)
<1>2. /\ ~Resident(q) /\ FreeFrame(f)
      /\ IF WritesBack(f) THEN ~WriteThrows(disk, dev) ELSE dev = "accepts"
  BY <1>1 DEF FetchMiss, GetFreeFrame
<1>3. d \in DiskType
  BY Zenon, <1>2, WriteBackProperties
<1>4. v \in Value /\ disk'.file = d.file
  BY <1>1, <1>3, DiskAssumption DEF ReadData, ReadPage, DiskType
<1>5. Install(c, f, q, v)
  BY <1>1
<1>6. page_table_[p] = f => d.file[p] = CurrentData[p] \/ lost' = {p}
  BY Zenon, <1>1, VictimWritten
<1> HIDE DEF d, v
<1>7. Installed(c, f, q, v)
  BY Zenon, <1>2, <1>4, <1>5, InstallProperties
<1>8. /\ p \in PageIds /\ p # q /\ page_table_[p] \in Frames
      /\ frames_[page_table_[p]].is_dirty_
  BY <1>2 DEF DirtyPages, Resident, IInv, TypeOK
<1>9. CASE page_table_[p] = f
  BY Zenon, <1>4, <1>6, <1>9 DEF KeptOrWritten
<1>10. CASE page_table_[p] # f
  <2>1. page_table_'[p] = page_table_[p] /\ frames_'[page_table_[p]] = frames_[page_table_[p]]
    BY Zenon, <1>7, <1>8, <1>10 DEF Installed
  <2> QED BY <2>1, <1>8, FrameKept
<1> QED BY <1>9, <1>10

LEMMA NewPageKeepsDirty ==
  ASSUME IInv, NEW c \in Clients, NEW f \in Frames, NewPage(c, f), NEW p \in DirtyPages
  PROVE  KeptOrWritten(p)
<1> DEFINE q == disk.num_pages_
<1>1. PICK dev \in Device, alloc \in Device :
        GetFreeFrame(f, dev) /\ disk' = AllocatePage(WriteBack(f, dev), alloc)
  BY DEF NewPage
<1> DEFINE d == WriteBack(f, dev)
<1>2. /\ q \in PageIds /\ FreeFrame(f) /\ Install(c, f, q, Zero)
      /\ IF WritesBack(f) THEN ~WriteThrows(disk, dev) ELSE dev = "accepts"
  BY <1>1 DEF NewPage, GetFreeFrame
<1>3. d \in DiskType /\ d.num_pages_ = q
  BY Zenon, <1>2, WriteBackProperties
<1>4. page_table_[p] = f => d.file[p] = CurrentData[p] \/ lost' = {p}
  BY Zenon, <1>1, VictimWritten
<1>5. disk' = AllocatePage(d, alloc)
  BY <1>1
<1> HIDE DEF d
<1>6. \A r \in PageIds : r # q => disk'.file[r] = d.file[r]
  BY <1>2, <1>3, <1>5, AllocateProperties
<1>7. /\ p \in PageIds /\ Resident(p) /\ p < q /\ page_table_[p] \in Frames
      /\ frames_[page_table_[p]].is_dirty_
  BY DEF DirtyPages, Resident, IInv, TypeOK, Bookkeeping
<1>8. p # q /\ ~Resident(q)
  <2>1. \A r \in PageIds : Resident(r) => r < q
    BY DEF IInv, Bookkeeping
  <2>2. ~(q < q)
    BY <1>2, DiskAssumption DEF PageIds
  <2> QED BY Zenon, <2>1, <2>2, <1>2, <1>7
<1> HIDE DEF q
<1>9. Installed(c, f, q, Zero)
  BY Zenon, <1>2, <1>8, DiskAssumption, InstallProperties
<1>10. CASE page_table_[p] = f
  BY Zenon, <1>4, <1>6, <1>7, <1>8, <1>10 DEF KeptOrWritten
<1>11. CASE page_table_[p] # f
  <2>1. page_table_'[p] = page_table_[p] /\ frames_'[page_table_[p]] = frames_[page_table_[p]]
    BY Zenon, <1>7, <1>8, <1>9, <1>11 DEF Installed
  <2> QED BY <2>1, <1>7, FrameKept
<1> QED BY <1>10, <1>11

LEMMA WriteDataKeepsDirty ==
  ASSUME IInv, NEW c \in Clients, NEW q \in PageIds, NEW v \in Value, WriteData(c, q, v),
         NEW p \in DirtyPages
  PROVE  KeptOrWritten(p)
<1> DEFINE f == ptr[c][q]
<1>1. /\ page_table_' = page_table_ /\ f # NoFrame
      /\ frames_' = [frames_ EXCEPT ![f].data_ = v]
  BY DEF WriteData
<1>2. /\ p \in PageIds /\ page_table_[p] # NoFrame /\ page_table_[p] \in Frames
      /\ frames_ \in [Frames -> Page] /\ f \in Frames /\ page_table_[q] = f
      /\ frames_[page_table_[p]].is_dirty_
  BY <1>1 DEF DirtyPages, Resident, IInv, TypeOK, PinsAreHolders
<1> HIDE DEF f
<1>3. CASE p = q
  <2>1. frames_'[page_table_[p]].is_dirty_
    BY <1>1, <1>2, <1>3 DEF Page
  <2>2. p \in DirtyPages'
    BY Zenon, <2>1, <1>1, <1>2 DEF DirtyPages, Resident
  <2> QED BY <2>2, <1>3 DEF KeptOrWritten
<1>4. CASE p # q
  <2>1. page_table_[p] # f
    BY <1>2, <1>4 DEF IInv, TableMatchesFrames
  <2>2. frames_'[page_table_[p]] = frames_[page_table_[p]]
    BY <2>1, <1>1, <1>2
  <2> QED BY Zenon, <2>2, <1>1, <1>2, FrameKept
<1> QED BY <1>3, <1>4

LEMMA FlushedKeepsDirty ==
  ASSUME IInv, Flushed, NEW p \in DirtyPages
  PROVE  KeptOrWritten(p)
<1>1. /\ p \in PageIds /\ Resident(p) /\ page_table_[p] \in Frames
      /\ frames_[page_table_[p]].is_dirty_
  BY DEF DirtyPages, Resident, IInv, TypeOK
<1>2. CurrentData[p] = frames_[page_table_[p]].data_
  BY <1>1 DEF CurrentData
<1>3. \/ disk'.file[p] = CurrentData[p] \/ lost' = {p}
      \/ frames_'[page_table_[p]].is_dirty_
  BY <1>1, <1>2 DEF Flushed
<1>4. CASE frames_'[page_table_[p]].is_dirty_
  BY <1>1, <1>4, FrameKept DEF Flushed
<1> QED BY <1>3, <1>4 DEF KeptOrWritten

(* UnpinPage only adds marks; FetchHit, the exception in GetFreeFrame and  *)
(* DeletePage of another page leave a dirty page alone; closing the pool   *)
(* writes it.                                                              *)
LEMMA OthersKeepDirty ==
  ASSUME IInv, NEW p \in DirtyPages,
         \/ \E c \in Clients, q \in PageIds : FetchHit(c, q)
         \/ \E f \in Frames : GetFreeFrameThrows(f)
         \/ \E c \in Clients, q \in PageIds, d \in BOOLEAN : UnpinPage(c, q, d)
         \/ \E q \in PageIds : DeletePage(q)
         \/ Restart
  PROVE  KeptOrWritten(p)
<1>1. /\ p \in PageIds /\ Resident(p) /\ page_table_[p] \in Frames
      /\ frames_[page_table_[p]].is_dirty_ /\ frames_ \in [Frames -> Page]
      /\ \A q \in PageIds : Resident(q) => page_table_[q] \in Frames
      /\ page_table_ \in [PageIds -> Frames \cup {NoFrame}]
  BY DEF DirtyPages, Resident, IInv, TypeOK
<1>2. ASSUME NEW c \in Clients, NEW q \in PageIds, FetchHit(c, q) PROVE KeptOrWritten(p)
  <2>1. /\ frames_' = [frames_ EXCEPT ![page_table_[q]].pin_count_ = @ + 1]
        /\ page_table_' = page_table_ /\ page_table_[q] \in Frames
    BY <1>1, <1>2 DEF FetchHit
  <2>2. /\ frames_'[page_table_[p]].is_dirty_ = frames_[page_table_[p]].is_dirty_
        /\ frames_'[page_table_[p]].data_ = frames_[page_table_[p]].data_
    BY Zenon, <1>1, <2>1 DEF Page
  <2> QED BY <1>1, <2>1, <2>2, FrameKept
<1>3. ASSUME NEW f \in Frames, GetFreeFrameThrows(f) PROVE KeptOrWritten(p)
  BY <1>1, <1>3, FrameKept DEF GetFreeFrameThrows
<1>4. ASSUME NEW c \in Clients, NEW q \in PageIds, NEW d \in BOOLEAN, UnpinPage(c, q, d)
      PROVE  KeptOrWritten(p)
  <2> DEFINE dirty == frames_[page_table_[q]].is_dirty_ \/ d
             pins == frames_[page_table_[q]].pin_count_ - 1
  <2>1. /\ frames_' = [frames_ EXCEPT ![page_table_[q]].is_dirty_ = dirty,
                                      ![page_table_[q]].pin_count_ = pins]
        /\ page_table_' = page_table_ /\ page_table_[q] \in Frames
    BY Zenon, <1>1, <1>4 DEF UnpinPage, DirtyAfterUnpin
  <2>2. page_table_[q] = page_table_[p] => dirty
    BY <1>1
  <2> HIDE DEF dirty, pins
  <2>3. /\ frames_'[page_table_[p]].is_dirty_
        /\ frames_'[page_table_[p]].data_ = frames_[page_table_[p]].data_
    BY Zenon, <1>1, <2>1, <2>2 DEF Page
  <2> QED BY Zenon, <2>1, <2>3, FrameKept
<1>5. ASSUME NEW q \in PageIds, DeletePage(q) PROVE KeptOrWritten(p)
  <2>1. CASE q = p
    BY <1>5, <2>1 DEF KeptOrWritten
  <2>2. CASE q # p
    <3>1. /\ frames_' = [frames_ EXCEPT ![page_table_[q]] = EmptyPage]
          /\ page_table_' = [page_table_ EXCEPT ![q] = NoFrame] /\ Resident(q)
      BY <1>5 DEF DeletePage
    <3>2. page_table_[q] # page_table_[p]
      BY <1>1, <2>2 DEF IInv, TableMatchesFrames
    <3>3. page_table_'[p] = page_table_[p] /\ frames_'[page_table_[p]] = frames_[page_table_[p]]
      BY <1>1, <2>2, <3>1, <3>2
    <3> QED BY <1>1, <3>3, FrameKept
  <2> QED BY <2>1, <2>2
<1>6. CASE Restart
  <2> DEFINE W == WrittenOut(DirtyPages)
  <2>1. DirtyPages \in SUBSET PageIds /\ \A q \in DirtyPages : Resident(q)
    BY DEF DirtyPages
  <2>2. W \in DiskType /\ W.file[p] = frames_[page_table_[p]].data_
    BY <1>1, <2>1, WrittenOutProperties
  <2>3. Reopen(W)
    BY <1>6 DEF Restart
  <2> HIDE DEF W
  <2>4. disk' = [W EXCEPT !.num_pages_ = W.size, !.db_io_ = "good"]
    BY Zenon, <2>2, <2>3, OpenFindsPages DEF Reopen
  <2>5. disk'.file[p] = CurrentData[p]
    BY <1>1, <2>2, <2>4 DEF DiskType, CurrentData
  <2> QED BY <2>5 DEF KeptOrWritten
<1> QED BY <1>2, <1>3, <1>4, <1>5, <1>6

(* Whatever the device does, a dirty page keeps its mark and its contents  *)
(* until they are in the file: neither an exception in GetFreeFrame nor    *)
(* one half way through FlushAllPages unmarks a page that was not written. *)
(* Only a page whose write fails in flush() is lost.                       *)
THEOREM PoolDirtyUntilWritten == Spec => DirtyUntilWritten
<1>1. IInv /\ [Next]_vars => [\A p \in DirtyPages : KeptOrWritten(p)]_vars
  <2> SUFFICES ASSUME IInv, Next, NEW p \in DirtyPages PROVE KeptOrWritten(p)
    OBVIOUS
  <2>1. ASSUME NEW c \in Clients, NEW f \in Frames, NewPage(c, f) PROVE KeptOrWritten(p)
    BY <2>1, NewPageKeepsDirty
  <2>2. ASSUME NEW c \in Clients, NEW q \in PageIds, NEW f \in Frames, FetchMiss(c, q, f)
        PROVE  KeptOrWritten(p)
    BY <2>2, FetchMissKeepsDirty
  <2>3. ASSUME NEW c \in Clients, NEW q \in PageIds, NEW v \in Value, WriteData(c, q, v)
        PROVE  KeptOrWritten(p)
    BY <2>3, WriteDataKeepsDirty
  <2>4. ASSUME NEW q \in PageIds, FlushPage(q) PROVE KeptOrWritten(p)
    BY <2>4, FlushPageFlushes, FlushedKeepsDirty
  <2>5. ASSUME NEW S \in SUBSET PageIds, FlushAllPages(S) PROVE KeptOrWritten(p)
    BY <2>5, FlushAllPagesFlushes, FlushedKeepsDirty
  <2>6. CASE Crash
    BY <2>6 DEF KeptOrWritten
  <2>7. ASSUME \/ \E c \in Clients, q \in PageIds : FetchHit(c, q)
               \/ \E f \in Frames : GetFreeFrameThrows(f)
               \/ \E c \in Clients, q \in PageIds, d \in BOOLEAN : UnpinPage(c, q, d)
               \/ \E q \in PageIds : DeletePage(q)
               \/ Restart
        PROVE  KeptOrWritten(p)
    BY <2>7, OthersKeepDirty
  <2> QED BY Zenon, <2>1, <2>2, <2>3, <2>4, <2>5, <2>6, <2>7 DEF Next, KeepNext, Calls
<1> QED BY <1>1, PoolInvariant, PTL DEF Spec, DirtyUntilWritten
-----------------------------------------------------------------------------
(* The pool implements PageStore. *)

(* The pool before a step of a device that takes every write. *)
Healthy == IInv /\ faults = 0 /\ MaxFaults = 0

(* The device fails no write, so the stream stays good. *)
LEMMA HealthyDevice ==
  ASSUME Healthy
  PROVE  /\ IInv /\ faults = 0 /\ disk \in DiskType /\ disk.file \in [PageIds -> Value]
         /\ disk.db_io_ = "good" /\ disk.size = disk.num_pages_
         /\ \A dev : Fault(dev) => dev = "accepts"
BY DEF Healthy, IInv, TypeOK, DiskType, Bookkeeping, Fault

(* The contents a client sees: of the frame if there is one, else the file. *)
LEMMA CurrentDataProperties ==
  /\ CurrentData = [p \in PageIds |-> CurrentData[p]]
  /\ \A p \in PageIds : CurrentData[p] =
       IF page_table_[p] # NoFrame THEN frames_[page_table_[p]].data_ ELSE disk.file[p]
  /\ CurrentData' = [p \in PageIds |-> CurrentData'[p]]
  /\ \A p \in PageIds : CurrentData'[p] =
       IF page_table_'[p] # NoFrame THEN frames_'[page_table_'[p]].data_ ELSE disk'.file[p]
BY DEF CurrentData, Resident

(* The pages a client holds are those it has a Page* to. *)
LEMMA HeldPagesProperties ==
  /\ HeldPages = [c \in Clients |-> HeldPages[c]]
  /\ \A c \in Clients : HeldPages[c] = {p \in PageIds : ptr[c][p] # NoFrame}
  /\ HeldPages' = [c \in Clients |-> HeldPages'[c]]
  /\ \A c \in Clients : HeldPages'[c] = {p \in PageIds : ptr'[c][p] # NoFrame}
BY Zenon DEF HeldPages

LEMMA HeldGrows ==
  ASSUME NEW c \in Clients, NEW p \in PageIds, NEW f \in Frames,
         \A e \in Clients, q \in PageIds :
           ptr'[e][q] = IF e = c /\ q = p THEN f ELSE ptr[e][q]
  PROVE  HeldPages' = [HeldPages EXCEPT ![c] = @ \cup {p}]
<1>1. ASSUME NEW e \in Clients
      PROVE  HeldPages'[e] = IF e = c THEN HeldPages[c] \cup {p} ELSE HeldPages[e]
  <2>1. /\ HeldPages'[e] = {q \in PageIds : ptr'[e][q] # NoFrame}
        /\ HeldPages[e] = {q \in PageIds : ptr[e][q] # NoFrame}
    BY HeldPagesProperties
  <2>2. \A q \in PageIds :
          ptr'[e][q] # NoFrame <=> ptr[e][q] # NoFrame \/ (e = c /\ q = p)
    BY NoneIsNone
  <2>3. CASE e = c
    <3>1. \A q \in PageIds : ptr'[e][q] # NoFrame <=> ptr[e][q] # NoFrame \/ q = p
      BY <2>2, <2>3
    <3>2. {q \in PageIds : ptr'[e][q] # NoFrame} = {q \in PageIds : ptr[e][q] # NoFrame} \cup {p}
      BY <3>1
    <3> QED BY <2>1, <2>3, <3>2
  <2>4. CASE e # c
    <3>1. \A q \in PageIds : ptr'[e][q] # NoFrame <=> ptr[e][q] # NoFrame
      BY <2>2, <2>4
    <3>2. {q \in PageIds : ptr'[e][q] # NoFrame} = {q \in PageIds : ptr[e][q] # NoFrame}
      BY <3>1
    <3> QED BY <2>1, <2>4, <3>2
  <2> QED BY <2>3, <2>4
<1> QED BY Zenon, <1>1, HeldPagesProperties

LEMMA HeldShrinks ==
  ASSUME NEW c \in Clients, NEW p \in PageIds,
         \A e \in Clients, q \in PageIds :
           ptr'[e][q] = IF e = c /\ q = p THEN NoFrame ELSE ptr[e][q]
  PROVE  HeldPages' = [HeldPages EXCEPT ![c] = @ \ {p}]
<1>1. ASSUME NEW e \in Clients
      PROVE  HeldPages'[e] = IF e = c THEN HeldPages[c] \ {p} ELSE HeldPages[e]
  <2>1. /\ HeldPages'[e] = {q \in PageIds : ptr'[e][q] # NoFrame}
        /\ HeldPages[e] = {q \in PageIds : ptr[e][q] # NoFrame}
    BY HeldPagesProperties
  <2>2. \A q \in PageIds :
          ptr'[e][q] # NoFrame <=> ptr[e][q] # NoFrame /\ ~(e = c /\ q = p)
    OBVIOUS
  <2>3. CASE e = c
    <3>1. \A q \in PageIds : ptr'[e][q] # NoFrame <=> ptr[e][q] # NoFrame /\ q # p
      BY <2>2, <2>3
    <3>2. {q \in PageIds : ptr'[e][q] # NoFrame} = {q \in PageIds : ptr[e][q] # NoFrame} \ {p}
      BY <3>1
    <3> QED BY <2>1, <2>3, <3>2
  <2>4. CASE e # c
    <3>1. \A q \in PageIds : ptr'[e][q] # NoFrame <=> ptr[e][q] # NoFrame
      BY <2>2, <2>4
    <3>2. {q \in PageIds : ptr'[e][q] # NoFrame} = {q \in PageIds : ptr[e][q] # NoFrame}
      BY <3>1
    <3> QED BY <2>1, <2>4, <3>2
  <2> QED BY <2>3, <2>4
<1> QED BY Zenon, <1>1, HeldPagesProperties

(* No client holds a page of a new pool. *)
LEMMA NoPtrHoldsNothing ==
  /\ ptr = NoPtr => HeldPages = Store!NothingHeld
  /\ ptr' = NoPtr => HeldPages' = Store!NothingHeld
<1>1. \A c \in Clients : {p \in PageIds : NoPtr[c][p] # NoFrame} = {}
  BY FreshPool
<1>2. ASSUME ptr = NoPtr PROVE HeldPages = Store!NothingHeld
  BY <1>1, <1>2 DEF Store!NothingHeld, HeldPages
<1>3. ASSUME ptr' = NoPtr PROVE HeldPages' = Store!NothingHeld
  BY <1>1, <1>3 DEF Store!NothingHeld, HeldPages
<1> QED BY <1>2, <1>3

(* A call of the pool: a step of PageStore that serves its clients, and    *)
(* that changes contents only by adding a page.                            *)
Served ==
  Store!Serve /\ (CurrentData' = CurrentData \/ disk'.num_pages_ > disk.num_pages_)

(* In a step in which pages only go to the file, with their current        *)
(* contents, nothing a client sees changes and a set of pages is synced.   *)
LEMMA SyncedPages ==
  ASSUME disk'.file \in [PageIds -> Value],
         \A q \in PageIds : CurrentData'[q] = CurrentData[q],
         \A q \in PageIds : disk'.file[q] = disk.file[q] \/ disk'.file[q] = CurrentData[q]
  PROVE  /\ CurrentData' = CurrentData
         /\ \E S \in SUBSET Store!PageIds : disk'.file = Store!Synced(S)
<1> DEFINE S == {q \in PageIds : disk'.file[q] # disk.file[q]}
<1>1. CurrentData' = CurrentData
  BY CurrentDataProperties, Zenon
<1>2. disk'.file = [q \in PageIds |-> IF q \in S THEN CurrentData[q] ELSE disk.file[q]]
  <2>1. \A q \in PageIds :
          disk'.file[q] = IF q \in S THEN CurrentData[q] ELSE disk.file[q]
    BY Zenon
  <2> QED BY Zenon, <2>1
<1>3. disk'.file = Store!Synced(S)
  BY <1>2 DEF Store!Synced, Store!PageIds, PageIds
<1>4. S \in SUBSET Store!PageIds
  BY DEF Store!PageIds, PageIds
<1> QED BY Zenon, <1>1, <1>3, <1>4

(* Bringing a page into frame f moves no contents: the page that was in f  *)
(* is in the file afterwards.                                              *)
LEMMA FetchMissImplements ==
  ASSUME Healthy, NEW c \in Clients, NEW p \in PageIds, NEW f \in Frames, FetchMiss(c, p, f)
  PROVE  Served
<1> DEFINE d == WriteBack(f, "accepts")
           v == ReadData(d, p)
<1>0. \A dev : Fault(dev) => dev = "accepts"
  BY HealthyDevice
<1>1. /\ FreeFrame(f) /\ ~Resident(p) /\ CanFetch(c, p)
      /\ WritesBack(f) => ~WriteThrows(disk, "accepts")
      /\ disk' = ReadPage(d) /\ Install(c, f, p, v)
  BY <1>0 DEF FetchMiss, GetFreeFrame
<1>2. IInv /\ faults = 0
  BY HealthyDevice
<1>3. /\ d \in DiskType /\ d.num_pages_ = disk.num_pages_ /\ d.db_io_ = "good"
      /\ \A q \in PageIds : page_table_[q] # f => d.file[q] = disk.file[q]
      /\ \A q \in PageIds : page_table_[q] = f => d.file[q] = frames_[f].data_
  <2>1. "accepts" \in Device
    BY DEF Device
  <2> QED BY Zenon, <2>1, <1>1, <1>2, WriteBackProperties
<1>4. v = d.file[p] /\ v \in Value
  BY <1>3 DEF ReadData, DiskType
<1>5. disk'.file = d.file /\ disk'.num_pages_ = disk.num_pages_
      /\ disk'.file \in [PageIds -> Value]
  BY <1>1, <1>3 DEF ReadPage, DiskType
<1> HIDE DEF d, v
<1>6. Installed(c, f, p, v)
  BY <1>1, <1>2, <1>4, InstallProperties
<1>7. /\ \A q \in PageIds : page_table_'[q] =
           IF q = p THEN f ELSE IF page_table_[q] = f THEN NoFrame ELSE page_table_[q]
      /\ \A g \in Frames : g # f => frames_'[g] = frames_[g]
      /\ frames_'[f].data_ = v
  BY <1>6, InstalledChanges
<1>8. ASSUME NEW q \in PageIds
      PROVE  /\ CurrentData'[q] = CurrentData[q]
             /\ disk'.file[q] = disk.file[q] \/ disk'.file[q] = CurrentData[q]
  <2>1. page_table_[q] \in Frames \cup {NoFrame}
    BY <1>2 DEF IInv, TypeOK
  <2>2. CASE q = p
    <3>1. page_table_[q] = NoFrame /\ page_table_'[q] = f
      BY Zenon, <1>1, <1>7, <2>2 DEF Resident
    <3> QED BY <3>1, <2>2, <1>3, <1>4, <1>5, <1>7, NoneIsNone, CurrentDataProperties
  <2>3. CASE q # p /\ page_table_[q] = f
    <3>1. page_table_'[q] = NoFrame
      BY <2>3, <1>7
    <3> QED BY <3>1, <2>3, <1>3, <1>5, NoneIsNone, CurrentDataProperties
  <2>4. CASE q # p /\ page_table_[q] # f
    <3>1. page_table_'[q] = page_table_[q]
      BY <2>4, <1>7
    <3>2. disk'.file[q] = disk.file[q]
      BY Zenon, <2>4, <1>3, <1>5
    <3> QED BY <3>1, <3>2, <2>1, <2>4, <1>7, CurrentDataProperties
  <2> QED BY <2>2, <2>3, <2>4
<1>9. CurrentData' = CurrentData /\ \E S \in SUBSET Store!PageIds : disk'.file = Store!Synced(S)
  BY <1>5, <1>8, SyncedPages
<1>10. HeldPages' = [HeldPages EXCEPT ![c] = @ \cup {p}] /\ p \notin HeldPages[c]
  <2>1. HeldPages' = [HeldPages EXCEPT ![c] = @ \cup {p}]
    <3>1. \A e \in Clients, q \in PageIds :
            ptr'[e][q] = IF e = c /\ q = p THEN f ELSE ptr[e][q]
      BY <1>6 DEF Installed
    <3> QED BY Zenon, <3>1, HeldGrows
  <2> QED BY <2>1, <1>1, HeldPagesProperties DEF CanFetch
<1>11. PICK S \in SUBSET Store!PageIds : Store!Fetch(c, p, S)
  BY Zenon, <1>1, <1>5, <1>9, <1>10 DEF Store!Fetch, CanFetch
<1> QED BY Zenon, <1>9, <1>11 DEF Served, Store!Serve, Store!PageIds, PageIds

(* NewPage is an Allocate, which also syncs the page it evicts.            *)
LEMMA NewPageImplements ==
  ASSUME Healthy, NEW c \in Clients, NEW f \in Frames, NewPage(c, f)
  PROVE  Served
<1> DEFINE d == WriteBack(f, "accepts")
           p == disk.num_pages_
<1>0. \A dev : Fault(dev) => dev = "accepts"
  BY HealthyDevice
<1>1. /\ FreeFrame(f) /\ p \in PageIds
      /\ WritesBack(f) => ~WriteThrows(disk, "accepts")
      /\ disk' = AllocatePage(d, "accepts")
      /\ Install(c, f, p, Zero)
  <2>1. PICK dev \in Device, alloc \in Device :
          /\ "accepts" \in {dev, alloc} /\ GetFreeFrame(f, dev)
          /\ Fault(IF dev = "accepts" THEN alloc ELSE dev)
          /\ disk' = AllocatePage(WriteBack(f, dev), alloc)
    BY DEF NewPage
  <2>2. (IF dev = "accepts" THEN alloc ELSE dev) = "accepts"
    BY <2>1, <1>0
  <2>3. dev = "accepts" /\ alloc = "accepts"
    BY <2>2
  <2> QED BY <2>1, <2>3 DEF GetFreeFrame, NewPage
<1>2. IInv /\ faults = 0 /\ disk.file \in [PageIds -> Value]
  BY HealthyDevice
<1>3. /\ d \in DiskType /\ d.num_pages_ = disk.num_pages_ /\ d.db_io_ = "good"
      /\ \A q \in PageIds : page_table_[q] # f => d.file[q] = disk.file[q]
      /\ \A q \in PageIds : page_table_[q] = f => d.file[q] = frames_[f].data_
  <2>1. "accepts" \in Device
    BY DEF Device
  <2> QED BY Zenon, <2>1, <1>1, <1>2, WriteBackProperties
<1>4. ~Resident(p)
  <2>1. p \in PageIds /\ ~(p < p)
    BY <1>1, DiskAssumption DEF PageIds
  <2> QED BY Zenon, <1>2, <2>1 DEF IInv, Bookkeeping
<1>5. disk'.file = [d.file EXCEPT ![p] = Zero] /\ disk'.num_pages_ = p + 1
  <2> HIDE DEF d
  <2>1. ~(d.num_pages_ < 0)
    <3>1. d.num_pages_ \in PageIds
      BY Zenon, <1>1, <1>3
    <3> QED BY <3>1, DiskAssumption DEF PageIds
  <2> QED BY <2>1, <1>1, <1>2, <1>3 DEF AllocatePage, PutPage, DiskType
<1> HIDE DEF d
<1>6. Installed(c, f, p, Zero)
  BY Zenon, <1>1, <1>2, <1>4, DiskAssumption, InstallProperties
<1>7. /\ \A q \in PageIds : page_table_'[q] =
           IF q = p THEN f ELSE IF page_table_[q] = f THEN NoFrame ELSE page_table_[q]
      /\ \A g \in Frames : g # f => frames_'[g] = frames_[g]
      /\ frames_'[f].data_ = Zero
  BY <1>6, InstalledChanges
<1> DEFINE S == {q \in PageIds : d.file[q] # disk.file[q]}
<1>8. ASSUME NEW q \in PageIds
      PROVE  /\ CurrentData'[q] = IF q = p THEN Zero ELSE CurrentData[q]
             /\ d.file[q] = disk.file[q] \/ d.file[q] = CurrentData[q]
  <2>1. page_table_[q] \in Frames \cup {NoFrame}
    BY <1>2 DEF IInv, TypeOK
  <2>2. q # p => disk'.file[q] = d.file[q]
    BY <1>3, <1>5 DEF DiskType
  <2>3. CASE q = p
    <3>1. page_table_[q] = NoFrame /\ page_table_'[q] = f
      BY Zenon, <1>4, <1>7, <2>3 DEF Resident
    <3> QED BY <3>1, <2>3, <1>3, <1>7, NoneIsNone, CurrentDataProperties
  <2>4. CASE q # p /\ page_table_[q] = f
    <3>1. page_table_'[q] = NoFrame /\ disk'.file[q] = d.file[q]
      BY Zenon, <2>2, <2>4, <1>7
    <3>2. d.file[q] = frames_[f].data_
      BY Zenon, <2>4, <1>3
    <3> QED BY <3>1, <3>2, <2>4, NoneIsNone, CurrentDataProperties
  <2>5. CASE q # p /\ page_table_[q] # f
    <3>1. page_table_'[q] = page_table_[q]
      BY Zenon, <2>5, <1>7
    <3>2. disk'.file[q] = disk.file[q] /\ d.file[q] = disk.file[q]
      BY Zenon, <2>2, <2>5, <1>3
    <3> QED BY <3>1, <3>2, <2>1, <2>5, <1>7, CurrentDataProperties
  <2> QED BY Zenon, <2>3, <2>4, <2>5
<1>9. CurrentData' = [CurrentData EXCEPT ![p] = Zero]
  BY <1>1, <1>8, CurrentDataProperties
<1>10. disk'.file =
         [[q \in PageIds |-> IF q \in S THEN CurrentData[q] ELSE disk.file[q]] EXCEPT ![p] = Zero]
  <2>1. d.file \in [PageIds -> Value]
    BY <1>3 DEF DiskType
  <2>2. d.file = [q \in PageIds |-> IF q \in S THEN CurrentData[q] ELSE disk.file[q]]
    BY <2>1, <1>8
  <2> QED BY Zenon, <2>2, <1>5
<1>11. HeldPages' = [HeldPages EXCEPT ![c] = @ \cup {p}]
  <2>1. p \in PageIds /\ \A e \in Clients, q \in PageIds :
          ptr'[e][q] = IF e = c /\ q = p THEN f ELSE ptr[e][q]
    BY <1>1, <1>6 DEF Installed
  <2> HIDE DEF p
  <2> QED BY Zenon, <2>1, HeldGrows
<1>12. Store!Allocate(c, S)
  BY Zenon, <1>5, <1>9, <1>10, <1>11 DEF Store!Allocate, Store!Synced, Store!PageIds, PageIds
<1>13. S \in SUBSET Store!PageIds
  BY DEF Store!PageIds, PageIds
<1>14. disk'.num_pages_ > disk.num_pages_
  <2>1. p \in Int
    BY <1>1, DiskAssumption DEF PageIds
  <2> QED BY <2>1, <1>5
<1> QED BY Zenon, <1>12, <1>13, <1>14 DEF Served, Store!Serve

(* FetchHit and UnpinPage change no contents and write nothing.            *)
LEMMA FramesKeepData ==
  ASSUME Healthy, page_table_' = page_table_, disk' = disk,
         \A g \in Frames : frames_'[g].data_ = frames_[g].data_
  PROVE  CurrentData' = CurrentData
<1>1. ASSUME NEW q \in PageIds PROVE CurrentData'[q] = CurrentData[q]
  <2>1. page_table_[q] \in Frames \cup {NoFrame}
    BY DEF Healthy, IInv, TypeOK
  <2> QED BY <2>1, CurrentDataProperties
<1> QED BY Zenon, <1>1, CurrentDataProperties

LEMMA FetchHitImplements ==
  ASSUME Healthy, NEW c \in Clients, NEW p \in PageIds, FetchHit(c, p)
  PROVE  Served
<1> DEFINE f == page_table_[p]
<1>1. /\ frames_' = [frames_ EXCEPT ![f].pin_count_ = @ + 1]
      /\ page_table_' = page_table_ /\ disk' = disk /\ Resident(p)
      /\ ptr' = [ptr EXCEPT ![c][p] = f] /\ CanFetch(c, p)
  BY DEF FetchHit
<1>2. /\ f \in Frames /\ frames_ \in [Frames -> Page]
      /\ ptr \in [Clients -> [PageIds -> Frames \cup {NoFrame}]]
  BY <1>1 DEF Healthy, IInv, TypeOK, Resident
<1> HIDE DEF f
<1>3. \A g \in Frames : frames_'[g].data_ = frames_[g].data_
  BY <1>1, <1>2 DEF Page
<1>4. CurrentData' = CurrentData
  BY <1>1, <1>3, FramesKeepData
<1>5. \A e \in Clients, q \in PageIds :
        ptr'[e][q] = IF e = c /\ q = p THEN f ELSE ptr[e][q]
  BY <1>1, <1>2
<1>6. HeldPages' = [HeldPages EXCEPT ![c] = @ \cup {p}] /\ p \notin HeldPages[c]
  <2>1. HeldPages' = [HeldPages EXCEPT ![c] = @ \cup {p}]
    BY Zenon, <1>2, <1>5, HeldGrows
  <2> QED BY <2>1, <1>1, HeldPagesProperties DEF CanFetch
<1>7. disk'.file = Store!Synced({})
  BY <1>1, HealthyDevice DEF Store!Synced, Store!PageIds, PageIds
<1>8. Store!Fetch(c, p, {})
  BY Zenon, <1>1, <1>4, <1>6, <1>7 DEF Store!Fetch, CanFetch
<1> QED BY <1>4, <1>8 DEF Served, Store!Serve, Store!PageIds, PageIds

LEMMA UnpinPageImplements ==
  ASSUME Healthy, NEW c \in Clients, NEW p \in PageIds, NEW is_dirty \in BOOLEAN,
         UnpinPage(c, p, is_dirty)
  PROVE  Served
<1> DEFINE f == page_table_[p]
           pins == frames_[f].pin_count_ - 1
           dirty == DirtyAfterUnpin(f, is_dirty)
<1>1. /\ frames_' = [frames_ EXCEPT ![f].is_dirty_ = dirty, ![f].pin_count_ = pins]
      /\ page_table_' = page_table_ /\ disk' = disk /\ Resident(p)
      /\ ptr' = [ptr EXCEPT ![c][p] = NoFrame] /\ ptr[c][p] # NoFrame
  BY DEF UnpinPage
<1>2. /\ f \in Frames /\ frames_ \in [Frames -> Page]
      /\ ptr \in [Clients -> [PageIds -> Frames \cup {NoFrame}]]
  BY <1>1 DEF Healthy, IInv, TypeOK, Resident
<1> HIDE DEF f, pins, dirty
<1>3. \A g \in Frames : frames_'[g].data_ = frames_[g].data_
  <2>1. frames_' = [frames_ EXCEPT ![f].is_dirty_ = dirty, ![f].pin_count_ = pins]
    BY <1>1
  <2>2. f \in Frames /\ frames_ \in [Frames -> Page]
    BY <1>2
  <2> QED BY <2>1, <2>2 DEF Page
<1>4. CurrentData' = CurrentData
  BY Zenon, <1>1, <1>3, FramesKeepData
<1>5. \A e \in Clients, q \in PageIds :
        ptr'[e][q] = IF e = c /\ q = p THEN NoFrame ELSE ptr[e][q]
  BY <1>1, <1>2
<1>6. HeldPages' = [HeldPages EXCEPT ![c] = @ \ {p}] /\ p \in HeldPages[c]
  <2>1. HeldPages' = [HeldPages EXCEPT ![c] = @ \ {p}]
    BY Zenon, <1>5, HeldShrinks
  <2> QED BY <2>1, <1>1, HeldPagesProperties
<1>7. Store!Release(c, p)
  BY Zenon, <1>1, <1>4, <1>6 DEF Store!Release
<1> QED BY <1>4, <1>7 DEF Served, Store!Serve, Store!PageIds, PageIds

(* A flush changes no contents, and writes to the file what is current.    *)
LEMMA FlushedImplements ==
  ASSUME Healthy, Flushed
  PROVE  Served
<1>1. /\ disk'.file \in [PageIds -> Value] /\ page_table_' = page_table_ /\ ptr' = ptr
      /\ disk'.num_pages_ = disk.num_pages_
  BY DEF Flushed, DiskType
<1>2. ASSUME NEW q \in PageIds
      PROVE  /\ CurrentData'[q] = CurrentData[q]
             /\ disk'.file[q] = disk.file[q] \/ disk'.file[q] = CurrentData[q]
  <2>1. page_table_[q] \in Frames \cup {NoFrame}
    BY DEF Healthy, IInv, TypeOK
  <2>2. \/ disk'.file[q] = disk.file[q]
        \/ page_table_[q] # NoFrame /\ disk'.file[q] = frames_[page_table_[q]].data_
    BY DEF Flushed, Resident
  <2>3. \A g \in Frames : frames_'[g].data_ = frames_[g].data_
    BY DEF Flushed
  <2>4. CASE page_table_[q] = NoFrame
    <3>1. disk'.file[q] = disk.file[q]
      BY <2>2, <2>4
    <3> QED BY <3>1, <2>4, <1>1, CurrentDataProperties
  <2>5. CASE page_table_[q] # NoFrame
    BY <2>1, <2>2, <2>3, <2>5, <1>1, CurrentDataProperties
  <2> QED BY <2>4, <2>5
<1>3. /\ CurrentData' = CurrentData
      /\ \E S \in SUBSET Store!PageIds : disk'.file = Store!Synced(S)
  BY <1>1, <1>2, SyncedPages
<1>4. HeldPages' = HeldPages
  BY <1>1 DEF HeldPages
<1>5. \E S \in SUBSET Store!PageIds : Store!Sync(S)
  BY Zenon, <1>1, <1>3, <1>4 DEF Store!Sync
<1> QED BY <1>3, <1>5 DEF Served, Store!Serve

LEMMA WriteDataImplements ==
  ASSUME Healthy, NEW c \in Clients, NEW p \in PageIds, NEW v \in Value, WriteData(c, p, v)
  PROVE  Store!Write(c, p, v)
<1> DEFINE f == ptr[c][p]
<1>1. IInv
  BY HealthyDevice
<1>2. /\ frames_' = [frames_ EXCEPT ![f].data_ = v] /\ page_table_' = page_table_
      /\ disk' = disk /\ f # NoFrame /\ ptr' = ptr
  BY DEF WriteData
<1>3. /\ f \in Frames /\ page_table_[p] = f /\ p < disk.num_pages_
      /\ frames_ \in [Frames -> Page]
  BY <1>1, <1>2 DEF IInv, TypeOK, PinsAreHolders, Bookkeeping, Resident
<1> HIDE DEF f
<1>4. frames_'[f].data_ = v /\ \A g \in Frames : g # f => frames_'[g] = frames_[g]
  BY <1>2, <1>3 DEF Page
<1>5. ASSUME NEW q \in PageIds PROVE CurrentData'[q] = IF q = p THEN v ELSE CurrentData[q]
  <2>1. page_table_[q] \in Frames \cup {NoFrame} /\ (page_table_[q] = f <=> q = p)
    BY <1>1, <1>3 DEF IInv, TypeOK, TableMatchesFrames
  <2> QED BY <2>1, <1>2, <1>3, <1>4, NoneIsNone, CurrentDataProperties
<1>6. CurrentData' = [CurrentData EXCEPT ![p] = v]
  BY <1>5, CurrentDataProperties
<1>7. p \in HeldPages[c] /\ HeldPages' = HeldPages
  <2>1. p \in HeldPages[c]
    BY <1>2, HeldPagesProperties DEF f
  <2> QED BY <2>1, <1>2 DEF HeldPages
<1> QED BY <1>2, <1>3, <1>6, <1>7 DEF Store!Write, Store!Put

(* Nobody holds a page that is deleted, and no other page changes.         *)
LEMMA DeletePageImplements ==
  ASSUME Healthy, NEW p \in PageIds, DeletePage(p)
  PROVE  Store!Delete(p)
<1> DEFINE f == page_table_[p]
<1>1. IInv
  BY HealthyDevice
<1>2. /\ frames_' = [frames_ EXCEPT ![f] = EmptyPage]
      /\ page_table_' = [page_table_ EXCEPT ![p] = NoFrame]
      /\ disk' = disk /\ f # NoFrame /\ ptr' = ptr
  BY DEF DeletePage, Resident, clientVars
<1>3. /\ f \in Frames /\ page_table_[p] = f /\ frames_ \in [Frames -> Page]
      /\ page_table_ \in [PageIds -> Frames \cup {NoFrame}]
  BY <1>1, <1>2 DEF IInv, TypeOK
<1> HIDE DEF f
<1>4. \A g \in Frames : g # f => frames_'[g] = frames_[g]
  BY <1>2, <1>3
<1>5. ASSUME NEW q \in PageIds
      PROVE  CurrentData'[q] = IF q = p THEN disk.file[p] ELSE CurrentData[q]
  <2>1. page_table_[q] = f <=> q = p
    BY <1>1, <1>3 DEF IInv, TableMatchesFrames
  <2>2. page_table_'[q] = IF q = p THEN NoFrame ELSE page_table_[q]
    BY <1>2, <1>3
  <2> QED BY <2>1, <2>2, <1>2, <1>3, <1>4, CurrentDataProperties
<1>6. CurrentData' = [CurrentData EXCEPT ![p] = disk.file[p]]
  BY <1>5, CurrentDataProperties
<1>7. \A c \in Clients : ptr[c][p] = NoFrame
  <2>1. frames_[page_table_[p]].pin_count_ = 0
    BY DEF DeletePage
  <2> QED BY Zenon, <1>1, <2>1, UnpinnedNotHeld DEF IInv
<1>8. HeldPages' = HeldPages /\ \A c \in Clients : p \notin HeldPages[c]
  BY <1>2, <1>7 DEF HeldPages
<1> QED BY <1>2, <1>6, <1>8 DEF Store!Delete

(* A new pool shows the contents of the file it was opened on.             *)
LEMMA ReopenShowsFile ==
  ASSUME NEW d \in DiskType, Reopen(d)
  PROVE  /\ CurrentData' = d.file /\ disk'.file = d.file /\ disk'.num_pages_ = d.size
         /\ HeldPages' = Store!NothingHeld
<1>1. disk' = [d EXCEPT !.num_pages_ = d.size, !.db_io_ = "good"]
  BY Zenon, OpenFindsPages DEF Reopen
<1>2. disk'.file = d.file /\ disk'.num_pages_ = d.size /\ d.file \in [PageIds -> Value]
  BY <1>1 DEF DiskType
<1>3. \A q \in PageIds : page_table_'[q] = NoFrame
  BY FreshPool DEF Reopen
<1>4. \A q \in PageIds : CurrentData'[q] = d.file[q]
  BY <1>2, <1>3, CurrentDataProperties
<1>5. CurrentData' = d.file
  BY <1>2, <1>4, CurrentDataProperties
<1>6. HeldPages' = Store!NothingHeld
  BY NoPtrHoldsNothing DEF Reopen
<1> QED BY <1>2, <1>5, <1>6

(* With no client left, what the destructor does not flush is in the file. *)
LEMMA RestartImplements ==
  ASSUME Healthy, Restart
  PROVE  Served
<1> DEFINE W == WrittenOut(DirtyPages)
<1>1. /\ IInv /\ faults = 0 /\ disk.size = disk.num_pages_
      /\ DirtyPages \in SUBSET PageIds /\ \A p \in DirtyPages : Resident(p)
  BY HealthyDevice DEF DirtyPages
<1>2. /\ W \in DiskType
      /\ \A q \in PageIds : W.file[q] =
           IF q \in DirtyPages THEN frames_[page_table_[q]].data_ ELSE disk.file[q]
      /\ W.size = disk.size
  BY <1>1, WrittenOutProperties
<1>3. ptr = NoPtr /\ Reopen(W)
  BY DEF Restart
<1> HIDE DEF W
<1>4. /\ CurrentData' = W.file /\ disk'.file = W.file /\ disk'.num_pages_ = disk.num_pages_
      /\ HeldPages = Store!NothingHeld /\ HeldPages' = Store!NothingHeld
  BY <1>1, <1>2, <1>3, ReopenShowsFile, NoPtrHoldsNothing
<1>5. ASSUME NEW q \in PageIds PROVE W.file[q] = CurrentData[q]
  <2>1. CASE q \in DirtyPages \/ page_table_[q] = NoFrame
    BY <2>1, <1>1, <1>2, CurrentDataProperties DEF Resident
  <2>2. CASE q \notin DirtyPages /\ page_table_[q] # NoFrame
    <3>1. \A c \in Clients : ptr[c][q] = NoFrame
      BY <1>3, FreshPool
    <3>2. Holders(q, page_table_[q]) = {}
      BY <3>1, <2>2 DEF Holders
    <3>3. ~frames_[page_table_[q]].is_dirty_ /\ Resident(q)
      BY <2>2 DEF DirtyPages, Resident
    <3>4. frames_[page_table_[q]].data_ = disk.file[q]
      BY <3>2, <3>3, <1>1 DEF IInv, NoLostWrite
    <3> QED BY <3>4, <2>2, <1>2, CurrentDataProperties
  <2> QED BY <2>1, <2>2
<1>6. W.file = CurrentData
  BY <1>2, <1>5, CurrentDataProperties DEF DiskType
<1>7. Store!Close
  BY <1>4, <1>6 DEF Store!Close
<1> QED BY <1>4, <1>6, <1>7 DEF Served, Store!Serve

LEMMA CrashImplements ==
  ASSUME Healthy, Crash
  PROVE  Store!Crash
<1>1. disk \in DiskType /\ disk.size = disk.num_pages_
  BY HealthyDevice
<1>2. /\ CurrentData' = disk.file /\ disk'.file = disk.file
      /\ disk'.num_pages_ = disk.num_pages_ /\ HeldPages' = Store!NothingHeld
  BY <1>1, ReopenShowsFile DEF Crash
<1> QED BY <1>2 DEF Store!Crash

-----------------------------------------------------------------------------
(* The file of a new pool is empty, and nobody holds a page. *)
LEMMA InitImplements == Init => Store!Init
<1> SUFFICES ASSUME Init PROVE Store!Init
  OBVIOUS
<1>1. /\ disk.num_pages_ = 0 /\ disk.file = [p \in PageIds |-> Zero]
      /\ \A p \in PageIds : page_table_[p] = NoFrame
  BY FreshPool DEF Init, NewDisk
<1>2. CurrentData = [p \in PageIds |-> Zero]
  BY <1>1 DEF CurrentData, Resident
<1>3. HeldPages = Store!NothingHeld
  BY NoPtrHoldsNothing DEF Init
<1> QED BY <1>1, <1>2, <1>3 DEF Store!Init, Store!PageIds, PageIds

(* Every call of the pool but DeletePage serves its clients.               *)
LEMMA CallsImplement ==
  ASSUME Healthy, Calls
  PROVE  Served
<1>1. ASSUME NEW c \in Clients, NEW f \in Frames, NewPage(c, f) PROVE Served
  BY <1>1, NewPageImplements
<1>2. ASSUME NEW c \in Clients, NEW p \in PageIds, FetchHit(c, p) PROVE Served
  BY <1>2, FetchHitImplements
<1>3. ASSUME NEW c \in Clients, NEW p \in PageIds, NEW f \in Frames, FetchMiss(c, p, f)
      PROVE  Served
  BY <1>3, FetchMissImplements
<1>4. ASSUME NEW f \in Frames, GetFreeFrameThrows(f) PROVE FALSE
  <2>1. PICK dev \in Device : Fault(dev) /\ WriteThrows(disk, dev)
    BY <1>4 DEF GetFreeFrameThrows
  <2>2. dev = "accepts" /\ disk \in DiskType /\ disk.db_io_ = "good"
    BY <2>1, HealthyDevice
  <2> QED BY <2>1, <2>2, ThrowsProperties
<1>5. ASSUME NEW c \in Clients, NEW p \in PageIds, NEW d \in BOOLEAN, UnpinPage(c, p, d)
      PROVE  Served
  BY <1>5, UnpinPageImplements
<1>6. ASSUME NEW p \in PageIds, FlushPage(p) PROVE Served
  BY <1>6, FlushPageFlushes, FlushedImplements DEF Healthy
<1>7. ASSUME NEW S \in SUBSET PageIds, FlushAllPages(S) PROVE Served
  BY <1>7, FlushAllPagesFlushes, FlushedImplements DEF Healthy
<1>8. CASE Restart
  BY <1>8, RestartImplements
<1> QED BY <1>1, <1>2, <1>3, <1>4, <1>5, <1>6, <1>7, <1>8 DEF Calls

(* While no page is deleted and the process lives, every step is a step of *)
(* PageStore that keeps its contents.                                      *)
LEMMA KeepStepImplements ==
  ASSUME Healthy, KeepNext
  PROVE  /\ Store!KeepNext
         /\ \/ UNCHANGED CurrentData
            \/ disk'.num_pages_ > disk.num_pages_
            \/ \E c \in Clients, p \in PageIds, v \in Value :
                 WriteData(c, p, v) /\ Store!Write(c, p, v)
<1>1. CASE Calls
  <2>1. Served
    BY <1>1, CallsImplement
  <2> QED BY <2>1 DEF Served, Store!KeepNext
<1>2. ASSUME NEW c \in Clients, NEW p \in PageIds, NEW v \in Value, WriteData(c, p, v)
      PROVE  Store!KeepNext /\ Store!Write(c, p, v)
  <2>1. Store!Write(c, p, v)
    BY <1>2, WriteDataImplements
  <2> QED BY <2>1 DEF Store!KeepNext, Store!PageIds, PageIds
<1> QED BY Zenon, <1>1, <1>2 DEF KeepNext

LEMMA StutterImplements ==
  ASSUME UNCHANGED vars
  PROVE  UNCHANGED CurrentData /\ UNCHANGED Store!storeVars
BY DEF vars, Store!storeVars, CurrentData, HeldPages, Resident

(* Unless a page is deleted or the process dies, and while the device      *)
(* takes every write, nothing a client wrote is lost or changed: the       *)
(* contents of a page change only in a WriteData of a client that holds    *)
(* it, and in no eviction, flush or fetch, nor when the pool is closed and *)
(* the file opened again.                                                  *)
THEOREM PoolKeepsPageStore ==
  ASSUME MaxFaults = 0
  PROVE  KeepSpec => KeepsPageStore
<1>1. IInv => Healthy
  BY DEF Healthy, IInv, TypeOK
<1>2. IInv /\ [KeepNext]_vars => [Store!KeepNext]_(Store!storeVars)
  BY Zenon, <1>1, KeepStepImplements, StutterImplements
<1>3. IInv /\ [KeepNext]_vars =>
        [\/ UNCHANGED CurrentData
         \/ disk'.num_pages_ > disk.num_pages_
         \/ \E c \in Clients, p \in PageIds, v \in Value :
              WriteData(c, p, v) /\ Store!Write(c, p, v)]_vars
  BY Zenon, <1>1, KeepStepImplements
<1>4. [KeepNext]_vars => [Next]_vars
  BY DEF Next
<1>5. KeepSpec => Spec
  BY <1>4, PTL DEF KeepSpec, Spec
<1>6. KeepSpec => Store!KeepSpec
  BY <1>2, <1>5, InitImplements, PoolInvariant, PTL DEF KeepSpec, Store!KeepSpec
<1>7. KeepSpec => [][\/ UNCHANGED CurrentData
                     \/ disk'.num_pages_ > disk.num_pages_
                     \/ \E c \in Clients, p \in PageIds, v \in Value :
                          WriteData(c, p, v) /\ Store!Write(c, p, v)]_vars
  BY <1>3, <1>5, PoolInvariant, PTL DEF KeepSpec
<1> QED BY <1>6, <1>7 DEF KeepsPageStore

(* With deletions and crashes the pool implements PageStore too, step by   *)
(* step: while the device takes every write, DeletePage is Delete of that  *)
(* page, a crash is Crash, and every other step keeps all contents.        *)
THEOREM PoolImplementsPageStore ==
  ASSUME MaxFaults = 0
  PROVE  Spec => ImplementsPageStore
<1>1. IInv => Healthy
  BY DEF Healthy, IInv, TypeOK
<1>2. IInv /\ [Next]_vars =>
        [/\ KeepNext => Store!KeepNext \/ UNCHANGED Store!storeVars
         /\ \A p \in PageIds : DeletePage(p) => Store!Delete(p)
         /\ Crash => Store!Crash]_vars
  BY Zenon, <1>1, KeepStepImplements, DeletePageImplements, CrashImplements
<1>3. IInv /\ [Next]_vars => [Store!Next]_(Store!storeVars)
  <2> SUFFICES ASSUME IInv, [Next]_vars PROVE [Store!Next]_(Store!storeVars)
    OBVIOUS
  <2>1. CASE KeepNext
    BY <1>1, <2>1, KeepStepImplements DEF Store!Next
  <2>2. ASSUME NEW p \in PageIds, DeletePage(p) PROVE Store!Next
    BY <1>1, <2>2, DeletePageImplements DEF Store!Next, Store!PageIds, PageIds
  <2>3. CASE Crash
    BY <1>1, <2>3, CrashImplements DEF Store!Next
  <2>4. CASE UNCHANGED vars
    BY <2>4, StutterImplements
  <2> QED BY Zenon, <2>1, <2>2, <2>3, <2>4 DEF Next
<1>4. Spec => Store!Spec
  BY <1>3, InitImplements, PoolInvariant, PTL DEF Spec, Store!Spec
<1>5. Spec => [][/\ KeepNext => Store!KeepNext \/ UNCHANGED Store!storeVars
                 /\ \A p \in PageIds : DeletePage(p) => Store!Delete(p)
                 /\ Crash => Store!Crash]_vars
  BY <1>2, PoolInvariant, PTL DEF Spec
<1> QED BY <1>4, <1>5 DEF ImplementsPageStore
==============================================================================
