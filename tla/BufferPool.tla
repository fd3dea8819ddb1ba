----------------------------- MODULE BufferPool ------------------------------
(***************************************************************************)
(* The buffer pool (storage/buffer_pool.cpp) over its page file and its    *)
(* replacer, used by a set of clients.                                     *)
(*                                                                         *)
(* Every public method holds latch_ from its first statement to its last,  *)
(* so a call is one step.  What interleaves are the calls of different     *)
(* clients and the writes they make through the Page* a call returned,     *)
(* which hold no latch.                                                    *)
(*                                                                         *)
(* A client stands for the code above the pool (HeapFile, BPlusTree).  It  *)
(* keeps the Page* of each page it has pinned, unpins what it has pinned,  *)
(* and passes is_dirty = true if it wrote to the page in between.          *)
(*                                                                         *)
(* A device fault is a write the device does not take; MaxFaults bounds    *)
(* them.                                                                   *)
(***************************************************************************)
EXTENDS DiskManager, LRUReplacer

CONSTANTS
  Clients,     \* threads that use the pool
  pool_size_,  \* number of frames
  MaxFaults    \* bound: how many writes the device may not take

ASSUME PoolAssumption ==
  /\ IsFiniteSet(Clients)
  /\ pool_size_ \in Nat
  /\ MaxFaults \in Nat
  /\ 2 * MaxPages * PAGE_SIZE < IntRange

VARIABLES
  frames_,      \* the frames: contents, page id, pin count, dirty flag
  page_table_,  \* page id -> frame id, NoFrame if the page is not resident
  free_list_,   \* frame ids that hold no page, in order of reuse
  replacer_,    \* the LRUReplacer
  disk,         \* the DiskManager
  ptr,          \* client -> page id -> the frame its Page* points to
  wrote,        \* client -> pages it has written to since it pinned them
  faults,       \* number of writes the device has not taken
  lost          \* the page whose contents the last call lost in flush()

vars == <<frames_, page_table_, free_list_, replacer_, disk, ptr, wrote, faults, lost>>
clientVars == <<ptr, wrote>>

Frames == 0..(pool_size_ - 1)
NoFrame == -1

Page == [data_ : Value, page_id_ : PageIds \cup {INVALID_PAGE_ID},
         pin_count_ : Nat, is_dirty_ : BOOLEAN]
EmptyPage == [data_ |-> Zero, page_id_ |-> INVALID_PAGE_ID,
              pin_count_ |-> 0, is_dirty_ |-> FALSE]

Resident(p) == page_table_[p] # NoFrame

(* The page id of each frame, as WritePage and page_table_ see it. *)
PageIn(f) == frames_[f].page_id_

(* What the constructor builds: all frames empty and on the free list. *)
EmptyFrames == [f \in Frames |-> EmptyPage]
EmptyTable == [p \in PageIds |-> NoFrame]
FullFreeList == [i \in 1..pool_size_ |-> i - 1]

NoPtr == [c \in Clients |-> EmptyTable]
NoWrites == [c \in Clients |-> {}]

Init ==
  /\ frames_ = EmptyFrames /\ page_table_ = EmptyTable
  /\ free_list_ = FullFreeList /\ replacer_ = EmptyReplacer
  /\ disk = NewDisk
  /\ ptr = NoPtr /\ wrote = NoWrites
  /\ faults = 0 /\ lost = {}

-----------------------------------------------------------------------------
(* The device takes the write in hand, or not. *)
Fault(dev) ==
  /\ dev # "accepts" => faults < MaxFaults /\ disk.db_io_ = "good"
  /\ faults' = IF dev = "accepts" THEN faults ELSE faults + 1

(* What is lost when the device does this to a write of page p. *)
Losing(p, dev) == IF dev = "loses" THEN {p} ELSE {}

NoFault == UNCHANGED faults /\ lost' = {}

(***************************************************************************)
(* GetFreeFrame.  FreeFrame(f) holds of the frame it returns, if it        *)
(* returns one; the other operators give the state it leaves.  The frame   *)
(* itself is overwritten by both callers.                                  *)
(***************************************************************************)
Evicting == free_list_ = << >>

FreeFrame(f) == IF Evicting THEN IsVictim(replacer_, f) ELSE f = Head(free_list_)

(* Mistake: a victim is dropped whether it is dirty or not. *)
WritesBack_Never(f) == FALSE

WritesBack(f) == Evicting /\ frames_[f].is_dirty_

WriteBack(f, dev) ==
  IF WritesBack(f) THEN WritePage(disk, PageIn(f), frames_[f].data_, dev)
                   ELSE disk

(* Mistake: the victim stays in the page table. *)
TableAfter_NoErase(f) == page_table_

(* Mistake: the frame taken stays on the free list. *)
ListAfter_NoPop == free_list_

ListAfter == IF Evicting THEN free_list_ ELSE Tail(free_list_)
TableAfter(f) ==
  IF Evicting THEN [page_table_ EXCEPT ![PageIn(f)] = NoFrame] ELSE page_table_
ReplacerAfter(f) == IF Evicting THEN Evict(replacer_, f) ELSE replacer_

(* GetFreeFrame returns f; a victim may have been lost in flush(). *)
GetFreeFrame(f, dev) ==
  /\ FreeFrame(f)
  /\ IF WritesBack(f) THEN ~WriteThrows(disk, dev) ELSE dev = "accepts"
  /\ lost' = Losing(PageIn(f), dev)

(* The write-back of the victim throws: Evict has already forgotten the    *)
(* frame, and nothing else has changed.  NewPage and FetchPage both leave  *)
(* through this exception.                                                 *)
GetFreeFrameThrows(f) ==
  /\ FreeFrame(f) /\ WritesBack(f)
  /\ \E dev \in Device :
       /\ Fault(dev)
       /\ WriteThrows(disk, dev)
       /\ disk' = WriteBack(f, dev)
  /\ replacer_' = ReplacerAfter(f)
  /\ lost' = {}
  /\ UNCHANGED <<frames_, page_table_, free_list_, clientVars>>

(* NewPage and FetchPage put page p, pinned once, into the frame f that    *)
(* GetFreeFrame returned, and hand the frame to client c.                  *)
Install(c, f, p, data) ==
  /\ frames_' = [frames_ EXCEPT ![f] = [data_ |-> data, page_id_ |-> p,
                                        pin_count_ |-> 1, is_dirty_ |-> FALSE]]
  /\ page_table_' = [TableAfter(f) EXCEPT ![p] = f]
  /\ free_list_' = ListAfter
  /\ replacer_' = SetEvictable(RecordAccess(ReplacerAfter(f), f), f, FALSE)
  /\ ptr' = [ptr EXCEPT ![c][p] = f]
  /\ UNCHANGED wrote

(* The device may fail in the write-back, or in AllocatePage. *)
NewPage(c, f) ==
  LET p == disk.num_pages_ IN
  /\ p \in PageIds                    \* bound on the file
  /\ \E dev, alloc \in Device :
       /\ "accepts" \in {dev, alloc}
       /\ GetFreeFrame(f, dev)
       /\ Fault(IF dev = "accepts" THEN alloc ELSE dev)
       /\ disk' = AllocatePage(WriteBack(f, dev), alloc)
  /\ Install(c, f, p, Zero)

(* ReadPage asserts that p is an allocated page. *)
CanFetch(c, p) == p < disk.num_pages_ /\ ptr[c][p] = NoFrame

FetchHit(c, p) ==
  LET f == page_table_[p] IN
  /\ CanFetch(c, p) /\ Resident(p)
  /\ frames_' = [frames_ EXCEPT ![f].pin_count_ = @ + 1]
  /\ replacer_' = SetEvictable(RecordAccess(replacer_, f), f, FALSE)
  /\ ptr' = [ptr EXCEPT ![c][p] = f]
  /\ UNCHANGED <<page_table_, free_list_, disk, wrote>> /\ NoFault

FetchMiss(c, p, f) ==
  /\ CanFetch(c, p) /\ ~Resident(p)
  /\ \E dev \in Device :
       LET d == WriteBack(f, dev) IN
       /\ GetFreeFrame(f, dev)
       /\ Fault(dev)
       /\ disk' = ReadPage(d)
       /\ Install(c, f, p, ReadData(d, p))

(* A client writes to a page through its Page*. *)
WriteData(c, p, v) ==
  /\ ptr[c][p] # NoFrame
  /\ frames_' = [frames_ EXCEPT ![ptr[c][p]].data_ = v]
  /\ wrote' = [wrote EXCEPT ![c] = @ \cup {p}]
  /\ UNCHANGED <<page_table_, free_list_, replacer_, disk, ptr>> /\ NoFault

(* Mistake: the last caller decides whether the page is dirty. *)
DirtyAfterUnpin_Assign(f, is_dirty) == is_dirty

DirtyAfterUnpin(f, is_dirty) == frames_[f].is_dirty_ \/ is_dirty

(* Mistake: off by one in the test for the last pin. *)
ReplacerAfterUnpin_OffByOne(f, pins) ==
  IF pins = 1 THEN SetEvictable(replacer_, f, TRUE) ELSE replacer_

ReplacerAfterUnpin(f, pins) ==
  IF pins = 0 THEN SetEvictable(replacer_, f, TRUE) ELSE replacer_

UnpinPage(c, p, is_dirty) ==
  LET f == page_table_[p]
      pins == frames_[f].pin_count_ - 1
  IN
  /\ ptr[c][p] # NoFrame /\ (p \in wrote[c] => is_dirty)
  /\ Resident(p) /\ frames_[f].pin_count_ # 0
  /\ frames_' = [frames_ EXCEPT ![f].is_dirty_ = DirtyAfterUnpin(f, is_dirty),
                                ![f].pin_count_ = pins]
  /\ replacer_' = ReplacerAfterUnpin(f, pins)
  /\ ptr' = [ptr EXCEPT ![c][p] = NoFrame]
  /\ wrote' = [wrote EXCEPT ![c] = @ \ {p}]
  /\ UNCHANGED <<page_table_, free_list_, disk>> /\ NoFault

FlushPage(p) ==
  LET f == page_table_[p] IN
  /\ Resident(p)
  /\ \E dev \in Device :
       /\ Fault(dev)
       /\ disk' = WritePage(disk, p, frames_[f].data_, dev)
       /\ frames_' = IF WriteThrows(disk, dev) THEN frames_
                     ELSE [frames_ EXCEPT ![f].is_dirty_ = FALSE]
       /\ lost' = Losing(p, dev)
  /\ UNCHANGED <<page_table_, free_list_, replacer_, clientVars>>

DirtyPages == {p \in PageIds : Resident(p) /\ frames_[page_table_[p]].is_dirty_}

(* The pages of S reach the file, each with the contents of its frame. *)
WrittenOut(S) == [disk EXCEPT !.file = [p \in PageIds |->
                    IF p \in S THEN frames_[page_table_[p]].data_ ELSE @[p]],
                  !.size = Max({@} \cup {p + 1 : p \in S})]

Cleaned(S) == [f \in Frames |->
  IF PageIn(f) \in S THEN [frames_[f] EXCEPT !.is_dirty_ = FALSE] ELSE frames_[f]]

(* Mistake: is_dirty_ is reset before WritePage is called. *)
CleanAfterFailure_Early(S, p, dev) == S \cup {p}

(* Which pages are clean when the device does not take page p after S. *)
CleanAfterFailure(S, p, dev) == IF WriteThrows(disk, dev) THEN S ELSE S \cup {p}

(* FlushAllPages writes the dirty pages in the order of the hash table.  S *)
(* are those that reach the file: all, or those before the first page the  *)
(* device does not take.  That one makes WritePage throw, or else the      *)
(* dirty page after it does, if there is one.                              *)
FlushAllPages(S) ==
  /\ S \subseteq DirtyPages
  /\ S # {} => disk.db_io_ = "good"
  /\ \/ /\ S = DirtyPages
        /\ disk' = WrittenOut(S) /\ frames_' = Cleaned(S) /\ NoFault
     \/ \E p \in DirtyPages \ S, dev \in Device :
          /\ dev # "accepts" \/ disk.db_io_ # "good"
          /\ Fault(dev)
          /\ disk' = WritePage(WrittenOut(S), p, frames_[page_table_[p]].data_, dev)
          /\ frames_' = Cleaned(CleanAfterFailure(S, p, dev))
          /\ lost' = Losing(p, dev)
  /\ UNCHANGED <<page_table_, free_list_, replacer_, clientVars>>

DeletePage(p) ==
  LET f == page_table_[p] IN
  /\ Resident(p) /\ frames_[f].pin_count_ = 0
  /\ page_table_' = [page_table_ EXCEPT ![p] = NoFrame]
  /\ replacer_' = RemoveFrame(replacer_, f)
  /\ free_list_' = Append(free_list_, f)
  /\ frames_' = [frames_ EXCEPT ![f] = EmptyPage]
  /\ UNCHANGED <<disk, clientVars>> /\ NoFault

(* A new pool is built over the file, which holds the pages of d. *)
Reopen(d) ==
  /\ frames_' = EmptyFrames /\ page_table_' = EmptyTable
  /\ free_list_' = FullFreeList /\ replacer_' = EmptyReplacer
  /\ disk' = Open(d)
  /\ ptr' = NoPtr /\ wrote' = NoWrites
  /\ NoFault

(* The destructor, called when no client is left, flushes all pages; then *)
(* the file is opened again and a new pool is built.  An exception in the *)
(* destructor ends the process, which is FlushAllPages and then Crash; so *)
(* is, to the next pool, a page lost in flush() by the destructor.        *)
Restart ==
  /\ ptr = NoPtr
  /\ DirtyPages # {} => disk.db_io_ = "good"
  /\ Reopen(WrittenOut(DirtyPages))

(* The process dies; the file survives and a new process opens it. *)
Crash == Reopen(disk)

(* The calls of the pool that delete no page. *)
Calls ==
  \/ \E c \in Clients, f \in Frames : NewPage(c, f)
  \/ \E c \in Clients, p \in PageIds : FetchHit(c, p)
  \/ \E c \in Clients, p \in PageIds, f \in Frames : FetchMiss(c, p, f)
  \/ \E f \in Frames : GetFreeFrameThrows(f)
  \/ \E c \in Clients, p \in PageIds, d \in BOOLEAN : UnpinPage(c, p, d)
  \/ \E p \in PageIds : FlushPage(p)
  \/ \E S \in SUBSET PageIds : FlushAllPages(S)
  \/ Restart

(* What happens while no page is deleted and the process lives. *)
KeepNext ==
  \/ Calls
  \/ \E c \in Clients, p \in PageIds, v \in Value : WriteData(c, p, v)

Next ==
  \/ KeepNext
  \/ \E p \in PageIds : DeletePage(p)
  \/ Crash

Spec == Init /\ [][Next]_vars
KeepSpec == Init /\ [][KeepNext]_vars
-----------------------------------------------------------------------------
(* Every variable holds a value of the type its declaration states. *)
TypeOK ==
  /\ frames_ \in [Frames -> Page]
  /\ page_table_ \in [PageIds -> Frames \cup {NoFrame}]
  /\ free_list_ \in Seq(Frames)
  /\ replacer_ \in [lru_list_ : Seq(Frames), evictable_ : SUBSET Frames]
  /\ disk \in [file : [PageIds -> Value], size : 0..MaxPages,
              num_pages_ : 0..MaxPages, db_io_ : {"good", "bad"}]
  /\ ptr \in [Clients -> [PageIds -> Frames \cup {NoFrame}]]
  /\ wrote \in [Clients -> SUBSET PageIds]
  /\ faults \in 0..MaxFaults /\ lost \in SUBSET PageIds

(* page_table_ and the page ids of the frames are inverse to each other:   *)
(* no page is ever in two frames, whatever is evicted, deleted or fails.   *)
TableMatchesFrames ==
  \A p \in PageIds, f \in Frames : page_table_[p] = f <=> PageIn(f) = p

(* Every frame has one owner: the free list holds, once each, exactly the  *)
(* frames without a page, and the replacer lists only frames with a page,  *)
(* once each.  A frame is never handed out twice; that none stays outside  *)
(* both is the second half of ReplacerOffersUnpinned.                      *)
FramesHaveOneOwner ==
  /\ IsInjective(free_list_) /\ IsInjective(replacer_.lru_list_)
  /\ \A f \in Frames : f \in Range(free_list_) <=> PageIn(f) = INVALID_PAGE_ID
  /\ \A f \in Range(replacer_.lru_list_) : PageIn(f) # INVALID_PAGE_ID

(* The clients that hold a Page* to frame f as page p. *)
Holders(p, f) == {c \in Clients : ptr[c][p] = f}

(* A Page* a client holds keeps pointing to the page it was given for, and *)
(* the pin count of a frame is the number of clients that hold it:  a page *)
(* in use is never evicted (page.h:8) and none stays pinned for nobody.    *)
PinsAreHolders ==
  /\ \A c \in Clients, p \in PageIds :
       ptr[c][p] # NoFrame => page_table_[p] = ptr[c][p]
  /\ \A p \in PageIds : Resident(p) =>
       frames_[page_table_[p]].pin_count_ = Cardinality(Holders(p, page_table_[p]))

(* Frames with an unpinned page that the replacer will never offer. *)
Stranded == {f \in Frames : /\ PageIn(f) # INVALID_PAGE_ID
                            /\ frames_[f].pin_count_ = 0
                            /\ f \notin replacer_.evictable_}

(* The replacer never offers a frame that is pinned or empty, and while no *)
(* write has failed it misses no unpinned page: the pool is full only when *)
(* every frame is pinned.  (A victim whose write-back throws is Stranded   *)
(* until its page is fetched again.)                                       *)
ReplacerOffersUnpinned ==
  /\ \A f \in replacer_.evictable_ :
       f \in Range(replacer_.lru_list_) /\ frames_[f].pin_count_ = 0
  /\ faults = 0 => Stranded = {}

(* No write is lost: while no write has failed, a page whose               *)
(* contents differ from the file is marked dirty, or is pinned by a client *)
(* that wrote to it and still has to unpin it as dirty.                    *)
NoLostWrite ==
  faults = 0 =>
    \A p \in PageIds : Resident(p) /\ frames_[page_table_[p]].data_ # disk.file[p] =>
       \/ frames_[page_table_[p]].is_dirty_
       \/ \E c \in Holders(p, page_table_[p]) : p \in wrote[c]

(* The contents of a page: its frame if it is resident, else the file. *)
CurrentData == [p \in PageIds |->
  IF Resident(p) THEN frames_[page_table_[p]].data_ ELSE disk.file[p]]

(* What a step may do to a dirty page p: leave it dirty, with its contents *)
(* or with what a client now writes to it; bring its contents to the file; *)
(* lose them in flush(); delete it, or die.                                *)
KeptOrWritten(p) ==
  \/ /\ p \in DirtyPages'
     /\ \/ CurrentData'[p] = CurrentData[p]
        \/ \E c \in Clients, v \in Value : WriteData(c, p, v)
  \/ disk'.file[p] = CurrentData[p]
  \/ lost' = {p}
  \/ DeletePage(p) \/ Crash

(* Whatever the device does, a dirty page keeps its mark and its contents  *)
(* until the contents are in the file: an exception of WritePage in an     *)
(* eviction or half way through FlushAllPages unmarks no page that was not *)
(* written.  Only a failure in flush(), which WritePage does not notice,   *)
(* loses one, and only the page in hand.                                   *)
DirtyUntilWritten == [][\A p \in DirtyPages : KeptOrWritten(p)]_vars

(* What the other invariants rest on: a pinned frame is listed by the      *)
(* replacer, only allocated pages are resident, and until a write has been *)
(* rejected the stream is good and num_pages_ is the length of the file.   *)
Bookkeeping ==
  /\ \A f \in Frames : frames_[f].pin_count_ > 0 => f \in Range(replacer_.lru_list_)
  /\ \A p \in PageIds : Resident(p) => p < disk.num_pages_
  /\ faults = 0 => disk.db_io_ = "good" /\ disk.size = disk.num_pages_

(* PageStore as the pool implements it: the current version of a page is   *)
(* what a fetch returns, the durable one is the file, and a client holds   *)
(* the pages it has a Page* to.                                            *)
HeldPages == [c \in Clients |-> {p \in PageIds : ptr[c][p] # NoFrame}]

Store == INSTANCE PageStore WITH
           pages <- disk.num_pages_, current <- CurrentData, durable <- disk.file,
           held <- HeldPages

(* Unless a page is deleted or the process dies, nothing a client wrote is *)
(* lost or changed: a write through a Page* changes the page it was given  *)
(* for and no other, and no call changes any page, be it an eviction, a    *)
(* flush, a fetch, or closing the pool and opening the file again.         *)
KeepsPageStore ==
  /\ Store!KeepSpec
  /\ [][\/ UNCHANGED CurrentData
        \/ disk'.num_pages_ > disk.num_pages_
        \/ \E c \in Clients, p \in PageIds, v \in Value :
             WriteData(c, p, v) /\ Store!Write(c, p, v)]_vars

(* With deletions and crashes, too, every step is the step of PageStore of *)
(* its name: DeletePage gives up the page it deletes, a crash what is not  *)
(* in the file, and nothing else gives up anything.                        *)
ImplementsPageStore ==
  /\ Store!Spec
  /\ [][/\ KeepNext => Store!KeepNext \/ UNCHANGED Store!storeVars
        /\ \A p \in PageIds : DeletePage(p) => Store!Delete(p)
        /\ Crash => Store!Crash]_vars

==============================================================================
