----------------------------- MODULE BufferPool -----------------------------
(***************************************************************************)
(* The page cache of src/data_storage/buffer_pool.rs over the MemoryIO     *)
(* disk of src/data_storage/storage.rs, at the granularity of its locks.   *)
(*                                                                         *)
(* An actor is a PageRef: the call of get_page_ref that creates it, the    *)
(* reads and writes done through it, and the drop that unpins it.  A       *)
(* thread owns several PageRefs and runs one call at a time.  A step is    *)
(* what a call does between two points at which another thread can         *)
(* observe or disturb it: page_table, evict_queue, unused_frames and the   *)
(* disk are each locked for one statement, so a statement on one of them   *)
(* is one step; the RwLock of a frame is held across statements, so its    *)
(* holder is visible as a label in Holding.  Taking a frame's lock is      *)
(* merged with the statement after it, because nobody else can touch that  *)
(* frame in between.                                                       *)
(*                                                                         *)
(* A panic unwinds the thread: the guard it holds poisons the frame, its   *)
(* other PageRefs are dropped, and a panic during these drops aborts the   *)
(* process.  Arithmetic panics on overflow, as in the debug and test       *)
(* profiles.                                                               *)
(***************************************************************************)
EXTENDS Integers, Sequences, FiniteSets, SequencesExt

CONSTANTS
    Threads,          \* client threads
    Ref,              \* PageRefs, pairs of the thread they belong to and a number
    Size,             \* frames of the pool
    MaxPages,         \* bound: pages that new_page may allocate
    Value,            \* contents of a page
    Zero,             \* the content of a page just allocated
    NoPage,           \* None, as page_id of an empty frame
    NoFrame,          \* absence of a page from page_table
    OverlappingGets   \* may two threads be inside get_page_ref at once

Frame  == 0 .. (Size - 1)
PageID == 0 .. (MaxPages - 1)
Owner(r) == r[1]

ASSUME PoolAssumption ==
    /\ Size \in Nat /\ MaxPages \in Nat
    /\ IsFiniteSet(Ref) /\ Ref \subseteq Threads \X Nat
    /\ Zero \in Value
    /\ NoPage \notin PageID /\ NoFrame \notin Frame
    /\ OverlappingGets \in BOOLEAN

VARIABLES
    pages,          \* the PageSlot in each frame
    page_table,     \* the frame each page is cached in
    evict_queue,    \* frames that may be evicted, next victim first
    unused_frames,  \* stack of frames never used
    disk,           \* MemoryIO: content of each page
    num_pages,      \* MemoryIO: pages allocated so far, ids 0 .. num_pages-1
    refs,           \* each PageRef: its page and where the call on it stands
    poisoned,       \* frames whose RwLock is poisoned
    unwinding,      \* threads that panicked
    aborted         \* a second panic while unwinding ended the process

tableVars == <<page_table, evict_queue, unused_frames>>
diskVars  == <<disk, num_pages>>
panicVars == <<poisoned, unwinding, aborted>>
vars == <<pages, tableVars, diskVars, refs, panicVars>>

PageSlot == [page_id : PageID \cup {NoPage}, content : Value,
             pins : Nat, is_dirty : BOOLEAN]

\* Inside get_page_ref, the calls that the constant OverlappingGets is about.
Getting == {"pin", "pin_lock", "dequeue", "victim", "evict_lock", "remap", "load"}
\* The write lock of the frame is held.
Holding == {"dequeue", "enqueue", "remap", "load"}
\* No call is in progress.
Resting == {"free", "held"}
Label == Getting \cup Holding \cup Resting \cup
         {"read_lock", "write_lock", "unpin_lock"}

\* frame is the frame a call looked up or took as its victim, target the one
\* that pin or unpin looked up for the evict queue.
RefState == [at : Label, page_id : PageID \cup {NoPage},
             frame : Frame \cup {NoFrame}, target : Frame \cup {NoFrame}]

Free == [at |-> "free", page_id |-> NoPage, frame |-> NoFrame, target |-> NoFrame]
Held(p) == [Free EXCEPT !.at = "held", !.page_id = p]

Locked(f)  == \E r \in Ref : refs[r].at \in Holding /\ refs[r].frame = f
CanLock(f) == ~Locked(f) /\ f \notin poisoned
Idle(t)    == \A r \in Ref : Owner(r) = t => refs[r].at \in Resting
Mapped(r)  == page_table[refs[r].page_id] # NoFrame

Init ==
    /\ pages = [f \in Frame |-> [page_id |-> NoPage, content |-> Zero,
                                 pins |-> 0, is_dirty |-> FALSE]]
    /\ page_table = [p \in PageID |-> NoFrame]
    /\ evict_queue = <<>>
    /\ unused_frames = [i \in 1 .. Size |-> i - 1]
    /\ disk = [p \in PageID |-> Zero]
    /\ num_pages = 0
    /\ refs = [r \in Ref |-> Free]
    /\ poisoned = {} /\ unwinding = {} /\ aborted = FALSE

-----------------------------------------------------------------------------
(* Steps shared by the calls. *)

Become(r, s)  == refs' = [refs EXCEPT ![r] = s]
Goto(r, label) == refs' = [refs EXCEPT ![r].at = label]

\* The thread of r panics.  A PageRef in use survives until it is unwound;
\* one being created or dropped is gone.
Panic(r) ==
    /\ Become(r, IF refs[r].at \in {"held", "read_lock", "write_lock"}
                 THEN Held(refs[r].page_id) ELSE Free)
    /\ aborted' = (Owner(r) \in unwinding)
    /\ unwinding' = unwinding \cup {Owner(r)}

\* page(): find the frame of r's page; the unwrap panics on a miss.
FindFrame(r, found) ==
    /\ IF Mapped(r)
       THEN /\ Become(r, [refs[r] EXCEPT !.at = found,
                                         !.frame = page_table[refs[r].page_id]])
            /\ UNCHANGED <<unwinding, aborted>>
       ELSE Panic(r)
    /\ UNCHANGED <<pages, tableVars, diskVars, poisoned>>

\* write().unwrap() and read().unwrap() on a poisoned lock.
PoisonPanic(r) ==
    /\ refs[r].at \in {"pin_lock", "unpin_lock", "evict_lock", "read_lock", "write_lock"}
    /\ ~Locked(refs[r].frame) /\ refs[r].frame \in poisoned
    /\ Panic(r)
    /\ UNCHANGED <<pages, tableVars, diskVars, poisoned>>

\* A panic under the write guard of frame f poisons its lock.
PanicLocked(r) ==
    /\ Panic(r)
    /\ poisoned' = poisoned \cup {refs[r].frame}

\* self.frame(page_id) under the write guard, for the evict queue.
FindTarget(r, found) ==
    IF Mapped(r)
    THEN /\ Become(r, [refs[r] EXCEPT !.at = found,
                                      !.target = page_table[refs[r].page_id]])
         /\ UNCHANGED panicVars
    ELSE PanicLocked(r)

-----------------------------------------------------------------------------
(* BufferPool::new_page *)

NewPage ==
    /\ \E t \in Threads \ unwinding : Idle(t)
    /\ num_pages < MaxPages
    /\ disk' = [disk EXCEPT ![num_pages] = Zero]
    /\ num_pages' = num_pages + 1
    /\ UNCHANGED <<pages, tableVars, refs, panicVars>>

-----------------------------------------------------------------------------
(* BufferPool::get_page_ref *)

\* The lookup that decides between pinning a cached page and loading it.
BeginGet(r, p) ==
    /\ refs[r].at = "free" /\ Idle(Owner(r)) /\ Owner(r) \notin unwinding
    /\ p < num_pages
    /\ OverlappingGets \/ \A s \in Ref : refs[s].at \notin Getting
    /\ Become(r, [Free EXCEPT !.page_id = p,
                     !.at = IF page_table[p] # NoFrame THEN "pin" ELSE "victim"])
    /\ UNCHANGED <<pages, tableVars, diskVars, panicVars>>

PinFind(r) == refs[r].at = "pin" /\ FindFrame(r, "pin_lock")

UnpinInstead(slot) == [slot EXCEPT !.pins = @ - 1]   \* mutant
PinnedSlot(slot) == [slot EXCEPT !.pins = @ + 1]

PinLock(r) ==
    LET f == refs[r].frame IN
    /\ refs[r].at = "pin_lock" /\ CanLock(f)
    /\ pages' = [pages EXCEPT ![f] = PinnedSlot(@)]
    /\ IF pages[f].pins = 0
       THEN FindTarget(r, "dequeue")
       ELSE Become(r, Held(refs[r].page_id)) /\ UNCHANGED panicVars
    /\ UNCHANGED <<tableVars, diskVars>>

\* EvictManager::remove_from_queue
LeaveInQueue(f) == evict_queue   \* mutant
RemoveFromQueue(f) == RemoveFirst(evict_queue, f)

Dequeue(r) ==
    /\ refs[r].at = "dequeue"
    /\ evict_queue' = RemoveFromQueue(refs[r].target)
    /\ Become(r, Held(refs[r].page_id))
    /\ UNCHANGED <<pages, page_table, unused_frames, diskVars, panicVars>>

\* EvictManager::victim: an unused frame, else the front of the queue, else
\* Err(NoFreeFrames) to the caller.
Victim(r) ==
    /\ refs[r].at = "victim"
    /\ \/ /\ unused_frames # <<>>
          /\ unused_frames' = Front(unused_frames)
          /\ Become(r, [refs[r] EXCEPT !.at = "evict_lock", !.frame = Last(unused_frames)])
          /\ UNCHANGED evict_queue
       \/ /\ unused_frames = <<>> /\ evict_queue # <<>>
          /\ evict_queue' = Tail(evict_queue)
          /\ Become(r, [refs[r] EXCEPT !.at = "evict_lock", !.frame = Head(evict_queue)])
          /\ UNCHANGED unused_frames
       \/ /\ unused_frames = <<>> /\ evict_queue = <<>>
          /\ Become(r, Free)
          /\ UNCHANGED <<evict_queue, unused_frames>>
    /\ UNCHANGED <<pages, page_table, diskVars, panicVars>>

\* A dirty slot has a page (DirtyHasPage): the unwrap in write_page succeeds.
NoWriteBack(slot) == disk   \* mutant
WriteBack(slot) ==
    IF slot.is_dirty THEN [disk EXCEPT ![slot.page_id] = slot.content] ELSE disk

EvictLock(r) ==
    /\ refs[r].at = "evict_lock" /\ CanLock(refs[r].frame)
    /\ disk' = WriteBack(pages[refs[r].frame])
    /\ Goto(r, "remap")
    /\ UNCHANGED <<pages, tableVars, num_pages, panicVars>>

\* page_table without the page evicted from frame f and with page p in f.
KeepsOld(old, p, f) ==   \* mutant
    [q \in PageID |-> IF q = p THEN f ELSE page_table[q]]
NeverInserts(old, p, f) ==   \* mutant
    [q \in PageID |-> IF q = old THEN NoFrame ELSE page_table[q]]
Remapped(old, p, f) ==
    [q \in PageID |-> IF q = p THEN f ELSE IF q = old THEN NoFrame ELSE page_table[q]]

Remap(r) ==
    LET f == refs[r].frame IN
    /\ refs[r].at = "remap"
    /\ page_table' = Remapped(pages[f].page_id, refs[r].page_id, f)
    /\ Goto(r, "load")
    /\ UNCHANGED <<pages, evict_queue, unused_frames, diskVars, panicVars>>

\* PageSlot::load_new
LoadedUnpinned(p, content) ==   \* mutant
    [page_id |-> p, content |-> content, pins |-> 0, is_dirty |-> FALSE]
LoadedNameless(p, content) ==   \* mutant
    [page_id |-> NoPage, content |-> content, pins |-> 1, is_dirty |-> FALSE]
LoadedSlot(p, content) ==
    [page_id |-> p, content |-> content, pins |-> 1, is_dirty |-> FALSE]

Load(r) ==
    LET p == refs[r].page_id IN
    /\ refs[r].at = "load"
    /\ pages' = [pages EXCEPT ![refs[r].frame] = LoadedSlot(p, disk[p])]
    /\ Become(r, Held(p))
    /\ UNCHANGED <<tableVars, diskVars, panicVars>>

-----------------------------------------------------------------------------
(* A PageRef in use: Deref to the RwLock of its frame, read() or write(). *)

BeginUse(r, mode) ==
    /\ refs[r].at = "held" /\ Idle(Owner(r)) /\ Owner(r) \notin unwinding
    /\ FindFrame(r, mode)

Read(r) ==
    /\ refs[r].at = "read_lock" /\ CanLock(refs[r].frame)
    /\ Become(r, Held(refs[r].page_id))
    /\ UNCHANGED <<pages, tableVars, diskVars, panicVars>>

\* DerefMut marks the slot dirty before the bytes change.
WrittenSlot(slot, v) == [slot EXCEPT !.content = v, !.is_dirty = TRUE]

Write(r, v) ==
    LET f == refs[r].frame IN
    /\ refs[r].at = "write_lock" /\ CanLock(f)
    /\ pages' = [pages EXCEPT ![f] = WrittenSlot(@, v)]
    /\ Become(r, Held(refs[r].page_id))
    /\ UNCHANGED <<tableVars, diskVars, panicVars>>

-----------------------------------------------------------------------------
(* Drop for PageRef: BufferPool::unpin. *)

BeginDrop(r) ==
    /\ refs[r].at = "held" /\ Idle(Owner(r))
    /\ FindFrame(r, "unpin_lock")

UnpinLock(r) ==
    LET f == refs[r].frame
        n == pages[f].pins IN
    /\ refs[r].at = "unpin_lock" /\ CanLock(f)
    /\ IF n = 0
       THEN PanicLocked(r) /\ UNCHANGED pages
       ELSE /\ pages' = [pages EXCEPT ![f].pins = n - 1]
            /\ IF n = 1
               THEN FindTarget(r, "enqueue")
               ELSE Become(r, Free) /\ UNCHANGED panicVars
    /\ UNCHANGED <<tableVars, diskVars>>

\* EvictManager::add_to_queue
NeverQueues(f) == evict_queue   \* mutant
AddToQueue(f) ==
    IF Contains(evict_queue, f) THEN evict_queue ELSE Append(evict_queue, f)

Enqueue(r) ==
    /\ refs[r].at = "enqueue"
    /\ evict_queue' = AddToQueue(refs[r].target)
    /\ Become(r, Free)
    /\ UNCHANGED <<pages, page_table, unused_frames, diskVars, panicVars>>

-----------------------------------------------------------------------------
GetStep(r) ==
    \/ PinFind(r) \/ PinLock(r) \/ Dequeue(r)
    \/ Victim(r) \/ EvictLock(r) \/ Remap(r) \/ Load(r)

UseStep(r) == Read(r) \/ \E v \in Value : Write(r, v)

DropStep(r) == UnpinLock(r) \/ Enqueue(r)

Begin(r) ==
    \/ \E p \in PageID : BeginGet(r, p)
    \/ BeginUse(r, "read_lock") \/ BeginUse(r, "write_lock")
    \/ BeginDrop(r)

\* The process is gone, or every thread unwound to its end.
Stopped ==
    /\ aborted \/ (Threads \subseteq unwinding /\ \A r \in Ref : refs[r] = Free)
    /\ UNCHANGED vars

Next ==
    \/ /\ ~aborted
       /\ \/ NewPage
          \/ \E r \in Ref : Begin(r) \/ GetStep(r) \/ UseStep(r) \/ DropStep(r)
                            \/ PoisonPanic(r)
    \/ Stopped

Spec == Init /\ [][Next]_vars

-----------------------------------------------------------------------------
(* Properties *)

TypeOK ==
    /\ pages \in [Frame -> PageSlot]
    /\ page_table \in [PageID -> Frame \cup {NoFrame}]
    /\ evict_queue \in Seq(Frame) /\ unused_frames \in Seq(Frame)
    /\ disk \in [PageID -> Value] /\ num_pages \in 0 .. MaxPages
    /\ refs \in [Ref -> RefState]
    /\ poisoned \subseteq Frame /\ unwinding \subseteq Threads /\ aborted \in BOOLEAN

Loader(f) == {r \in Ref : refs[r].at = "load" /\ refs[r].frame = f}

\* The page table never misleads the holder of a frame's lock: a page that it
\* maps to a frame is the page in that frame, or the one that the call which
\* holds the frame's lock is about to load there (get_page_ref, lines 237-253).
TableSound ==
    \A p \in PageID, f \in Frame : page_table[p] = f =>
        IF Loader(f) = {} THEN pages[f].page_id = p
                          ELSE \A r \in Loader(f) : refs[r].page_id = p

\* Only a frame that holds a page is ever written, so the write-back of an
\* eviction always knows its page (write_page, line 269, unwraps page_id).
DirtyHasPage == \A f \in Frame : pages[f].is_dirty => pages[f].page_id # NoPage

\* PageRefs that pages[f].pins counts: from the increment of pin or load_new
\* to the decrement of unpin.
Counted(r) == refs[r].at \in {"dequeue", "held", "read_lock", "write_lock", "unpin_lock"}

\* Every pin count is the number of live PageRefs to the page in the frame
\* (pin, unpin, load_new), whatever calls are half done.
PinsCountRefs ==
    \A f \in Frame : pages[f].pins =
        Cardinality({r \in Ref : Counted(r) /\ refs[r].page_id = pages[f].page_id})

\* A page with a live PageRef stays cached, in a frame that holds it, until
\* the last reference is dropped: eviction never takes a pinned page.
PinnedStaysCached ==
    \A r \in Ref : Counted(r) => Mapped(r)
                                /\ pages[page_table[refs[r].page_id]].page_id = refs[r].page_id

\* The frames that a call took off the evict queue or the unused stack, or has
\* yet to put on the queue.
Taken(f) == \E r \in Ref : /\ refs[r].at \in {"evict_lock", "remap", "load", "enqueue"}
                          /\ refs[r].frame = f
BeingDequeued(f) == \E r \in Ref : refs[r].at = "dequeue" /\ refs[r].target = f

\* No frame is lost and none is in two places: each is unused, or evictable, or
\* pinned, or in the hands of one call (victim, add_to_queue,
\* remove_from_queue, pin, unpin).
FramesAccounted ==
    \A f \in Frame :
        LET unused    == Contains(unused_frames, f)
            evictable == Contains(evict_queue, f) /\ ~BeingDequeued(f)
            pinned    == pages[f].pins > 0 /\ ~Taken(f)
        IN  Cardinality({h \in 1 .. 4 : <<unused, evictable, pinned, Taken(f)>>[h]}) = 1

\* No unwrap of a lookup or of a lock and no arithmetic of the pool panics.
NoPanic == unwinding = {}

\* A page is cached in at most one frame: page_table is a mapping from page id
\* to frame, and what is written through one PageRef is seen by the others.
OneFramePerPage ==
    \A f, g \in Frame : pages[f].page_id = pages[g].page_id =>
                            f = g \/ pages[f].page_id = NoPage

\* get_page_ref returns NoFreeFrames only when live PageRefs, those whose drop
\* has not returned included, hold as many distinct pages as there are frames.
ExhaustedOnlyWhenAllPinned ==
    [][\A r \in Ref : refs[r].at = "victim" /\ refs'[r].at = "free" =>
         Cardinality({refs[s].page_id : s \in {s \in Ref :
                         Counted(s) \/ refs[s].at = "enqueue"}}) = Size]_vars

-----------------------------------------------------------------------------
(* What the pool promises: a store of pages, PageStore. *)

\* The content of page p as a PageRef sees it: the cached copy once loaded,
\* the disk's until then.
Current(p) ==
    IF page_table[p] = NoFrame \/ Loader(page_table[p]) # {}
    THEN disk[p] ELSE pages[page_table[p]].content

Store == INSTANCE PageStore WITH
    Capacity  <- Size,
    store     <- [p \in PageID |-> Current(p)],
    allocated <- num_pages,
    holds     <- [r \in Ref |-> IF Counted(r) /\ refs[r].at # "dequeue"
                               THEN refs[r].page_id ELSE NoPage]

\* Evictions, write-backs and loads are invisible: the pool implements a store
\* in which a page changes only when it is written through a PageRef.
StoreSpec == Store!Spec

\* A read through a PageRef returns the page's current content.
ReadsCurrent ==
    [][\A r \in Ref : refs[r].at = "read_lock" /\ refs'[r].at = "held" =>
         pages[refs[r].frame].content = Current(refs[r].page_id)]_vars
=============================================================================
