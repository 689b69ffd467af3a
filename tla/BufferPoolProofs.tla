-------------------------- MODULE BufferPoolProofs --------------------------
(***************************************************************************)
(* What holds of the buffer pool for every number of threads, references,  *)
(* frames and pages.  In every interleaving of its calls: TypeOK,          *)
(* TableSound and DirtyHasPage, with or without OverlappingGets.  When     *)
(* calls of get_page_ref do not overlap: PinnedStaysCached, PinsCountRefs, *)
(* NoPanic, OneFramePerPage, FramesAccounted, ExhaustedOnlyWhenAllPinned;  *)
(* drops, reads, writes and allocations still overlap everything.  Then    *)
(* the pool implements the store of pages of PageStore, too: StoreSpec     *)
(* and ReadsCurrent.                                                       *)
(***************************************************************************)
EXTENDS BufferPool, TLAPS, WellFoundedInduction, FiniteSetTheorems, SequenceTheorems

(***************************************************************************)
(* RemoveFirst returns a sequence over the same elements.                  *)
(***************************************************************************)

\* Min picks an element of a nonempty set of naturals.
LEMMA MinIn ==
    ASSUME NEW I \in SUBSET Nat, I # {}
    PROVE  Min(I) \in I
<1> DEFINE R == {ss \in Nat \X Nat : ss[1] < ss[2]}
<1>0. R = OpToRel(<, Nat)
  BY DEF OpToRel
<1>1. IsWellFoundedOn(R, Nat)
  BY <1>0, NatLessThanWellFounded
<1> HIDE DEF R
<1>2. PICK x \in I : \A y \in I : ~(<<y, x>> \in R)
  BY <1>1, WFMin
<1>3. \A y \in I : x <= y
  <2> TAKE y \in I
  <2>1. <<y, x>> \notin R
    BY <1>2
  <2>2. x \in Nat /\ y \in Nat
    OBVIOUS
  <2> QED
    BY <2>1, <2>2 DEF R
<1> QED
  BY <1>3 DEF Min

\* RemoveFirst, the model of VecDeque::remove at the first position of e.
LEMMA RemoveFirstType ==
    ASSUME NEW S, NEW s \in Seq(S), NEW e
    PROVE  RemoveFirst(s, e) \in Seq(S)
<1> DEFINE I == {i \in 1 .. Len(s) : s[i] = e}
<1>1. CASE I = {}
  BY <1>1 DEF RemoveFirst
<1>2. CASE I # {}
  <2> DEFINE m == Min(I)
  <2>1. m \in 1 .. Len(s)
    BY <1>2, MinIn, I \in SUBSET Nat
  <2>2. RemoveFirst(s, e) = SubSeq(s, 1, m - 1) \o SubSeq(s, m + 1, Len(s))
    BY <1>2 DEF RemoveFirst, SelectInSeq, RemoveAt
  <2> HIDE DEF m
  <2>3. SubSeq(s, 1, m - 1) \in Seq(S)
    BY <2>1
  <2>4. SubSeq(s, m + 1, Len(s)) \in Seq(S)
    BY <2>1
  <2> QED
    BY <2>2, <2>3, <2>4
<1> QED
  BY <1>1, <1>2

\* The top of a nonempty stack and what is left of it when popped.
LEMMA LastFrontType ==
    ASSUME NEW S, NEW s \in Seq(S), s # <<>>
    PROVE  Last(s) \in S /\ Front(s) \in Seq(S)
<1>1. Len(s) \in Nat \ {0}
  OBVIOUS
<1>2. s[Len(s)] \in S
  BY <1>1
<1>3. SubSeq(s, 1, Len(s) - 1) \in Seq(S)
  BY <1>1
<1> QED
  BY <1>2, <1>3 DEF Last, Front

-----------------------------------------------------------------------------
(***************************************************************************)
(* The inductive invariant.  TableSound is not inductive alone: when a     *)
(* call remaps a frame, it matters that no other call holds the frame's    *)
(* lock, and when a write marks a slot dirty, that the frame was found in  *)
(* the page table and so has been loaded since, or is being loaded.        *)
(***************************************************************************)

\* The fields a call relies on were set on the way to its label.
FrameLabel == {"pin_lock", "dequeue", "evict_lock", "remap", "load",
               "read_lock", "write_lock", "unpin_lock", "enqueue"}

WellFormed(s) ==
    /\ s.at # "free" => s.page_id \in PageID
    /\ s.at \in FrameLabel => s.frame \in Frame
    /\ s.at \in {"dequeue", "enqueue"} => s.target \in Frame

FieldsSet == \A r \in Ref : WellFormed(refs[r])

\* At most one call holds the write lock of a frame across steps.
LockExclusive ==
    \A r, s \in Ref : /\ refs[r].at \in Holding /\ refs[s].at \in Holding
                      /\ refs[r].frame = refs[s].frame
                      => r = s

\* The frame a writer waits for holds a page, or a call is about to load one.
WriterFindsPage ==
    \A r \in Ref, f \in Frame : refs[r].at = "write_lock" /\ refs[r].frame = f =>
        pages[f].page_id # NoPage \/ Loader(f) # {}

IInv == /\ TypeOK /\ FieldsSet /\ LockExclusive
        /\ TableSound /\ DirtyHasPage /\ WriterFindsPage

USE PoolAssumption DEF PoolAssumption, Frame, PageID

\* The initial state of BufferPool::new satisfies the invariant.
LEMMA InitIInv == Init => IInv
<1> SUFFICES ASSUME Init PROVE IInv
  OBVIOUS
<1> USE DEF Init
<1>1. TypeOK
  <2>1. pages \in [Frame -> PageSlot]
    BY DEF PageSlot
  <2>2. unused_frames \in Seq(Frame) /\ evict_queue \in Seq(Frame)
    OBVIOUS
  <2>3. refs \in [Ref -> RefState]
    BY DEF RefState, Free, Label, Resting
  <2>4. page_table \in [PageID -> Frame \cup {NoFrame}] /\ disk \in [PageID -> Value]
    OBVIOUS
  <2>5. num_pages \in 0 .. MaxPages
    OBVIOUS
  <2>6. poisoned \subseteq Frame /\ unwinding \subseteq Threads /\ aborted \in BOOLEAN
    OBVIOUS
  <2> QED
    BY <2>1, <2>2, <2>3, <2>4, <2>5, <2>6, Zenon DEF TypeOK
<1>2. FieldsSet /\ LockExclusive /\ WriterFindsPage
  BY DEF FieldsSet, WellFormed, LockExclusive, WriterFindsPage, Free, Holding, FrameLabel
<1>3. TableSound /\ DirtyHasPage
  BY DEF TableSound, DirtyHasPage
<1> QED
  BY <1>1, <1>2, <1>3 DEF IInv

-----------------------------------------------------------------------------
(***************************************************************************)
(* Steps in general.                                                       *)
(***************************************************************************)

\* r may move to state s without breaking the fields it relies on or the
\* exclusion of the lock holders.
Admissible(r, s) ==
    /\ s \in RefState /\ WellFormed(s)
    /\ s.at \in Holding =>
          \A q \in Ref \ {r} : refs[q].at \in Holding => refs[q].frame # s.frame

\* An admissible move keeps FieldsSet and LockExclusive.
LEMMA AdmissibleMove ==
    ASSUME IInv, NEW r \in Ref, NEW s, Admissible(r, s), refs' = [refs EXCEPT ![r] = s]
    PROVE  refs' \in [Ref -> RefState] /\ FieldsSet' /\ LockExclusive'
<1>1. refs' \in [Ref -> RefState] /\ refs'[r] = s
      /\ \A q \in Ref \ {r} : refs'[q] = refs[q]
  BY DEF IInv, TypeOK, Admissible
<1>2. FieldsSet'
  BY <1>1 DEF IInv, FieldsSet, WellFormed, Admissible
<1>3. LockExclusive'
  BY <1>1 DEF IInv, LockExclusive, Admissible
<1> QED
  BY <1>1, <1>2, <1>3

\* A step of one call that renames no slot, leaves page_table alone and
\* neither enters nor leaves the load of a frame keeps the invariant.
LEMMA QuietStep ==
    ASSUME IInv, TypeOK', DirtyHasPage', NEW r \in Ref, NEW s, Admissible(r, s),
           refs' = [refs EXCEPT ![r] = s],
           page_table' = page_table,
           \A f \in Frame : pages'[f].page_id = pages[f].page_id,
           refs[r].at # "load", s.at # "load",
           s.at = "write_lock" =>
               pages[s.frame].page_id # NoPage \/ Loader(s.frame) # {}
    PROVE  IInv'
<1>1. \A f \in Frame : Loader(f)' = Loader(f)
  BY DEF Loader, IInv, TypeOK
<1>2. TableSound'
  <2> SUFFICES ASSUME NEW p \in PageID, NEW f \in Frame, page_table[p] = f
               PROVE  IF Loader(f) = {} THEN pages[f].page_id = p
                      ELSE \A q \in Loader(f) : refs'[q].page_id = p
    BY <1>1 DEF TableSound
  <2>1. \A q \in Loader(f) : refs'[q].page_id = refs[q].page_id
    BY DEF Loader, IInv, TypeOK
  <2> QED
    BY <2>1 DEF TableSound, IInv
<1>3. WriterFindsPage'
  <2> SUFFICES ASSUME NEW q \in Ref, NEW f \in Frame,
                      refs'[q].at = "write_lock", refs'[q].frame = f
               PROVE  pages[f].page_id # NoPage \/ Loader(f) # {}
    BY <1>1 DEF WriterFindsPage
  <2>1. CASE q = r
    BY <2>1 DEF IInv, TypeOK
  <2>2. CASE q # r
    BY <2>2 DEF IInv, TypeOK, WriterFindsPage
  <2> QED
    BY <2>1, <2>2
<1> QED
  BY <1>2, <1>3, AdmissibleMove DEF IInv

\* A panic leaves the PageRef held or gone, both of them admissible.
LEMMA PanicMove ==
    ASSUME IInv, NEW r \in Ref, Panic(r)
    PROVE  /\ unwinding' \subseteq Threads /\ aborted' \in BOOLEAN
           /\ \E s : /\ Admissible(r, s) /\ refs' = [refs EXCEPT ![r] = s]
                     /\ s.at \in {"held", "free"}
<1> DEFINE s == IF refs[r].at \in {"held", "read_lock", "write_lock"}
                THEN Held(refs[r].page_id) ELSE Free
<1>1. unwinding' \subseteq Threads /\ aborted' \in BOOLEAN
  BY DEF Panic, IInv, TypeOK, Owner
<1>2. s.at \in {"held", "free"} /\ WellFormed(s)
  BY DEF Held, Free, WellFormed, FrameLabel, IInv, FieldsSet
<1>3. s \in RefState
  BY DEF Held, Free, RefState, Label, Resting, IInv, FieldsSet, WellFormed
<1>4. refs' = [refs EXCEPT ![r] = s]
  BY DEF Panic, Become
<1> HIDE DEF s
<1>5. Admissible(r, s)
  BY <1>2, <1>3 DEF Admissible, Holding
<1> QED
  BY <1>1, <1>2, <1>4, <1>5

-----------------------------------------------------------------------------
(***************************************************************************)
(* Each action keeps the invariant.                                        *)
(***************************************************************************)

LEMMA NewPageStep == IInv /\ NewPage => IInv'
<1> SUFFICES ASSUME IInv, NewPage PROVE IInv'
  OBVIOUS
<1>1. TypeOK'
  BY DEF IInv, TypeOK, NewPage, tableVars, panicVars
<1> QED
  BY <1>1 DEF IInv, NewPage, tableVars, panicVars, FieldsSet, LockExclusive,
              TableSound, DirtyHasPage, WriterFindsPage, Loader

LEMMA BeginGetStep ==
    ASSUME IInv, NEW r \in Ref, NEW p \in PageID, BeginGet(r, p)
    PROVE  IInv'
<1> USE DEF BeginGet, Become, tableVars, diskVars, panicVars
<1> DEFINE s == [Free EXCEPT !.page_id = p,
                     !.at = IF page_table[p] # NoFrame THEN "pin" ELSE "victim"]
<1>1. Admissible(r, s) /\ s.at \in {"pin", "victim"}
  BY DEF Admissible, RefState, Label, Getting, Holding, Free, WellFormed, FrameLabel
<1>2. refs' = [refs EXCEPT ![r] = s]
  OBVIOUS
<1> HIDE DEF s
<1>3. TypeOK' /\ DirtyHasPage'
  BY <1>1, <1>2, AdmissibleMove DEF IInv, TypeOK, DirtyHasPage
<1> QED
  BY <1>1, <1>2, <1>3, QuietStep

\* page(), as called by pin, unpin, read and write.
LEMMA FindFrameStep ==
    ASSUME IInv, NEW r \in Ref,
           NEW found \in {"pin_lock", "unpin_lock", "read_lock", "write_lock"},
           refs[r].at \in {"pin", "held"}, FindFrame(r, found)
    PROVE  IInv'
<1> USE DEF FindFrame, tableVars, diskVars
<1>1. refs[r] \in RefState /\ refs[r].page_id \in PageID
  BY DEF IInv, TypeOK, FieldsSet, WellFormed
<1>2. CASE Mapped(r)
  <2> DEFINE f == page_table[refs[r].page_id]
             s == [refs[r] EXCEPT !.at = found, !.frame = f]
  <2>1. f \in Frame
    BY <1>1, <1>2 DEF Mapped, IInv, TypeOK
  <2>2. refs' = [refs EXCEPT ![r] = s] /\ UNCHANGED <<unwinding, aborted>>
    BY <1>2 DEF Become
  <2>3. s.at = found /\ s.frame = f
    BY <1>1 DEF RefState
  <2>4. Admissible(r, s)
    BY <1>1, <2>1 DEF Admissible, RefState, Label, Getting, Holding, WellFormed, FrameLabel
  <2>5. pages[f].page_id # NoPage \/ Loader(f) # {}
    BY <1>1, <2>1 DEF IInv, TableSound
  <2> HIDE DEF f, s
  <2>6. TypeOK' /\ DirtyHasPage'
    BY <2>2, <2>4, AdmissibleMove DEF IInv, TypeOK, DirtyHasPage
  <2> QED
    BY <2>2, <2>3, <2>4, <2>5, <2>6, QuietStep
<1>3. CASE ~Mapped(r)
  <2>1. Panic(r)
    BY <1>3
  <2>2. PICK s : /\ Admissible(r, s) /\ refs' = [refs EXCEPT ![r] = s]
                 /\ s.at \in {"held", "free"}
    BY <2>1, PanicMove
  <2>3. TypeOK' /\ DirtyHasPage'
    BY <2>1, <2>2, AdmissibleMove, PanicMove DEF IInv, TypeOK, DirtyHasPage
  <2> QED
    BY <2>2, <2>3, QuietStep
<1> QED
  BY <1>2, <1>3

\* An unwrap of a poisoned lock.
LEMMA PoisonPanicStep ==
    ASSUME IInv, NEW r \in Ref, PoisonPanic(r)
    PROVE  IInv'
<1> USE DEF PoisonPanic, tableVars, diskVars
<1>1. PICK s : /\ Admissible(r, s) /\ refs' = [refs EXCEPT ![r] = s]
               /\ s.at \in {"held", "free"}
  BY PanicMove
<1>2. TypeOK' /\ DirtyHasPage'
  BY <1>1, AdmissibleMove, PanicMove DEF IInv, TypeOK, DirtyHasPage
<1> QED
  BY <1>1, <1>2, QuietStep

\* frame() under the write guard, as called by pin and unpin: the call goes on
\* to the queue or panics.
LEMMA FindTargetMove ==
    ASSUME IInv, NEW r \in Ref, NEW found \in {"dequeue", "enqueue"},
           refs[r].at \in {"pin_lock", "unpin_lock"}, CanLock(refs[r].frame),
           FindTarget(r, found)
    PROVE  /\ poisoned' \subseteq Frame /\ unwinding' \subseteq Threads /\ aborted' \in BOOLEAN
           /\ \E s : /\ Admissible(r, s) /\ refs' = [refs EXCEPT ![r] = s]
                     /\ s.at \notin {"load", "write_lock"}
<1>1. refs[r] \in RefState /\ refs[r].page_id \in PageID /\ refs[r].frame \in Frame
  BY DEF IInv, TypeOK, FieldsSet, WellFormed, FrameLabel
<1>2. CASE Mapped(r)
  <2> DEFINE s == [refs[r] EXCEPT !.at = found, !.target = page_table[refs[r].page_id]]
  <2>1. refs' = [refs EXCEPT ![r] = s] /\ UNCHANGED panicVars
    BY <1>2 DEF FindTarget, Become
  <2>2. page_table[refs[r].page_id] \in Frame
    BY <1>1, <1>2 DEF Mapped, IInv, TypeOK
  <2>3. s \in RefState /\ s.at = found /\ s.frame = refs[r].frame /\ WellFormed(s)
    BY <1>1, <2>2 DEF RefState, Label, Getting, Holding, WellFormed
  <2>4. Admissible(r, s)
    BY <2>3 DEF Admissible, CanLock, Locked
  <2> QED
    BY <2>1, <2>3, <2>4 DEF panicVars, IInv, TypeOK
<1>3. CASE ~Mapped(r)
  <2>1. Panic(r) /\ poisoned' = poisoned \cup {refs[r].frame}
    BY <1>3 DEF FindTarget, PanicLocked
  <2>2. poisoned' \subseteq Frame
    BY <1>1, <2>1 DEF IInv, TypeOK
  <2> QED
    BY <2>1, <2>2, PanicMove
<1> QED
  BY <1>2, <1>3

\* The call is over and its PageRef lives, or is gone.
LEMMA RestMove ==
    ASSUME IInv, NEW r \in Ref, refs[r].at # "free",
           NEW s \in {Held(refs[r].page_id), Free}
    PROVE  Admissible(r, s) /\ s.at \in {"held", "free"}
<1>1. refs[r].page_id \in PageID
  BY DEF IInv, FieldsSet, WellFormed
<1>2. Held(refs[r].page_id) \in RefState /\ Free \in RefState
  BY <1>1 DEF Held, Free, RefState, Label, Resting
<1>3. Held(refs[r].page_id).at = "held" /\ Free.at = "free"
      /\ Held(refs[r].page_id).page_id = refs[r].page_id
  BY DEF Held, Free
<1>4. WellFormed(Held(refs[r].page_id)) /\ WellFormed(Free)
  BY <1>1, <1>3 DEF WellFormed, FrameLabel
<1> QED
  BY <1>2, <1>3, <1>4 DEF Admissible, Holding

\* pin and unpin change only the pin count of a slot.
LEMMA PinsMove ==
    ASSUME IInv, NEW f \in Frame, NEW n \in Nat, pages' = [pages EXCEPT ![f].pins = n]
    PROVE  /\ pages' \in [Frame -> PageSlot] /\ DirtyHasPage'
           /\ \A g \in Frame : pages'[g].page_id = pages[g].page_id
<1>1. pages \in [Frame -> PageSlot]
  BY DEF IInv, TypeOK
<1>2. [pages[f] EXCEPT !.pins = n] \in PageSlot
  BY <1>1 DEF PageSlot
<1>3. pages' \in [Frame -> PageSlot]
  BY <1>1, <1>2
<1>4. \A g \in Frame : /\ pages'[g].page_id = pages[g].page_id
                       /\ pages'[g].is_dirty = pages[g].is_dirty
  BY <1>1 DEF PageSlot
<1> QED
  BY <1>3, <1>4 DEF IInv, DirtyHasPage

LEMMA PinLockStep ==
    ASSUME IInv, NEW r \in Ref, PinLock(r)
    PROVE  IInv'
<1> USE DEF PinLock, tableVars, diskVars, panicVars
<1>1. refs[r].frame \in Frame
  BY DEF IInv, FieldsSet, WellFormed, FrameLabel
<1>2. /\ pages' \in [Frame -> PageSlot] /\ DirtyHasPage'
      /\ \A f \in Frame : pages'[f].page_id = pages[f].page_id
  <2>1. pages[refs[r].frame] \in PageSlot
    BY <1>1 DEF IInv, TypeOK
  <2>2. pages[refs[r].frame].pins + 1 \in Nat
    BY <2>1 DEF PageSlot
  <2>3. pages' = [pages EXCEPT ![refs[r].frame].pins = pages[refs[r].frame].pins + 1]
    BY <1>1 DEF PinnedSlot, IInv, TypeOK
  <2> QED
    BY <1>1, <2>2, <2>3, PinsMove
<1>3. /\ poisoned' \subseteq Frame /\ unwinding' \subseteq Threads /\ aborted' \in BOOLEAN
      /\ \E s : /\ Admissible(r, s) /\ refs' = [refs EXCEPT ![r] = s]
                /\ s.at \notin {"load", "write_lock"}
  <2>1. CASE pages[refs[r].frame].pins = 0
    BY <2>1, FindTargetMove
  <2>2. CASE pages[refs[r].frame].pins # 0
    BY <2>2, RestMove DEF Become, IInv, TypeOK
  <2> QED
    BY <2>1, <2>2
<1>4. TypeOK'
  BY <1>2, <1>3, AdmissibleMove DEF IInv, TypeOK
<1> QED
  BY <1>2, <1>3, <1>4, QuietStep

LEMMA UnpinLockStep ==
    ASSUME IInv, NEW r \in Ref, UnpinLock(r)
    PROVE  IInv'
<1> USE DEF UnpinLock, tableVars, diskVars, panicVars
<1> DEFINE n == pages[refs[r].frame].pins
<1>1. refs[r].frame \in Frame /\ n \in Nat
  BY DEF IInv, TypeOK, PageSlot, FieldsSet, WellFormed, FrameLabel
<1>2. /\ pages' \in [Frame -> PageSlot] /\ DirtyHasPage'
      /\ \A f \in Frame : pages'[f].page_id = pages[f].page_id
  <2>1. CASE n = 0
    BY <2>1 DEF IInv, TypeOK, DirtyHasPage
  <2>2. CASE n # 0
    <3>1. n - 1 \in Nat /\ pages' = [pages EXCEPT ![refs[r].frame].pins = n - 1]
      BY <1>1, <2>2
    <3> QED
      BY <1>1, <3>1, PinsMove
  <2> QED
    BY <2>1, <2>2
<1>3. /\ poisoned' \subseteq Frame /\ unwinding' \subseteq Threads /\ aborted' \in BOOLEAN
      /\ \E s : /\ Admissible(r, s) /\ refs' = [refs EXCEPT ![r] = s]
                /\ s.at \notin {"load", "write_lock"}
  <2>1. CASE n = 0
    <3>1. Panic(r) /\ poisoned' = poisoned \cup {refs[r].frame}
      BY <2>1 DEF PanicLocked
    <3>2. poisoned' \subseteq Frame
      BY <1>1, <3>1 DEF IInv, TypeOK
    <3> QED
      BY <3>1, <3>2, PanicMove
  <2>2. CASE n = 1
    BY <2>2, FindTargetMove
  <2>3. CASE n \notin {0, 1}
    BY <2>3, RestMove DEF Become, IInv, TypeOK
  <2> QED
    BY <2>1, <2>2, <2>3
<1>4. TypeOK'
  BY <1>2, <1>3, AdmissibleMove DEF IInv, TypeOK
<1> QED
  BY <1>2, <1>3, <1>4, QuietStep

LEMMA DequeueStep ==
    ASSUME IInv, NEW r \in Ref, Dequeue(r)
    PROVE  IInv'
<1> USE DEF Dequeue, Become, diskVars, panicVars
<1>1. Admissible(r, Held(refs[r].page_id)) /\ Held(refs[r].page_id).at \in {"held", "free"}
  BY RestMove
<1>2. evict_queue' \in Seq(Frame)
  BY RemoveFirstType DEF RemoveFromQueue, IInv, TypeOK
<1>3. TypeOK' /\ DirtyHasPage'
  BY <1>1, <1>2, AdmissibleMove DEF IInv, TypeOK, DirtyHasPage
<1> QED
  BY <1>1, <1>3, QuietStep

LEMMA EnqueueStep ==
    ASSUME IInv, NEW r \in Ref, Enqueue(r)
    PROVE  IInv'
<1> USE DEF Enqueue, Become, diskVars, panicVars
<1>1. Admissible(r, Free) /\ Free.at \in {"held", "free"}
  BY RestMove
<1>2. evict_queue' \in Seq(Frame)
  <2>1. evict_queue \in Seq(Frame) /\ refs[r].target \in Frame
    BY DEF IInv, TypeOK, FieldsSet, WellFormed
  <2>2. Append(evict_queue, refs[r].target) \in Seq(Frame)
    BY <2>1
  <2> QED
    BY <2>1, <2>2 DEF AddToQueue
<1>3. TypeOK' /\ DirtyHasPage'
  BY <1>1, <1>2, AdmissibleMove DEF IInv, TypeOK, DirtyHasPage
<1> QED
  BY <1>1, <1>3, QuietStep

LEMMA VictimStep ==
    ASSUME IInv, NEW r \in Ref, Victim(r)
    PROVE  IInv'
<1> USE DEF Victim, diskVars, panicVars
<1>0. refs[r] \in RefState /\ refs[r].page_id \in PageID
  BY DEF IInv, TypeOK, FieldsSet, WellFormed
<1>1. \A f \in Frame : LET s == [refs[r] EXCEPT !.at = "evict_lock", !.frame = f] IN
         Admissible(r, s) /\ s.at = "evict_lock"
  BY <1>0 DEF Admissible, RefState, Label, Getting, Holding, WellFormed
<1>2. /\ evict_queue' \in Seq(Frame) /\ unused_frames' \in Seq(Frame)
      /\ \E s : /\ Admissible(r, s) /\ refs' = [refs EXCEPT ![r] = s]
                /\ s.at \notin {"load", "write_lock"}
  <2>1. CASE unused_frames # <<>>
    <3>1. Last(unused_frames) \in Frame /\ Front(unused_frames) \in Seq(Frame)
      BY <2>1, LastFrontType DEF IInv, TypeOK
    <3> QED
      BY <1>1, <2>1, <3>1 DEF Become, IInv, TypeOK
  <2>2. CASE unused_frames = <<>> /\ evict_queue # <<>>
    <3>1. Head(evict_queue) \in Frame /\ Tail(evict_queue) \in Seq(Frame)
      <4>1. evict_queue \in Seq(Frame) /\ evict_queue # <<>>
        BY <2>2 DEF IInv, TypeOK
      <4> QED
        BY <4>1
    <3> QED
      BY <1>1, <2>2, <3>1 DEF Become, IInv, TypeOK
  <2>3. CASE unused_frames = <<>> /\ evict_queue = <<>>
    BY <2>3, RestMove DEF Become, IInv, TypeOK
  <2> QED
    BY <2>1, <2>2, <2>3
<1>3. TypeOK' /\ DirtyHasPage'
  BY <1>2, AdmissibleMove DEF IInv, TypeOK, DirtyHasPage
<1> QED
  BY <1>2, <1>3, QuietStep

LEMMA EvictLockStep ==
    ASSUME IInv, NEW r \in Ref, EvictLock(r)
    PROVE  IInv'
<1> USE DEF EvictLock, tableVars, panicVars
<1> DEFINE s == [refs[r] EXCEPT !.at = "remap"]
<1>0. refs[r] \in RefState /\ refs[r].page_id \in PageID /\ refs[r].frame \in Frame
  BY DEF IInv, TypeOK, FieldsSet, WellFormed, FrameLabel
<1>1. s \in RefState /\ s.at = "remap" /\ s.frame = refs[r].frame /\ WellFormed(s)
  BY <1>0 DEF RefState, Label, Getting, WellFormed
<1>2. refs' = [refs EXCEPT ![r] = s]
  BY <1>0 DEF Goto, IInv, TypeOK
<1> HIDE DEF s
<1>3. Admissible(r, s)
  BY <1>1 DEF Admissible, CanLock, Locked
<1>4. disk' \in [PageID -> Value]
  <2>1. pages[refs[r].frame].content \in Value
    BY <1>0 DEF IInv, TypeOK, PageSlot
  <2> QED
    BY <2>1 DEF WriteBack, IInv, TypeOK
<1>5. TypeOK' /\ DirtyHasPage'
  BY <1>2, <1>3, <1>4, AdmissibleMove DEF IInv, TypeOK, DirtyHasPage
<1> QED
  BY <1>1, <1>2, <1>3, <1>5, QuietStep

LEMMA ReadStep ==
    ASSUME IInv, NEW r \in Ref, Read(r)
    PROVE  IInv'
<1> USE DEF Read, Become, tableVars, diskVars, panicVars
<1>1. Admissible(r, Held(refs[r].page_id)) /\ Held(refs[r].page_id).at \in {"held", "free"}
  BY RestMove
<1>2. TypeOK' /\ DirtyHasPage'
  BY <1>1, AdmissibleMove DEF IInv, TypeOK, DirtyHasPage
<1> QED
  BY <1>1, <1>2, QuietStep

\* Only the writer of a frame without a loader gets its lock, so the slot that
\* becomes dirty has a page.
LEMMA WriteStep ==
    ASSUME IInv, NEW r \in Ref, NEW v \in Value, Write(r, v)
    PROVE  IInv'
<1> USE DEF Write, Become, tableVars, diskVars, panicVars
<1> DEFINE f == refs[r].frame
<1>1. Admissible(r, Held(refs[r].page_id)) /\ Held(refs[r].page_id).at \in {"held", "free"}
  BY RestMove
<1>2. f \in Frame /\ pages[f] \in PageSlot
  BY DEF IInv, TypeOK, FieldsSet, WellFormed, FrameLabel
<1>3. Loader(f) = {}
  BY DEF CanLock, Locked, Loader, Holding
<1>4. pages[f].page_id # NoPage
  BY <1>2, <1>3 DEF IInv, WriterFindsPage
<1>5. WrittenSlot(pages[f], v) \in PageSlot
      /\ WrittenSlot(pages[f], v).page_id = pages[f].page_id
  BY <1>2 DEF WrittenSlot, PageSlot
<1>6. /\ pages' \in [Frame -> PageSlot]
      /\ \A g \in Frame : pages'[g].page_id = pages[g].page_id
  BY <1>2, <1>5 DEF IInv, TypeOK
<1>7. DirtyHasPage'
  BY <1>2, <1>4, <1>6 DEF IInv, TypeOK, DirtyHasPage
<1>8. TypeOK'
  BY <1>1, <1>6, AdmissibleMove DEF IInv, TypeOK
<1> QED
  BY <1>1, <1>6, <1>7, <1>8, QuietStep

\* From the remap on, the only page mapped to the frame is the one being
\* loaded: every page mapped to it before was the page the slot still holds.
LEMMA RemapStep ==
    ASSUME IInv, NEW r \in Ref, Remap(r)
    PROVE  IInv'
<1> USE DEF Remap, diskVars, panicVars
<1>0. PICK f \in Frame, p \in PageID :
          refs[r] \in RefState /\ refs[r].frame = f /\ refs[r].page_id = p
  BY DEF IInv, TypeOK, FieldsSet, WellFormed, FrameLabel
<1> DEFINE s == [refs[r] EXCEPT !.at = "load"]
<1>1. s \in RefState /\ s.at = "load" /\ s.frame = f /\ s.page_id = p /\ WellFormed(s)
  BY <1>0 DEF RefState, Label, Getting, WellFormed
<1>2. refs' = [refs EXCEPT ![r] = s]
  BY <1>0 DEF Goto, IInv, TypeOK
<1> HIDE DEF s
<1>3. Admissible(r, s)
  BY <1>0, <1>1 DEF Admissible, Holding, IInv, LockExclusive
<1>4. refs' \in [Ref -> RefState] /\ FieldsSet' /\ LockExclusive'
  BY <1>0, <1>2, <1>3, AdmissibleMove
<1>5. page_table' \in [PageID -> Frame \cup {NoFrame}]
  BY <1>0 DEF Remapped, IInv, TypeOK
<1>6. TypeOK'
  BY <1>0, <1>4, <1>5 DEF IInv, TypeOK
<1>7. Loader(f) = {}
  BY <1>0 DEF Loader, IInv, LockExclusive, Holding
<1>8. Loader(f)' = {r}
  BY <1>0, <1>1, <1>2, <1>7 DEF Loader, IInv, TypeOK
<1>9. \A g \in Frame \ {f} : Loader(g)' = Loader(g)
  BY <1>0, <1>1, <1>2 DEF Loader, IInv, TypeOK
<1>10. TableSound'
  <2> SUFFICES ASSUME NEW q \in PageID, NEW g \in Frame, page_table'[q] = g
               PROVE  IF Loader(g)' = {} THEN pages[g].page_id = q
                      ELSE \A x \in Loader(g)' : refs'[x].page_id = q
    BY <1>0 DEF TableSound
  <2>1. CASE g = f
    <3>1. q = p
      BY <1>0, <1>7, <2>1 DEF Remapped, IInv, TableSound
    <3>2. refs'[r].page_id = p
      BY <1>0, <1>1, <1>2 DEF IInv, TypeOK
    <3> QED
      BY <1>8, <2>1, <3>1, <3>2
  <2>2. CASE g # f
    <3>1. page_table[q] = g
      BY <1>0, <2>2 DEF Remapped
    <3>2. \A x \in Loader(g) : refs'[x] = refs[x]
      BY <1>0, <1>1, <1>2, <2>2 DEF Loader, IInv, TypeOK
    <3> QED
      BY <1>0, <1>9, <2>2, <3>1, <3>2 DEF IInv, TableSound
  <2> QED
    BY <1>0, <2>1, <2>2
<1>11. DirtyHasPage'
  BY <1>0 DEF IInv, DirtyHasPage
<1>12. WriterFindsPage'
  <2> SUFFICES ASSUME NEW q \in Ref, NEW g \in Frame,
                      refs'[q].at = "write_lock", refs'[q].frame = g
               PROVE  pages[g].page_id # NoPage \/ Loader(g)' # {}
    BY <1>0 DEF WriterFindsPage
  <2>1. refs[q].at = "write_lock" /\ refs[q].frame = g
    BY <1>0, <1>1, <1>2 DEF IInv, TypeOK
  <2>2. CASE g = f
    BY <1>0, <1>8, <2>2
  <2>3. CASE g # f
    BY <1>0, <1>9, <2>1, <2>3 DEF IInv, WriterFindsPage
  <2> QED
    BY <1>0, <2>2, <2>3
<1> QED
  BY <1>0, <1>4, <1>6, <1>10, <1>11, <1>12 DEF IInv

LEMMA LoadStep ==
    ASSUME IInv, NEW r \in Ref, Load(r)
    PROVE  IInv'
<1> USE DEF Load, Become, tableVars, diskVars, panicVars
<1>0. PICK f \in Frame, p \in PageID :
          refs[r].frame = f /\ refs[r].page_id = p /\ disk[p] \in Value
  BY DEF IInv, TypeOK, FieldsSet, WellFormed, FrameLabel
<1> DEFINE s == Held(p)
<1>1. Admissible(r, s) /\ s.at \in {"held", "free"}
  BY <1>0, RestMove
<1> HIDE DEF s
<1>2. refs' = [refs EXCEPT ![r] = s]
  BY <1>0 DEF s
<1>3. refs' \in [Ref -> RefState] /\ FieldsSet' /\ LockExclusive'
  BY <1>0, <1>1, <1>2, AdmissibleMove
<1>4. LoadedSlot(p, disk[p]) \in PageSlot
  BY <1>0 DEF LoadedSlot, PageSlot
<1>5. /\ pages' \in [Frame -> PageSlot]
      /\ pages'[f] = LoadedSlot(p, disk[p])
      /\ \A g \in Frame \ {f} : pages'[g] = pages[g]
  BY <1>0, <1>4 DEF IInv, TypeOK
<1>6. TypeOK'
  BY <1>0, <1>3, <1>5 DEF IInv, TypeOK
<1>7. Loader(f)' = {}
  <2> SUFFICES ASSUME NEW q \in Ref, refs'[q].at = "load", refs'[q].frame = f PROVE FALSE
    BY <1>0 DEF Loader
  <2>1. q # r
    BY <1>0, <1>1, <1>2 DEF IInv, TypeOK
  <2>2. refs[q].at = "load" /\ refs[q].frame = f
    BY <1>0, <1>2, <2>1 DEF IInv, TypeOK
  <2> QED
    BY <1>0, <2>1, <2>2 DEF IInv, LockExclusive, Holding
<1>8. \A g \in Frame \ {f} : Loader(g)' = Loader(g)
  BY <1>0, <1>1, <1>2 DEF Loader, IInv, TypeOK
<1>9. TableSound'
  <2> SUFFICES ASSUME NEW q \in PageID, NEW g \in Frame, page_table[q] = g
               PROVE  IF Loader(g)' = {} THEN pages'[g].page_id = q
                      ELSE \A x \in Loader(g)' : refs'[x].page_id = q
    BY <1>0 DEF TableSound
  <2>1. CASE g = f
    <3>1. r \in Loader(f)
      BY <1>0 DEF Loader
    <3>2. q = p
      BY <1>0, <2>1, <3>1 DEF IInv, TableSound
    <3>3. pages'[f].page_id = p
      BY <1>0, <1>5 DEF LoadedSlot
    <3> QED
      BY <1>0, <1>7, <2>1, <3>2, <3>3
  <2>2. CASE g # f
    <3>1. \A x \in Loader(g) : refs'[x] = refs[x]
      BY <1>0, <1>2, <2>2 DEF Loader, IInv, TypeOK
    <3> QED
      BY <1>0, <1>5, <1>8, <2>2, <3>1 DEF IInv, TableSound
  <2> QED
    BY <1>0, <2>1, <2>2
<1>10. DirtyHasPage'
  BY <1>0, <1>5 DEF IInv, DirtyHasPage, LoadedSlot
<1>11. WriterFindsPage'
  <2> SUFFICES ASSUME NEW q \in Ref, NEW g \in Frame,
                      refs'[q].at = "write_lock", refs'[q].frame = g
               PROVE  pages'[g].page_id # NoPage \/ Loader(g)' # {}
    BY <1>0 DEF WriterFindsPage
  <2>1. CASE g = f
    BY <1>0, <1>5, <2>1 DEF LoadedSlot
  <2>2. CASE g # f
    <3>1. refs[q].at = "write_lock" /\ refs[q].frame = g
      BY <1>0, <1>1, <1>2 DEF IInv, TypeOK
    <3> QED
      BY <1>0, <1>5, <1>8, <2>2, <3>1 DEF IInv, WriterFindsPage
  <2> QED
    BY <1>0, <2>1, <2>2
<1> QED
  BY <1>0, <1>3, <1>6, <1>9, <1>10, <1>11 DEF IInv

-----------------------------------------------------------------------------
(***************************************************************************)
(* The theorems.                                                           *)
(***************************************************************************)

\* A step that changes nothing.
LEMMA StutterStep == IInv /\ UNCHANGED vars => IInv'
<1> SUFFICES ASSUME IInv, UNCHANGED vars PROVE IInv'
  OBVIOUS
<1> USE DEF vars, tableVars, diskVars, panicVars
<1>1. TypeOK' /\ FieldsSet' /\ LockExclusive' /\ DirtyHasPage'
  BY DEF IInv, TypeOK, FieldsSet, LockExclusive, DirtyHasPage
<1>2. TableSound' /\ WriterFindsPage'
  BY DEF IInv, TableSound, WriterFindsPage, Loader
<1> QED
  BY <1>1, <1>2 DEF IInv

LEMMA NextIInv == IInv /\ [Next]_vars => IInv'
<1> SUFFICES ASSUME IInv, [Next]_vars PROVE IInv'
  OBVIOUS
<1>1. CASE NewPage
  BY <1>1, NewPageStep
<1>2. ASSUME NEW r \in Ref, Begin(r) PROVE IInv'
  BY <1>2, BeginGetStep, FindFrameStep DEF Begin, BeginUse, BeginDrop
<1>3. ASSUME NEW r \in Ref, GetStep(r) PROVE IInv'
  <2>1. CASE PinFind(r)
    BY <2>1, FindFrameStep DEF PinFind
  <2> QED
    BY <1>3, <2>1, PinLockStep, DequeueStep, VictimStep, EvictLockStep, RemapStep, LoadStep
       DEF GetStep
<1>4. ASSUME NEW r \in Ref, UseStep(r) PROVE IInv'
  BY <1>4, ReadStep, WriteStep DEF UseStep
<1>5. ASSUME NEW r \in Ref, DropStep(r) PROVE IInv'
  BY <1>5, UnpinLockStep, EnqueueStep DEF DropStep
<1>6. CASE Stopped
  BY <1>6, StutterStep DEF Stopped
<1> QED
  BY <1>1, <1>2, <1>3, <1>4, <1>5, <1>6, PoisonPanicStep, StutterStep DEF Next

\* The inductive invariant holds of every reachable state.
THEOREM Invariance == Spec => []IInv
<1> QED
  BY InitIInv, NextIInv, PTL DEF Spec

\* Type correctness, whatever calls overlap.
THEOREM TypeCorrect == Spec => []TypeOK
<1>1. IInv => TypeOK
  BY DEF IInv
<1> QED
  BY <1>1, Invariance, PTL

\* Whoever holds a frame's lock can trust the page table about that frame,
\* whatever calls overlap.
THEOREM TableIsSound == Spec => []TableSound
<1>1. IInv => TableSound
  BY DEF IInv
<1> QED
  BY <1>1, Invariance, PTL

\* write_page never unwraps a missing page id, whatever calls overlap.
THEOREM DirtySlotsHavePages == Spec => []DirtyHasPage
<1>1. IInv => DirtyHasPage
  BY DEF IInv
<1> QED
  BY <1>1, Invariance, PTL
-----------------------------------------------------------------------------
(* Lookups that do not overlap. *)

(***************************************************************************)
(* Sequences in which nothing occurs twice.                                *)
(***************************************************************************)

NoRepeats(s) == \A i, j \in 1 .. Len(s) : s[i] = s[j] => i = j

\* Taking off the front or the back, and adding at the back.
LEMMA TailHas ==
    ASSUME NEW S, NEW s \in Seq(S), s # <<>>, NoRepeats(s)
    PROVE  /\ NoRepeats(Tail(s)) /\ Contains(s, Head(s)) /\ ~Contains(Tail(s), Head(s))
           /\ \A x : Contains(Tail(s), x) \/ x = Head(s) <=> Contains(s, x)
<1>1. Len(s) \in Nat \ {0} /\ Len(Tail(s)) = Len(s) - 1 /\ Head(s) = s[1]
  OBVIOUS
<1>2. \A i \in 1 .. Len(Tail(s)) : Tail(s)[i] = s[i + 1]
  BY <1>1
<1>3. NoRepeats(Tail(s)) /\ ~Contains(Tail(s), Head(s))
  BY <1>1, <1>2 DEF NoRepeats, Contains
<1>4. ASSUME NEW x PROVE Contains(Tail(s), x) \/ x = Head(s) <=> Contains(s, x)
  <2>1. ASSUME NEW i \in 1 .. Len(s), s[i] = x, x # Head(s) PROVE Contains(Tail(s), x)
    <3>1. i - 1 \in 1 .. Len(Tail(s)) /\ Tail(s)[i - 1] = x
      BY <1>1, <1>2, <2>1
    <3> QED
      BY <3>1 DEF Contains
  <2>2. ASSUME NEW i \in 1 .. Len(Tail(s)), Tail(s)[i] = x PROVE Contains(s, x)
    BY <1>1, <1>2, <2>2 DEF Contains
  <2>3. x = Head(s) => Contains(s, x)
    BY <1>1 DEF Contains
  <2> QED
    BY <2>1, <2>2, <2>3 DEF Contains
<1> QED
  BY <1>3, <1>4

LEMMA FrontHas ==
    ASSUME NEW S, NEW s \in Seq(S), s # <<>>, NoRepeats(s)
    PROVE  /\ NoRepeats(Front(s)) /\ Contains(s, Last(s)) /\ ~Contains(Front(s), Last(s))
           /\ \A x : Contains(Front(s), x) \/ x = Last(s) <=> Contains(s, x)
<1>1. Len(s) \in Nat \ {0} /\ Len(Front(s)) = Len(s) - 1 /\ Last(s) = s[Len(s)]
  <2>1. Len(s) \in Nat \ {0}
    OBVIOUS
  <2> DEFINE n == Len(s) - 1
  <2>2. n \in Nat /\ \A i \in 1 .. n : s[i] \in S
    BY <2>1
  <2> HIDE DEF n
  <2>3. Len(SubSeq(s, 1, n)) = IF 1 <= n THEN n - 1 + 1 ELSE 0
    BY <2>2, SubSeqProperties
  <2>4. Len(SubSeq(s, 1, n)) = n
    BY ONLY <2>2, <2>3
  <2> QED
    BY <2>1, <2>4 DEF Front, Last, n
<1>2. \A i \in 1 .. Len(Front(s)) : Front(s)[i] = s[i]
  BY <1>1 DEF Front
<1>3. NoRepeats(Front(s)) /\ ~Contains(Front(s), Last(s))
  BY <1>1, <1>2 DEF NoRepeats, Contains
<1>4. ASSUME NEW x PROVE Contains(Front(s), x) \/ x = Last(s) <=> Contains(s, x)
  BY <1>1, <1>2 DEF Contains
<1> QED
  BY <1>1, <1>3, <1>4 DEF Contains

LEMMA AppendHas ==
    ASSUME NEW S, NEW s \in Seq(S), NEW e \in S, NoRepeats(s), ~Contains(s, e)
    PROVE  /\ NoRepeats(Append(s, e))
           /\ \A x : Contains(Append(s, e), x) <=> Contains(s, x) \/ x = e
<1> DEFINE t == Append(s, e)
<1>1. Len(s) \in Nat /\ Len(t) = Len(s) + 1 /\ t[Len(s) + 1] = e
      /\ \A i \in 1 .. Len(s) : t[i] = s[i]
  OBVIOUS
<1> HIDE DEF t
<1>2. NoRepeats(t)
  BY <1>1 DEF NoRepeats, Contains
<1>3. ASSUME NEW x PROVE Contains(t, x) <=> Contains(s, x) \/ x = e
  BY <1>1 DEF Contains
<1> QED
  BY <1>2, <1>3 DEF t

\* RemoveFirst takes the only occurrence.
LEMMA RemoveHas ==
    ASSUME NEW S, NEW s \in Seq(S), NEW e, NoRepeats(s)
    PROVE  /\ NoRepeats(RemoveFirst(s, e))
           /\ \A x : Contains(RemoveFirst(s, e), x) <=> Contains(s, x) /\ x # e
<1> DEFINE I == {i \in 1 .. Len(s) : s[i] = e}
           t == RemoveFirst(s, e)
<1>1. CASE I = {}
  BY <1>1 DEF RemoveFirst, Contains
<1>2. CASE I # {}
  <2> DEFINE m == Min(I)
             u == SubSeq(s, 1, m - 1)
             v == SubSeq(s, m + 1, Len(s))
  <2>1. m \in 1 .. Len(s) /\ s[m] = e
    BY <1>2, MinIn, I \in SUBSET Nat
  <2>2. t = u \o v
    BY <1>2 DEF RemoveFirst, SelectInSeq, RemoveAt
  <2> HIDE DEF m, t
  <2>3. /\ u \in Seq(S) /\ Len(u) = m - 1 /\ \A i \in 1 .. m - 1 : u[i] = s[i]
        /\ v \in Seq(S) /\ Len(v) = Len(s) - m /\ \A i \in 1 .. Len(s) - m : v[i] = s[i + m]
    BY <2>1
  <2> HIDE DEF u, v
  <2>4. /\ Len(t) = Len(s) - 1
        /\ \A i \in 1 .. Len(t) : t[i] = IF i < m THEN s[i] ELSE s[i + 1]
    <3>1. Len(t) = Len(s) - 1
      <4>1. Len(t) = Len(u) + Len(v)
        BY <2>2, <2>3, ConcatProperties
      <4> QED
        BY <2>1, <2>3, <4>1
    <3>2. ASSUME NEW i \in 1 .. Len(t) PROVE t[i] = IF i < m THEN s[i] ELSE s[i + 1]
      <4>1. t[i] = IF i <= Len(u) THEN u[i] ELSE v[i - Len(u)]
        <5>1. i \in 1 .. Len(u) + Len(v)
          BY <2>1, <2>3, <3>1
        <5> QED
          BY <5>1, <2>2, <2>3, ConcatProperties
      <4>2. CASE i < m
        BY <2>1, <2>3, <4>1, <4>2
      <4>3. CASE ~(i < m)
        <5>1. i - (m - 1) \in 1 .. Len(s) - m /\ i - (m - 1) + m = i + 1
          BY <2>1, <3>1, <4>3
        <5> QED
          BY <2>1, <2>3, <4>1, <4>3, <5>1
      <4> QED
        BY <4>2, <4>3
    <3> QED
      BY <3>1, <3>2
  <2>5. NoRepeats(t)
    <3> SUFFICES ASSUME NEW i \in 1 .. Len(t), NEW j \in 1 .. Len(t), t[i] = t[j] PROVE i = j
      BY DEF NoRepeats
    <3>1. PICK a \in 1 .. Len(s), b \in 1 .. Len(s) :
             /\ a = IF i < m THEN i ELSE i + 1
             /\ b = IF j < m THEN j ELSE j + 1
      BY <2>1, <2>4
    <3>2. t[i] = s[a] /\ t[j] = s[b]
      BY <3>1, <2>4
    <3>3. a = b
      BY <3>2 DEF NoRepeats
    <3> QED
      BY <3>1, <3>3, <2>1
  <2>6. ASSUME NEW x, NEW i \in 1 .. Len(t), t[i] = x PROVE Contains(s, x) /\ x # e
    BY <2>1, <2>4, <2>6 DEF NoRepeats, Contains
  <2>7. ASSUME NEW x, NEW i \in 1 .. Len(s), s[i] = x, x # e PROVE Contains(t, x)
    <3>1. CASE i < m
      BY <2>1, <2>4, <2>7, <3>1 DEF Contains
    <3>2. CASE i > m
      <4>1. i - 1 \in 1 .. Len(t) /\ t[i - 1] = x
        BY <2>1, <2>4, <2>7, <3>2
      <4> QED
        BY <4>1 DEF Contains
    <3> QED
      BY <2>1, <2>7, <3>1, <3>2
  <2> QED
    BY <2>5, <2>6, <2>7 DEF Contains, t
<1> QED
  BY <1>1, <1>2

-----------------------------------------------------------------------------
(***************************************************************************)
(* The inductive invariant.                                                *)
(***************************************************************************)

\* The page of the call is cached, the frame it goes for is the page's, the
\* page is not cached yet, and the frame was taken from the queues or is not in
\* them yet.
Caching  == {"pin", "pin_lock", "dequeue", "held", "read_lock", "write_lock",
             "unpin_lock", "enqueue"}
Located  == {"pin_lock", "dequeue", "read_lock", "write_lock", "unpin_lock", "enqueue"}
Missing  == {"victim", "evict_lock", "remap"}
Taking   == {"evict_lock", "remap", "load", "enqueue"}
Counting == {"dequeue", "held", "read_lock", "write_lock", "unpin_lock"}

\* What a call knows of the shared state at each label.
Sound(s) ==
    /\ s.at \in Caching => /\ page_table[s.page_id] \in Frame
                           /\ pages[page_table[s.page_id]].page_id = s.page_id
    /\ s.at \in Located => s.frame = page_table[s.page_id]
    /\ s.at \in {"dequeue", "enqueue"} => s.target = s.frame
    /\ s.at \in Missing => page_table[s.page_id] = NoFrame
    /\ s.at = "load" => page_table[s.page_id] = s.frame
    /\ s.at \in Taking => /\ ~Contains(evict_queue, s.frame)
                          /\ ~Contains(unused_frames, s.frame)

CallsSound == \A r \in Ref : Sound(refs[r])

Calm == unwinding = {} /\ poisoned = {}

OneGetter == \A r, s \in Ref : refs[r].at \in Getting /\ refs[s].at \in Getting => r = s

\* A frame is in the hands of one call, and then nobody references its page.
Users(f) == {r \in Ref : refs[r].at \in Counting /\ refs[r].page_id = pages[f].page_id}
TakenOnce ==
    \A r, s \in Ref : /\ refs[r].at \in Taking /\ refs[s].at \in Taking
                      /\ refs[r].frame = refs[s].frame
                      => r = s
TakenUnused == \A r \in Ref : refs[r].at \in Taking => Users(refs[r].frame) = {}

\* The page in a frame is mapped to it, until it is evicted.
SlotMapped ==
    \A f \in Frame : pages[f].page_id # NoPage =>
        page_table[pages[f].page_id] = IF Loader(f) = {} THEN f ELSE NoFrame

Counts == \A f \in Frame : pages[f].pins = Cardinality(Users(f))

\* Queued frames have no users, but for the one that is about to be dequeued.
Queued ==
    /\ NoRepeats(evict_queue)
    /\ \A f \in Frame : Contains(evict_queue, f) => Users(f) = {} \/ BeingDequeued(f)
Unused ==
    /\ NoRepeats(unused_frames)
    /\ \A f \in Frame : Contains(unused_frames, f) =>
           pages[f].page_id = NoPage /\ ~Contains(evict_queue, f)

\* No frame is lost.
Covered ==
    \A f \in Frame : \/ Contains(unused_frames, f) \/ Contains(evict_queue, f)
                     \/ Users(f) # {} \/ Taken(f)

SInv == /\ CallsSound /\ Calm /\ OneGetter /\ TakenOnce /\ TakenUnused
        /\ SlotMapped /\ Counts /\ Queued /\ Unused /\ Covered

USE PoolAssumption DEF PoolAssumption, Frame, PageID

LEMMA InitSInv == Init => SInv
<1> SUFFICES ASSUME Init PROVE SInv
  OBVIOUS
<1> USE DEF Init
<1>1. \A r \in Ref : refs[r].at = "free"
  BY DEF Free
<1>2. \A f \in Frame : Users(f) = {} /\ Loader(f) = {}
  BY <1>1 DEF Users, Counting, Loader
<1>3. CallsSound /\ Calm /\ OneGetter /\ TakenOnce /\ TakenUnused
  BY <1>1 DEF CallsSound, Sound, Caching, Located, Missing, Taking, Calm, OneGetter, Getting,
              TakenOnce, TakenUnused
<1>4. SlotMapped /\ Counts
  BY <1>2, FS_EmptySet DEF SlotMapped, Counts
<1>5. Len(unused_frames) = Size /\ \A i \in 1 .. Size : unused_frames[i] = i - 1
  OBVIOUS
<1>6. Queued /\ Unused
  BY <1>5 DEF Queued, Unused, NoRepeats, Contains
<1>7. Covered
  <2> SUFFICES ASSUME NEW f \in Frame PROVE Contains(unused_frames, f)
    BY DEF Covered
  <2>1. f + 1 \in 1 .. Size /\ unused_frames[f + 1] = f
    BY <1>5
  <2> QED
    BY <1>5, <2>1 DEF Contains
<1> QED
  BY <1>3, <1>4, <1>6, <1>7 DEF SInv

-----------------------------------------------------------------------------
(***************************************************************************)
(* Consequences of the invariant.                                          *)
(***************************************************************************)

\* What a move of one call leaves alone, and types that the steps need.
LEMMA Others ==
    ASSUME IInv, NEW r \in Ref, NEW s, refs' = [refs EXCEPT ![r] = s]
    PROVE  refs'[r] = s /\ \A q \in Ref \ {r} : refs'[q] = refs[q]
BY DEF IInv, TypeOK

LEMMA CallTypes ==
    ASSUME IInv, NEW r \in Ref
    PROVE  /\ refs[r] \in RefState
           /\ refs[r].at # "free" => refs[r].page_id \in PageID
           /\ refs[r].at \in Located \cup Taking => refs[r].frame \in Frame
           /\ refs[r].at \in {"dequeue", "enqueue"} => refs[r].target \in Frame
BY DEF IInv, TypeOK, FieldsSet, WellFormed, FrameLabel, Located, Taking

\* A page is in one frame only: two slots with the same page are mapped to two
\* frames, or were both left by evictions, of which there is one at a time.
LEMMA SlotsDistinct ==
    ASSUME IInv, SInv, NEW f \in Frame, NEW g \in Frame,
           pages[f].page_id = pages[g].page_id, pages[f].page_id # NoPage
    PROVE  f = g
<1>1. Loader(f) = {} /\ Loader(g) = {} => f = g
  BY DEF SInv, SlotMapped
<1>2. Loader(f) # {} /\ Loader(g) # {} => f = g
  BY DEF SInv, OneGetter, Loader, Getting
<1>3. (Loader(f) = {}) <=> (Loader(g) = {})
  BY DEF SInv, SlotMapped
<1> QED
  BY <1>1, <1>2, <1>3

\* Users are pinned to a page, so a frame without a page has none.
LEMMA EmptyUnused ==
    ASSUME IInv, NEW f \in Frame, pages[f].page_id = NoPage
    PROVE  Users(f) = {}
BY CallTypes DEF Users, Counting

LEMMA UsersFinite ==
    ASSUME NEW f \in Frame
    PROVE  IsFiniteSet(Users(f)) /\ Cardinality(Users(f)) \in Nat
           /\ (Cardinality(Users(f)) = 0 <=> Users(f) = {})
<1>1. Users(f) \in SUBSET Ref
  BY DEF Users
<1> QED
  BY <1>1, FS_Subset, FS_CardinalityType, FS_EmptySet

-----------------------------------------------------------------------------
(***************************************************************************)
(* Moves that change neither what is pinned, mapped or queued nor who has  *)
(* taken a frame.                                                          *)
(***************************************************************************)

\* Moves of one call from label to label.
SameHands(r, s) ==
    /\ s.at \in Taking <=> refs[r].at \in Taking
    /\ s.at \in Taking => s.frame = refs[r].frame
    /\ s.at \in Counting <=> refs[r].at \in Counting
    /\ s.at \in Counting => s.page_id = refs[r].page_id
    /\ s.at \notin {"load", "dequeue"} /\ refs[r].at \notin {"load", "dequeue"}

LEMMA SilentMove ==
    ASSUME IInv, SInv, NEW r \in Ref, NEW s, refs' = [refs EXCEPT ![r] = s],
           UNCHANGED <<tableVars, poisoned, unwinding>>,
           \A f \in Frame : pages'[f].page_id = pages[f].page_id /\ pages'[f].pins = pages[f].pins,
           Sound(s), SameHands(r, s),
           s.at \in Getting => \A q \in Ref \ {r} : refs[q].at \notin Getting
    PROVE  SInv'
<1> USE DEF tableVars
<1>1. refs'[r] = s /\ \A q \in Ref \ {r} : refs'[q] = refs[q]
  BY Others
<1>2. \A f \in Frame : Users(f)' = Users(f)
  BY <1>1 DEF Users, SameHands
<1>3. \A f \in Frame : Loader(f)' = Loader(f)
  BY <1>1 DEF Loader, SameHands
<1>4. \A f \in Frame : BeingDequeued(f)' <=> BeingDequeued(f)
  BY <1>1 DEF BeingDequeued, SameHands
<1>5. \A f \in Frame : Taken(f)' <=> Taken(f)
  BY <1>1 DEF Taken, SameHands, Taking
<1>6. ASSUME NEW q, Sound(q) PROVE Sound(q)'
  BY <1>6 DEF Sound
<1>7. CallsSound'
  BY <1>1, <1>6 DEF CallsSound, SInv
<1>8. Calm' /\ OneGetter'
  BY <1>1 DEF SInv, Calm, OneGetter
<1>9. TakenOnce'
  BY <1>1 DEF SInv, TakenOnce, SameHands
<1>10. TakenUnused'
  <2> SUFFICES ASSUME NEW q \in Ref, (refs[q].at \in Taking)' PROVE (Users(refs[q].frame) = {})'
    BY DEF TakenUnused
  <2>1. refs[q].at \in Taking /\ refs'[q].frame = refs[q].frame
    BY <1>1 DEF SameHands
  <2>2. PICK f \in Frame : f = refs[q].frame
    BY <2>1, CallTypes
  <2>3. Users(f) = {} /\ Users(f)' = Users(f)
    BY <1>2, <2>1, <2>2 DEF SInv, TakenUnused
  <2> QED
    BY <2>1, <2>2, <2>3 DEF Users
<1>11. SlotMapped' /\ Counts'
  BY <1>2, <1>3 DEF SInv, SlotMapped, Counts
<1>12. Queued' /\ Unused' /\ Covered'
  BY <1>2, <1>4, <1>5 DEF SInv, Queued, Unused, Covered
<1> QED
  BY <1>7, <1>8, <1>9, <1>10, <1>11, <1>12 DEF SInv

LEMMA SerialNewPage == IInv /\ SInv /\ NewPage => SInv'
<1> SUFFICES ASSUME IInv, SInv, NewPage PROVE SInv'
  OBVIOUS
<1>1. UNCHANGED <<pages, tableVars, refs, panicVars>>
  BY DEF NewPage
<1> QED
  BY <1>1 DEF tableVars, panicVars, SInv, CallsSound, Sound, Calm, OneGetter, TakenOnce,
              TakenUnused, SlotMapped, Counts, Queued, Unused, Covered, Users, Loader,
              BeingDequeued, Taken

LEMMA SerialStutter == SInv /\ UNCHANGED vars => SInv'
BY DEF vars, tableVars, diskVars, panicVars, SInv, CallsSound, Sound, Calm, OneGetter,
       TakenOnce, TakenUnused, SlotMapped, Counts, Queued, Unused, Covered, Users, Loader,
       BeingDequeued, Taken

\* A lookup begins only when no other is in progress.
LEMMA SerialBeginGet ==
    ASSUME IInv, SInv, ~OverlappingGets, NEW r \in Ref, NEW p \in PageID, BeginGet(r, p)
    PROVE  SInv'
<1> DEFINE s == [Free EXCEPT !.page_id = p,
                     !.at = IF page_table[p] # NoFrame THEN "pin" ELSE "victim"]
<1>1. /\ refs' = [refs EXCEPT ![r] = s] /\ refs[r].at = "free"
      /\ UNCHANGED <<pages, tableVars, poisoned, unwinding>>
      /\ \A q \in Ref : refs[q].at \notin Getting
  BY DEF BeginGet, Become, panicVars
<1>2. s.page_id = p /\ s.at = IF page_table[p] # NoFrame THEN "pin" ELSE "victim"
  BY DEF Free
<1>3. ASSUME page_table[p] # NoFrame
      PROVE  page_table[p] \in Frame /\ pages[page_table[p]].page_id = p
  <2>1. page_table[p] \in Frame
    BY <1>3 DEF IInv, TypeOK
  <2>2. Loader(page_table[p]) = {}
    BY <1>1 DEF Loader, Getting
  <2> QED
    BY <2>1, <2>2 DEF IInv, TableSound
<1> HIDE DEF s
<1>4. Sound(s)
  BY <1>2, <1>3 DEF Sound, Caching, Located, Missing, Taking
<1>5. SameHands(r, s)
  BY <1>1, <1>2 DEF SameHands, Taking, Counting
<1> QED
  BY <1>1, <1>4, <1>5, SilentMove

\* page(): the page of a PageRef that is pinned or being pinned is always found.
LEMMA SerialFindFrame ==
    ASSUME IInv, SInv, NEW r \in Ref,
           NEW found \in {"pin_lock", "unpin_lock", "read_lock", "write_lock"},
           refs[r].at \in {"pin", "held"}, refs[r].at = "pin" <=> found = "pin_lock",
           FindFrame(r, found)
    PROVE  SInv'
<1> DEFINE f == page_table[refs[r].page_id]
           s == [refs[r] EXCEPT !.at = found, !.frame = f]
<1>1. Sound(refs[r]) /\ refs[r] \in RefState
  BY CallTypes DEF SInv, CallsSound
<1>2. f \in Frame /\ pages[f].page_id = refs[r].page_id
  BY <1>1 DEF Sound, Caching
<1>3. refs' = [refs EXCEPT ![r] = s] /\ UNCHANGED <<pages, tableVars, poisoned, unwinding>>
  BY <1>2 DEF FindFrame, Mapped, Become
<1>4. s.at = found /\ s.frame = f /\ s.page_id = refs[r].page_id
  BY <1>1 DEF RefState
<1> HIDE DEF s
<1>5. Sound(s)
  BY <1>2, <1>4 DEF Sound, Caching, Located, Missing, Taking
<1>6. SameHands(r, s)
  BY <1>4 DEF SameHands, Taking, Counting
<1>7. s.at \in Getting => \A q \in Ref \ {r} : refs[q].at \notin Getting
  BY <1>4 DEF SInv, OneGetter, Getting
<1> QED
  BY <1>3, <1>5, <1>6, <1>7, SilentMove

\* read() and write() through the guard.
LEMMA SerialUse ==
    ASSUME IInv, SInv, NEW r \in Ref, UseStep(r)
    PROVE  SInv'
<1>1. Sound(refs[r]) /\ refs[r] \in RefState /\ refs[r].at \in {"read_lock", "write_lock"}
  BY CallTypes DEF SInv, CallsSound, UseStep, Read, Write
<1>2. refs[r].frame \in Frame
  BY <1>1, CallTypes DEF Located
<1> DEFINE s == Held(refs[r].page_id)
<1>3. /\ refs' = [refs EXCEPT ![r] = s] /\ UNCHANGED <<tableVars, poisoned, unwinding>>
      /\ \A f \in Frame : pages'[f].page_id = pages[f].page_id /\ pages'[f].pins = pages[f].pins
  <2>1. CASE Read(r)
    BY <2>1 DEF Read, Become, panicVars
  <2>2. ASSUME NEW v \in Value, Write(r, v)
        PROVE  \A f \in Frame : pages'[f].page_id = pages[f].page_id
                                /\ pages'[f].pins = pages[f].pins
    <3>1. pages \in [Frame -> PageSlot]
      BY DEF IInv, TypeOK
    <3>2. pages' = [pages EXCEPT ![refs[r].frame] = WrittenSlot(pages[refs[r].frame], v)]
      BY <1>2, <2>2, <3>1 DEF Write
    <3>3. /\ WrittenSlot(pages[refs[r].frame], v).page_id = pages[refs[r].frame].page_id
          /\ WrittenSlot(pages[refs[r].frame], v).pins = pages[refs[r].frame].pins
      BY <1>2, <3>1 DEF WrittenSlot, PageSlot
    <3> QED
      BY <3>1, <3>2, <3>3
  <2>3. ASSUME NEW v \in Value, Write(r, v)
        PROVE  refs' = [refs EXCEPT ![r] = s] /\ UNCHANGED <<tableVars, poisoned, unwinding>>
    BY <2>3 DEF Write, Become, panicVars
  <2> QED
    BY <2>1, <2>2, <2>3 DEF UseStep
<1>4. s.at = "held" /\ s.page_id = refs[r].page_id
  BY DEF Held, Free
<1> HIDE DEF s
<1>5. Sound(s)
  BY <1>1, <1>4 DEF Sound, Caching, Located, Missing, Taking
<1>6. SameHands(r, s)
  BY <1>1, <1>4 DEF SameHands, Taking, Counting
<1> QED
  BY <1>3, <1>4, <1>5, <1>6, SilentMove DEF Getting

LEMMA SerialEvictLock ==
    ASSUME IInv, SInv, NEW r \in Ref, EvictLock(r)
    PROVE  SInv'
<1> DEFINE s == [refs[r] EXCEPT !.at = "remap"]
<1>1. Sound(refs[r]) /\ refs[r] \in RefState /\ refs[r].at = "evict_lock"
  BY CallTypes DEF SInv, CallsSound, EvictLock
<1>2. /\ refs' = [refs EXCEPT ![r] = s]
      /\ UNCHANGED <<pages, tableVars, poisoned, unwinding>>
  BY DEF EvictLock, Goto, panicVars, IInv, TypeOK
<1>3. s.at = "remap" /\ s.frame = refs[r].frame /\ s.page_id = refs[r].page_id
  BY <1>1 DEF RefState
<1> HIDE DEF s
<1>4. Sound(s)
  BY <1>1, <1>3 DEF Sound, Caching, Located, Missing, Taking
<1>5. SameHands(r, s)
  BY <1>1, <1>3 DEF SameHands, Taking, Counting
<1>6. \A q \in Ref \ {r} : refs[q].at \notin Getting
  BY <1>1 DEF SInv, OneGetter, Getting
<1> QED
  BY <1>2, <1>4, <1>5, <1>6, SilentMove

-----------------------------------------------------------------------------
(***************************************************************************)
(* Moves that pin and unpin.                                               *)
(***************************************************************************)

\* A call that begins or ends to count is one user more or less of the frame
\* that holds its page, and of no other.
LEMMA UsersJoin ==
    ASSUME IInv, SInv, NEW r \in Ref, NEW s, refs' = [refs EXCEPT ![r] = s],
           \A g \in Frame : pages'[g].page_id = pages[g].page_id,
           NEW f \in Frame, pages[f].page_id = refs[r].page_id, refs[r].page_id \in PageID,
           refs[r].at \notin Counting, s.at \in Counting, s.page_id = refs[r].page_id
    PROVE  /\ Users(f)' = Users(f) \cup {r}
           /\ Cardinality(Users(f)') = Cardinality(Users(f)) + 1
           /\ \A g \in Frame \ {f} : Users(g)' = Users(g)
<1>1. refs'[r] = s /\ \A q \in Ref \ {r} : refs'[q] = refs[q]
  BY Others
<1>2. Users(f)' = Users(f) \cup {r} /\ r \notin Users(f)
  BY <1>1 DEF Users
<1>3. ASSUME NEW g \in Frame \ {f} PROVE Users(g)' = Users(g)
  <2>1. pages[g].page_id # refs[r].page_id
    BY SlotsDistinct
  <2> QED
    BY <1>1, <2>1 DEF Users
<1>4. Cardinality(Users(f) \cup {r}) = Cardinality(Users(f)) + 1
  BY <1>2, UsersFinite, FS_AddElement
<1> QED
  BY <1>2, <1>3, <1>4

LEMMA UsersLeave ==
    ASSUME IInv, SInv, NEW r \in Ref, NEW s, refs' = [refs EXCEPT ![r] = s],
           \A g \in Frame : pages'[g].page_id = pages[g].page_id,
           NEW f \in Frame, pages[f].page_id = refs[r].page_id, refs[r].page_id \in PageID,
           refs[r].at \in Counting, s.at \notin Counting
    PROVE  /\ Users(f)' = Users(f) \ {r} /\ r \in Users(f)
           /\ Cardinality(Users(f)') = Cardinality(Users(f)) - 1
           /\ \A g \in Frame \ {f} : Users(g)' = Users(g)
<1>1. refs'[r] = s /\ \A q \in Ref \ {r} : refs'[q] = refs[q]
  BY Others
<1>2. Users(f)' = Users(f) \ {r} /\ r \in Users(f)
  BY <1>1 DEF Users
<1>3. ASSUME NEW g \in Frame \ {f} PROVE Users(g)' = Users(g)
  <2>1. pages[g].page_id # refs[r].page_id
    BY SlotsDistinct
  <2> QED
    BY <1>1, <2>1 DEF Users
<1>4. Cardinality(Users(f) \ {r}) = Cardinality(Users(f)) - 1
  BY <1>2, UsersFinite, FS_RemoveElement
<1> QED
  BY <1>2, <1>3, <1>4

\* The frame whose lock a pin or an unpin gets is not in anybody's hands: a call
\* that evicts would be a second getter, one that enqueues has the lock.
LEMMA LockedFrame ==
    ASSUME IInv, SInv, NEW r \in Ref, refs[r].at \in {"pin_lock", "unpin_lock"},
           CanLock(refs[r].frame)
    PROVE  /\ refs[r].frame \in Frame /\ refs[r].page_id \in PageID
           /\ refs[r].frame = page_table[refs[r].page_id]
           /\ pages[refs[r].frame].page_id = refs[r].page_id
           /\ ~BeingDequeued(refs[r].frame)
           /\ \A q \in Ref : refs[q].at \in Taking => refs[q].frame # refs[r].frame
<1>1. Sound(refs[r]) /\ refs[r].page_id \in PageID /\ refs[r].frame \in Frame
  BY CallTypes DEF SInv, CallsSound, Located
<1>2. refs[r].frame = page_table[refs[r].page_id] /\ pages[refs[r].frame].page_id = refs[r].page_id
  BY <1>1 DEF Sound, Caching, Located
<1>3. ~BeingDequeued(refs[r].frame)
  <2> SUFFICES ASSUME NEW q \in Ref, refs[q].at = "dequeue", refs[q].target = refs[r].frame
               PROVE  FALSE
    BY DEF BeingDequeued
  <2>1. refs[q].frame = refs[r].frame
    BY DEF SInv, CallsSound, Sound
  <2> QED
    BY <2>1 DEF CanLock, Locked, Holding
<1>4. ASSUME NEW q \in Ref, refs[q].at \in Taking, refs[q].frame = refs[r].frame
      PROVE  FALSE
  <2>1. CASE refs[q].at \in {"remap", "load", "enqueue"}
    BY <1>4, <2>1 DEF CanLock, Locked, Holding
  <2>2. CASE refs[q].at = "evict_lock"
    <3>1. refs[r].at = "unpin_lock"
      BY <2>2 DEF SInv, OneGetter, Getting
    <3>2. r \in Users(refs[r].frame)
      BY <1>2, <3>1 DEF Users, Counting
    <3> QED
      BY <1>4, <3>2 DEF SInv, TakenUnused
  <2> QED
    BY <1>4, <2>1, <2>2 DEF Taking
<1> QED
  BY <1>1, <1>2, <1>3, <1>4

\* pin: the frame gains a user, and leaves the queue next if it had none.
LEMMA SerialPinLock ==
    ASSUME IInv, SInv, NEW r \in Ref, PinLock(r)
    PROVE  SInv'
<1>1. /\ refs[r].at = "pin_lock" /\ CanLock(refs[r].frame) /\ UNCHANGED tableVars
      /\ pages' = [pages EXCEPT ![refs[r].frame] = PinnedSlot(pages[refs[r].frame])]
  BY DEF PinLock, IInv, TypeOK
<1>2. PICK f \in Frame :
         /\ f = refs[r].frame /\ refs[r].page_id \in PageID /\ f = page_table[refs[r].page_id]
         /\ pages[f].page_id = refs[r].page_id
         /\ ~BeingDequeued(f)
         /\ \A q \in Ref : refs[q].at \in Taking => refs[q].frame # f
  BY <1>1, LockedFrame
<1>3. PICK s :
         /\ s = IF pages[f].pins = 0
                THEN [refs[r] EXCEPT !.at = "dequeue", !.target = f]
                ELSE Held(refs[r].page_id)
         /\ refs' = [refs EXCEPT ![r] = s] /\ UNCHANGED <<poisoned, unwinding>>
  BY <1>2 DEF PinLock, FindTarget, Mapped, Become, panicVars
<1>4. /\ s.page_id = refs[r].page_id
      /\ s.at = IF pages[f].pins = 0 THEN "dequeue" ELSE "held"
      /\ s.at = "dequeue" => s.frame = f /\ s.target = f
  BY <1>2, <1>3, CallTypes DEF RefState, Held, Free
<1>5. /\ pages'[f].page_id = pages[f].page_id /\ pages'[f].pins = pages[f].pins + 1
      /\ \A g \in Frame \ {f} : pages'[g] = pages[g]
  BY <1>1, <1>2 DEF PinnedSlot, PageSlot, IInv, TypeOK
<1>6. \A g \in Frame : pages'[g].page_id = pages[g].page_id
  BY <1>5
<1>7. refs'[r] = s /\ \A q \in Ref \ {r} : refs'[q] = refs[q]
  BY <1>3, Others
<1>8. /\ Users(f)' = Users(f) \cup {r}
      /\ Cardinality(Users(f)') = Cardinality(Users(f)) + 1
      /\ \A g \in Frame \ {f} : Users(g)' = Users(g)
  <2>1. refs[r].at \notin Counting /\ s.at \in Counting
    BY <1>1, <1>4 DEF Counting
  <2>2. refs' = [refs EXCEPT ![r] = s]
    BY <1>3
  <2> QED
    BY <1>2, <1>4, <1>6, <2>1, <2>2, UsersJoin
<1>9. \A g \in Frame : Loader(g)' = Loader(g) /\ (Taken(g)' <=> Taken(g))
  BY <1>1, <1>4, <1>7 DEF Loader, Taken
<1>10. \A q \in Ref \ {r} : refs[q].at \notin Getting
  BY <1>1 DEF SInv, OneGetter, Getting
<1>11. CallsSound'
  <2>1. Sound(s)'
    BY <1>1, <1>2, <1>4, <1>5 DEF Sound, Caching, Located, Missing, Taking, tableVars
  <2>2. ASSUME NEW q \in Ref \ {r} PROVE Sound(refs[q])'
    BY <1>1, <1>6, <1>7 DEF SInv, CallsSound, Sound, tableVars
  <2> QED
    BY <1>7, <2>1, <2>2 DEF CallsSound, Sound
<1>12. Calm' /\ OneGetter'
  BY <1>3, <1>7, <1>10 DEF SInv, Calm, OneGetter
<1>13. TakenOnce' /\ TakenUnused'
  <2>1. \A q \in Ref : refs'[q].at \in Taking => q # r /\ refs'[q] = refs[q]
    BY <1>4, <1>7 DEF Taking
  <2>2. TakenOnce'
    BY <2>1 DEF SInv, TakenOnce
  <2>3. ASSUME NEW q \in Ref, refs'[q].at \in Taking PROVE Users(refs[q].frame)' = {}
    <3>1. PICK g \in Frame \ {f} : refs[q].frame = g /\ refs'[q].frame = g
      BY <1>2, <2>1, <2>3, CallTypes
    <3>2. Users(g)' = {}
      BY <1>8, <2>1, <2>3, <3>1 DEF SInv, TakenUnused
    <3> QED
      BY <3>1, <3>2
  <2> QED
    BY <2>2, <2>3 DEF TakenUnused
<1>14. SlotMapped'
  BY <1>1, <1>6, <1>9 DEF SInv, SlotMapped, tableVars
<1>15. Counts'
  BY <1>5, <1>8 DEF SInv, Counts
<1>16. Queued'
  <2>1. ASSUME NEW g \in Frame, Contains(evict_queue, g)
        PROVE  Users(g)' = {} \/ BeingDequeued(g)'
    <3>1. CASE g # f
      <4>1. Users(g) = {} \/ BeingDequeued(g)
        BY <2>1 DEF SInv, Queued
      <4>2. ~BeingDequeued(g)
        BY <1>1, <1>10 DEF BeingDequeued, Getting
      <4> QED
        BY <1>8, <3>1, <4>1, <4>2
    <3>2. CASE g = f /\ pages[f].pins = 0
      BY <1>4, <1>7, <3>2 DEF BeingDequeued
    <3>3. CASE g = f /\ pages[f].pins # 0
      BY <1>2, <2>1, <3>3, UsersFinite DEF SInv, Queued, Counts
    <3> QED
      BY <3>1, <3>2, <3>3
  <2> QED
    BY <1>1, <2>1 DEF SInv, Queued, tableVars
<1>17. Unused'
  BY <1>1, <1>6 DEF SInv, Unused, tableVars
<1>18. Covered'
  <2>1. ASSUME NEW g \in Frame, Users(g) # {} PROVE Users(g)' # {}
    BY <1>8, <2>1
  <2> QED
    BY <1>1, <1>9, <2>1 DEF SInv, Covered, tableVars
<1> QED
  BY <1>11, <1>12, <1>13, <1>14, <1>15, <1>16, <1>17, <1>18 DEF SInv

\* unpin: the count is never zero before, and a frame without users is in the
\* hands of the call until it is queued.
LEMMA SerialUnpinLock ==
    ASSUME IInv, SInv, NEW r \in Ref, UnpinLock(r)
    PROVE  SInv'
<1>1. refs[r].at = "unpin_lock" /\ CanLock(refs[r].frame) /\ UNCHANGED tableVars
  BY DEF UnpinLock
<1>2. PICK f \in Frame :
         /\ f = refs[r].frame /\ refs[r].page_id \in PageID /\ f = page_table[refs[r].page_id]
         /\ pages[f].page_id = refs[r].page_id
         /\ ~BeingDequeued(f)
         /\ \A q \in Ref : refs[q].at \in Taking => refs[q].frame # f
  BY <1>1, LockedFrame
<1>3. pages[f].pins # 0 /\ pages[f].pins \in Nat
  <2>1. r \in Users(f)
    BY <1>1, <1>2 DEF Users, Counting
  <2> QED
    BY <2>1, UsersFinite DEF SInv, Counts
<1>4. PICK s :
         /\ s = IF pages[f].pins = 1
                THEN [refs[r] EXCEPT !.at = "enqueue", !.target = f]
                ELSE Free
         /\ refs' = [refs EXCEPT ![r] = s] /\ UNCHANGED <<poisoned, unwinding>>
  BY <1>2, <1>3 DEF UnpinLock, FindTarget, Mapped, Become, panicVars
<1>5. /\ s.at = IF pages[f].pins = 1 THEN "enqueue" ELSE "free"
      /\ s.at = "enqueue" => s.frame = f /\ s.target = f /\ s.page_id = refs[r].page_id
  BY <1>2, <1>4, CallTypes DEF RefState, Free
<1>6. /\ pages'[f].page_id = pages[f].page_id /\ pages'[f].pins = pages[f].pins - 1
      /\ \A g \in Frame \ {f} : pages'[g] = pages[g]
  <2>1. pages' = [pages EXCEPT ![f].pins = pages[f].pins - 1]
    BY <1>2, <1>3 DEF UnpinLock
  <2>2. pages \in [Frame -> PageSlot] /\ pages[f] \in PageSlot
    BY <1>2 DEF IInv, TypeOK
  <2>3. PICK slot : slot = [pages[f] EXCEPT !.pins = pages[f].pins - 1]
    OBVIOUS
  <2>4. slot.page_id = pages[f].page_id /\ slot.pins = pages[f].pins - 1
    BY <2>2, <2>3 DEF PageSlot
  <2>5. pages' = [pages EXCEPT ![f] = slot]
    BY <2>1, <2>3
  <2>6. pages'[f] = slot /\ \A g \in Frame \ {f} : pages'[g] = pages[g]
    BY <1>2, <2>2, <2>5
  <2> QED
    BY <2>4, <2>6
<1>7. \A g \in Frame : pages'[g].page_id = pages[g].page_id
  BY <1>6
<1>8. refs'[r] = s /\ \A q \in Ref \ {r} : refs'[q] = refs[q]
  BY <1>4, Others
<1>9. /\ Users(f)' = Users(f) \ {r}
      /\ Cardinality(Users(f)') = Cardinality(Users(f)) - 1
      /\ \A g \in Frame \ {f} : Users(g)' = Users(g)
  <2>1. refs[r].at \in Counting /\ s.at \notin Counting
    BY <1>1, <1>5 DEF Counting
  <2>2. refs' = [refs EXCEPT ![r] = s]
    BY <1>4
  <2> QED
    BY <1>2, <1>7, <2>1, <2>2, UsersLeave
<1>10. Users(f)' = {} <=> pages[f].pins = 1
  <2>1. IsFiniteSet(Users(f) \ {r})
    BY UsersFinite, FS_RemoveElement
  <2>2. Cardinality(Users(f)') = 0 <=> Users(f)' = {}
    BY <1>9, <2>1, FS_EmptySet
  <2>3. Cardinality(Users(f)') = pages[f].pins - 1
    BY <1>9 DEF SInv, Counts
  <2> QED
    BY <1>3, <2>2, <2>3
<1>11. ~Contains(evict_queue, f) /\ ~Contains(unused_frames, f)
  <2>1. Users(f) # {} /\ pages[f].page_id # NoPage
    BY <1>1, <1>2 DEF Users, Counting
  <2> QED
    BY <1>2, <2>1 DEF SInv, Queued, Unused
<1>12. \A g \in Frame : /\ Loader(g)' = Loader(g) /\ (BeingDequeued(g)' <=> BeingDequeued(g))
                        /\ (Taken(g)' <=> Taken(g) \/ (g = f /\ pages[f].pins = 1))
  BY <1>1, <1>5, <1>8 DEF Loader, BeingDequeued, Taken
<1>13. CallsSound'
  <2>1. Sound(s)'
    BY <1>1, <1>2, <1>5, <1>6, <1>11 DEF Sound, Caching, Located, Missing, Taking, tableVars
  <2>2. ASSUME NEW q \in Ref \ {r} PROVE Sound(refs[q])'
    BY <1>1, <1>7, <1>8 DEF SInv, CallsSound, Sound, tableVars
  <2> QED
    BY <1>8, <2>1, <2>2 DEF CallsSound, Sound
<1>14. Calm' /\ OneGetter'
  BY <1>4, <1>5, <1>8 DEF SInv, Calm, OneGetter, Getting
<1>15. TakenOnce' /\ TakenUnused'
  <2>1. TakenOnce'
    BY <1>2, <1>5, <1>8 DEF SInv, TakenOnce, Taking
  <2>2. ASSUME NEW q \in Ref, refs'[q].at \in Taking PROVE Users(refs[q].frame)' = {}
    <3>1. CASE q = r
      <4>1. refs'[q].frame = f /\ Users(f)' = {}
        BY <1>5, <1>8, <1>10, <2>2, <3>1 DEF Taking
      <4> QED
        BY <4>1
    <3>2. CASE q # r
      <4>1. PICK g \in Frame \ {f} : refs[q].frame = g /\ refs'[q].frame = g
        BY <1>2, <1>8, <2>2, <3>2, CallTypes
      <4>2. Users(g)' = {}
        BY <1>8, <1>9, <2>2, <3>2, <4>1 DEF SInv, TakenUnused
      <4> QED
        BY <4>1, <4>2
    <3> QED
      BY <3>1, <3>2
  <2> QED
    BY <2>1, <2>2 DEF TakenUnused
<1>16. SlotMapped'
  BY <1>1, <1>7, <1>12 DEF SInv, SlotMapped, tableVars
<1>17. Counts'
  BY <1>6, <1>9 DEF SInv, Counts
<1>18. Queued'
  <2>1. ASSUME NEW g \in Frame, Contains(evict_queue, g)
        PROVE  Users(g)' = {} \/ BeingDequeued(g)'
    BY <1>9, <1>11, <1>12, <2>1 DEF SInv, Queued
  <2> QED
    BY <1>1, <2>1 DEF SInv, Queued, tableVars
<1>19. Unused'
  BY <1>1, <1>7 DEF SInv, Unused, tableVars
<1>20. Covered'
  <2>1. ASSUME NEW g \in Frame, Users(g) # {} PROVE Users(g)' # {} \/ Taken(g)'
    BY <1>9, <1>10, <1>12, <2>1
  <2> QED
    BY <1>1, <1>12, <2>1 DEF SInv, Covered, tableVars
<1> QED
  BY <1>13, <1>14, <1>15, <1>16, <1>17, <1>18, <1>19, <1>20 DEF SInv

-----------------------------------------------------------------------------
(***************************************************************************)
(* Moves that change the queues.                                           *)
(***************************************************************************)

\* remove_from_queue after the first pin.
LEMMA SerialDequeue ==
    ASSUME IInv, SInv, NEW r \in Ref, Dequeue(r)
    PROVE  SInv'
<1>1. /\ refs[r].at = "dequeue" /\ UNCHANGED <<pages, page_table, unused_frames>>
      /\ UNCHANGED <<poisoned, unwinding>>
      /\ evict_queue' = RemoveFirst(evict_queue, refs[r].target)
  BY DEF Dequeue, RemoveFromQueue, panicVars
<1>2. PICK f \in Frame :
         /\ f = refs[r].target /\ refs[r].page_id \in PageID /\ f = page_table[refs[r].page_id]
         /\ pages[f].page_id = refs[r].page_id
  BY <1>1, CallTypes DEF SInv, CallsSound, Sound, Caching, Located
<1>3. /\ NoRepeats(evict_queue')
      /\ \A g : Contains(evict_queue', g) <=> Contains(evict_queue, g) /\ g # f
  BY <1>1, <1>2, RemoveHas DEF SInv, Queued, IInv, TypeOK
<1>4. PICK s : /\ s = Held(refs[r].page_id) /\ s.at = "held" /\ s.page_id = refs[r].page_id
               /\ refs' = [refs EXCEPT ![r] = s]
  BY DEF Dequeue, Become, Held, Free
<1>5. refs'[r] = s /\ \A q \in Ref \ {r} : refs'[q] = refs[q]
  BY <1>4, Others
<1>6. \A g \in Frame : /\ Users(g)' = Users(g) /\ Loader(g)' = Loader(g)
                       /\ (Taken(g)' <=> Taken(g))
  BY <1>1, <1>4, <1>5 DEF Users, Counting, Loader, Taken
<1>7. CallsSound'
  <2>1. Sound(s)'
    BY <1>1, <1>2, <1>4 DEF Sound, Caching, Located, Missing, Taking
  <2>2. ASSUME NEW q \in Ref \ {r} PROVE Sound(refs[q])'
    BY <1>1, <1>3, <1>5 DEF SInv, CallsSound, Sound
  <2> QED
    BY <1>5, <2>1, <2>2 DEF CallsSound, Sound
<1>8. Calm' /\ OneGetter'
  BY <1>1, <1>4, <1>5 DEF SInv, Calm, OneGetter, Getting
<1>9. TakenOnce' /\ TakenUnused'
  <2>1. \A q \in Ref : refs'[q].at \in Taking => q # r /\ refs'[q] = refs[q]
    BY <1>4, <1>5 DEF Taking
  <2> QED
    BY <1>6, <2>1, CallTypes DEF SInv, TakenOnce, TakenUnused
<1>10. SlotMapped' /\ Counts'
  BY <1>1, <1>6 DEF SInv, SlotMapped, Counts
<1>11. Queued'
  <2>1. ASSUME NEW g \in Frame, Contains(evict_queue', g) PROVE Users(g)' = {}
    <3>1. Contains(evict_queue, g) /\ g # f
      BY <1>3, <2>1
    <3>2. ~BeingDequeued(g)
      BY <1>1, <1>2, <3>1 DEF SInv, OneGetter, Getting, BeingDequeued
    <3> QED
      BY <1>6, <3>1, <3>2 DEF SInv, Queued
  <2> QED
    BY <1>3, <2>1 DEF Queued
<1>12. Unused'
  BY <1>1, <1>3 DEF SInv, Unused
<1>13. Covered'
  <2>1. Users(f) # {}
    BY <1>1, <1>2 DEF Users, Counting
  <2> QED
    BY <1>1, <1>3, <1>6, <2>1 DEF SInv, Covered
<1> QED
  BY <1>7, <1>8, <1>9, <1>10, <1>11, <1>12, <1>13 DEF SInv

\* add_to_queue after the last unpin.
LEMMA SerialEnqueue ==
    ASSUME IInv, SInv, NEW r \in Ref, Enqueue(r)
    PROVE  SInv'
<1>1. /\ refs[r].at = "enqueue" /\ UNCHANGED <<pages, page_table, unused_frames>>
      /\ UNCHANGED <<poisoned, unwinding>>
  BY DEF Enqueue, panicVars
<1>2. PICK f \in Frame :
         /\ f = refs[r].target /\ f = refs[r].frame /\ Users(f) = {}
         /\ ~Contains(evict_queue, f) /\ ~Contains(unused_frames, f)
  BY <1>1, CallTypes DEF SInv, CallsSound, Sound, Taking, TakenUnused
<1>3. /\ NoRepeats(evict_queue')
      /\ \A g : Contains(evict_queue', g) <=> Contains(evict_queue, g) \/ g = f
  <2>1. evict_queue' = Append(evict_queue, f)
    BY <1>2 DEF Enqueue, AddToQueue
  <2> QED
    BY <1>2, <2>1, AppendHas DEF SInv, Queued, IInv, TypeOK
<1>4. PICK s : s = Free /\ s.at = "free" /\ refs' = [refs EXCEPT ![r] = s]
  BY DEF Enqueue, Become, Free
<1>5. refs'[r] = s /\ \A q \in Ref \ {r} : refs'[q] = refs[q]
  BY <1>4, Others
<1>6. \A g \in Frame : /\ Users(g)' = Users(g) /\ Loader(g)' = Loader(g)
                       /\ (BeingDequeued(g)' <=> BeingDequeued(g))
                       /\ (Taken(g) => Taken(g)' \/ g = f)
  BY <1>1, <1>2, <1>4, <1>5 DEF Users, Counting, Loader, BeingDequeued, Taken
<1>7. \A q \in Ref : refs'[q].at \in Taking => q # r /\ refs'[q] = refs[q]
  BY <1>4, <1>5 DEF Taking
<1>8. CallsSound'
  <2>1. Sound(s)'
    BY <1>4 DEF Sound, Caching, Located, Missing, Taking
  <2>2. ASSUME NEW q \in Ref \ {r} PROVE Sound(refs[q])'
    <3>1. refs[q].at \in Taking => refs[q].frame # f
      BY <1>1, <1>2 DEF SInv, TakenOnce, Taking
    <3> QED
      BY <1>1, <1>3, <1>5, <3>1 DEF SInv, CallsSound, Sound
  <2> QED
    BY <1>5, <2>1, <2>2 DEF CallsSound, Sound
<1>9. Calm' /\ OneGetter'
  BY <1>1, <1>4, <1>5 DEF SInv, Calm, OneGetter, Getting
<1>10. TakenOnce' /\ TakenUnused'
  BY <1>6, <1>7, CallTypes DEF SInv, TakenOnce, TakenUnused
<1>11. SlotMapped' /\ Counts'
  BY <1>1, <1>6 DEF SInv, SlotMapped, Counts
<1>12. Queued' /\ Unused'
  BY <1>1, <1>2, <1>3, <1>6 DEF SInv, Queued, Unused
<1>13. Covered'
  BY <1>1, <1>3, <1>6 DEF SInv, Covered
<1> QED
  BY <1>8, <1>9, <1>10, <1>11, <1>12, <1>13 DEF SInv

\* victim: the frame leaves the stack or the queue and is the call's.
LEMMA SerialVictim ==
    ASSUME IInv, SInv, NEW r \in Ref, Victim(r)
    PROVE  SInv'
<1>1. /\ refs[r].at = "victim" /\ UNCHANGED <<pages, page_table>>
      /\ UNCHANGED <<poisoned, unwinding>>
  BY DEF Victim, panicVars
<1>2. \A q \in Ref \ {r} : refs[q].at \notin Getting
  BY <1>1 DEF SInv, OneGetter, Getting
<1>3. CASE unused_frames = <<>> /\ evict_queue = <<>>
  <2>1. UNCHANGED tableVars /\ refs' = [refs EXCEPT ![r] = Free] /\ Free.at = "free"
    BY <1>1, <1>3 DEF Victim, Become, Free, tableVars
  <2>2. Sound(Free) /\ SameHands(r, Free) /\ Free.at \notin Getting
    BY <1>1, <2>1 DEF Sound, Caching, Located, Missing, Taking, SameHands, Counting, Getting
  <2> QED
    BY <1>1, <2>1, <2>2, SilentMove
<1>4. CASE ~(unused_frames = <<>> /\ evict_queue = <<>>)
  <2>1. PICK f \in Frame :
           /\ refs' = [refs EXCEPT ![r] = [refs[r] EXCEPT !.at = "evict_lock", !.frame = f]]
           /\ Contains(unused_frames, f) \/ Contains(evict_queue, f)
           /\ Users(f) = {}
           /\ NoRepeats(unused_frames') /\ NoRepeats(evict_queue')
           /\ \A g : Contains(unused_frames', g) <=> Contains(unused_frames, g) /\ g # f
           /\ \A g : Contains(evict_queue', g) <=> Contains(evict_queue, g) /\ g # f
    <3>1. CASE unused_frames # <<>>
      <4>1. PICK f \in Frame : f = Last(unused_frames)
        BY <3>1, LastFrontType DEF IInv, TypeOK
      <4>2. /\ unused_frames' = Front(unused_frames) /\ evict_queue' = evict_queue
            /\ refs' = [refs EXCEPT ![r] = [refs[r] EXCEPT !.at = "evict_lock", !.frame = f]]
        BY <3>1, <4>1 DEF Victim, Become
      <4>3. /\ NoRepeats(unused_frames') /\ Contains(unused_frames, f)
            /\ \A g : Contains(unused_frames', g) <=> Contains(unused_frames, g) /\ g # f
        BY <3>1, <4>1, <4>2, FrontHas DEF SInv, Unused, IInv, TypeOK
      <4>4. ~Contains(evict_queue, f) /\ Users(f) = {}
        BY <4>3, EmptyUnused DEF SInv, Unused
      <4> QED
        BY <4>2, <4>3, <4>4 DEF SInv, Queued
    <3>2. CASE unused_frames = <<>> /\ evict_queue # <<>>
      <4>1. PICK f \in Frame : f = Head(evict_queue)
        BY <3>2 DEF IInv, TypeOK
      <4>2. /\ unused_frames' = unused_frames /\ evict_queue' = Tail(evict_queue)
            /\ refs' = [refs EXCEPT ![r] = [refs[r] EXCEPT !.at = "evict_lock", !.frame = f]]
        BY <3>2, <4>1 DEF Victim, Become
      <4>3. /\ NoRepeats(evict_queue') /\ Contains(evict_queue, f)
            /\ \A g : Contains(evict_queue', g) <=> Contains(evict_queue, g) /\ g # f
        <5>1. evict_queue \in Seq(Frame) /\ evict_queue # <<>> /\ NoRepeats(evict_queue)
          BY <3>2 DEF SInv, Queued, IInv, TypeOK
        <5>2. /\ NoRepeats(Tail(evict_queue)) /\ Contains(evict_queue, Head(evict_queue))
              /\ ~Contains(Tail(evict_queue), Head(evict_queue))
              /\ \A x : Contains(Tail(evict_queue), x) \/ x = Head(evict_queue) <=> Contains(evict_queue, x)
          BY <5>1, TailHas
        <5> QED
          BY <4>1, <4>2, <5>2
      <4>4. ~BeingDequeued(f)
        BY <1>1, <1>2 DEF BeingDequeued, Getting
      <4>5. ~Contains(unused_frames, f) /\ Users(f) = {}
        BY <4>3, <4>4 DEF SInv, Unused, Queued
      <4> QED
        BY <4>2, <4>3, <4>5 DEF SInv, Unused
    <3> QED
      BY <1>4, <3>1, <3>2
  <2>2. PICK s : /\ s = [refs[r] EXCEPT !.at = "evict_lock", !.frame = f]
                 /\ refs' = [refs EXCEPT ![r] = s]
                 /\ s.at = "evict_lock" /\ s.frame = f /\ s.page_id = refs[r].page_id
    <3>1. refs[r] \in RefState
      BY CallTypes
    <3> DEFINE e == [refs[r] EXCEPT !.at = "evict_lock", !.frame = f]
    <3>2. e.at = "evict_lock" /\ e.frame = f /\ e.page_id = refs[r].page_id
      BY <3>1 DEF RefState
    <3> HIDE DEF e
    <3> QED
      BY <2>1, <3>2 DEF e
  <2>3. refs'[r] = s /\ \A q \in Ref \ {r} : refs'[q] = refs[q]
    BY <2>2, Others
  <2>4. \A g \in Frame : /\ Users(g)' = Users(g) /\ Loader(g)' = Loader(g)
                         /\ (BeingDequeued(g)' <=> BeingDequeued(g))
                         /\ (Taken(g)' <=> Taken(g) \/ g = f)
    <3>1. s.at = "evict_lock" /\ s.frame = f
      BY <2>2
    <3> QED
      BY <1>1, <2>3, <3>1 DEF Users, Counting, Loader, BeingDequeued, Taken
  <2>5. \A q \in Ref \ {r} : refs[q].at \in Taking => refs[q].frame # f
    BY <2>1 DEF SInv, CallsSound, Sound
  <2>6. CallsSound'
    <3>1. Sound(s)'
      <4>1. page_table[s.page_id] = NoFrame
        BY <1>1, <2>2 DEF SInv, CallsSound, Sound, Missing
      <4> QED
        BY <1>1, <2>1, <2>2, <4>1 DEF Sound, Caching, Located, Missing, Taking
    <3>2. ASSUME NEW q \in Ref \ {r} PROVE Sound(refs[q])'
      BY <1>1, <2>1, <2>3 DEF SInv, CallsSound, Sound
    <3> QED
      BY <2>3, <3>1, <3>2 DEF CallsSound, Sound
  <2>7. Calm' /\ OneGetter'
    BY <1>1, <1>2, <2>3 DEF SInv, Calm, OneGetter
  <2>8. TakenOnce'
    BY <2>2, <2>3, <2>5 DEF SInv, TakenOnce
  <2>9. TakenUnused'
    BY <2>1, <2>2, <2>3, <2>4, CallTypes DEF SInv, TakenUnused
  <2>10. SlotMapped' /\ Counts'
    BY <1>1, <2>4 DEF SInv, SlotMapped, Counts
  <2>11. Queued' /\ Unused'
    BY <1>1, <2>1, <2>4 DEF SInv, Queued, Unused
  <2>12. Covered'
    BY <2>1, <2>4 DEF SInv, Covered
  <2> QED
    BY <2>6, <2>7, <2>8, <2>9, <2>10, <2>11, <2>12 DEF SInv
<1> QED
  BY <1>3, <1>4

-----------------------------------------------------------------------------
(***************************************************************************)
(* Moves that exchange the page of a frame.                                *)
(***************************************************************************)

\* The page that leaves the frame has no users, and its call would be the second
\* to have the frame.
LEMMA SerialRemap ==
    ASSUME IInv, SInv, NEW r \in Ref, Remap(r)
    PROVE  SInv'
<1>1. /\ refs[r].at = "remap" /\ UNCHANGED <<pages, evict_queue, unused_frames>>
      /\ UNCHANGED <<poisoned, unwinding>>
  BY DEF Remap, panicVars
<1>2. PICK f \in Frame, p \in PageID :
         /\ f = refs[r].frame /\ p = refs[r].page_id /\ page_table[p] = NoFrame
         /\ ~Contains(evict_queue, f) /\ ~Contains(unused_frames, f) /\ Users(f) = {}
  BY <1>1, CallTypes DEF SInv, CallsSound, Sound, Taking, Missing, TakenUnused
<1>3. /\ page_table'[p] = f
      /\ \A q \in PageID \ {p} :
            page_table'[q] = IF q = pages[f].page_id THEN NoFrame ELSE page_table[q]
  BY <1>2 DEF Remap, Remapped
<1>4. PICK s : /\ refs' = [refs EXCEPT ![r] = s]
               /\ s.at = "load" /\ s.frame = f /\ s.page_id = p
  <2>1. refs[r] \in RefState /\ refs \in [Ref -> RefState]
    BY DEF IInv, TypeOK
  <2> DEFINE e == [refs[r] EXCEPT !.at = "load"]
  <2>2. refs' = [refs EXCEPT ![r] = e]
    BY <2>1 DEF Remap, Goto
  <2>3. e.at = "load" /\ e.frame = f /\ e.page_id = p
    BY <1>2, <2>1 DEF RefState
  <2> HIDE DEF e
  <2> QED
    BY <2>2, <2>3
<1>5. refs'[r] = s /\ \A q \in Ref \ {r} : refs'[q] = refs[q]
  BY <1>4, Others
<1>6. \A q \in Ref \ {r} : refs[q].at \notin Getting
  BY <1>1 DEF SInv, OneGetter, Getting
<1>7. \A g \in Frame : /\ Loader(g) = {} /\ Loader(g)' = IF g = f THEN {r} ELSE {}
                       /\ Users(g)' = Users(g) /\ (Taken(g)' <=> Taken(g))
                       /\ (BeingDequeued(g)' <=> BeingDequeued(g))
  BY <1>1, <1>2, <1>4, <1>5, <1>6 DEF Loader, Getting, Users, Counting, Taken, BeingDequeued
<1>8. ASSUME NEW q \in Ref \ {r}, refs[q].at \in Caching
      PROVE  /\ refs[q].page_id \in PageID /\ page_table[refs[q].page_id] \in Frame
             /\ pages[page_table[refs[q].page_id]].page_id = refs[q].page_id
             /\ page_table'[refs[q].page_id] = page_table[refs[q].page_id]
  <2>1. /\ refs[q].page_id \in PageID /\ page_table[refs[q].page_id] \in Frame
        /\ pages[page_table[refs[q].page_id]].page_id = refs[q].page_id
    BY <1>8, CallTypes DEF SInv, CallsSound, Sound, Caching
  <2>2. refs[q].page_id # p
    BY <1>2, <2>1
  <2>3. refs[q].page_id # pages[f].page_id
    <3>1. CASE refs[q].at \in Counting
      BY <1>2, <3>1 DEF Users
    <3>2. CASE refs[q].at = "enqueue"
      <4>1. refs[q].frame = page_table[refs[q].page_id] /\ refs[q].frame # f
        BY <1>1, <1>2, <3>2 DEF SInv, CallsSound, Sound, Located, TakenOnce, Taking
      <4> QED
        BY <1>2, <2>1, <4>1, SlotsDistinct
    <3> QED
      BY <1>6, <1>8, <3>1, <3>2 DEF Caching, Counting, Getting
  <2> QED
    BY <1>3, <2>1, <2>2, <2>3
<1>9. CallsSound'
  <2>1. Sound(s)'
    BY <1>1, <1>2, <1>3, <1>4 DEF Sound, Caching, Located, Missing, Taking
  <2>2. ASSUME NEW q \in Ref \ {r} PROVE Sound(refs[q])'
    <3>1. refs[q].at \notin Missing /\ refs[q].at # "load"
      BY <1>6 DEF Missing, Getting
    <3>2. Sound(refs[q]) /\ (refs[q].at \in Located => refs[q].at \in Caching)
      BY DEF SInv, CallsSound, Located, Caching
    <3> QED
      BY <1>1, <1>5, <1>8, <3>1, <3>2 DEF Sound
  <2> QED
    BY <1>5, <2>1, <2>2 DEF CallsSound, Sound
<1>10. Calm' /\ OneGetter'
  BY <1>1, <1>5, <1>6 DEF SInv, Calm, OneGetter
<1>11. TakenOnce' /\ TakenUnused'
  <2>1. TakenOnce'
    BY <1>1, <1>2, <1>4, <1>5 DEF SInv, TakenOnce, Taking
  <2>2. ASSUME NEW q \in Ref, refs'[q].at \in Taking PROVE Users(refs[q].frame)' = {}
    <3>1. PICK g \in Frame : g = refs'[q].frame /\ g = refs[q].frame /\ refs[q].at \in Taking
      BY <1>1, <1>2, <1>4, <1>5, <2>2, CallTypes DEF Taking
    <3>2. Users(g)' = {}
      BY <1>7, <3>1 DEF SInv, TakenUnused
    <3> QED
      BY <3>1, <3>2
  <2> QED
    BY <2>1, <2>2 DEF TakenUnused
<1>12. SlotMapped'
  <2> SUFFICES ASSUME NEW g \in Frame, pages[g].page_id # NoPage
               PROVE  page_table'[pages[g].page_id] = IF Loader(g)' = {} THEN g ELSE NoFrame
    BY <1>1 DEF SlotMapped
  <2>1. pages[g].page_id \in PageID /\ page_table[pages[g].page_id] = g
    BY <1>7 DEF SInv, SlotMapped, IInv, TypeOK, PageSlot
  <2>2. pages[g].page_id # p
    BY <1>2, <2>1
  <2>3. g # f => pages[g].page_id # pages[f].page_id
    BY SlotsDistinct
  <2> QED
    BY <1>3, <1>7, <2>1, <2>2, <2>3
<1>13. Counts' /\ Queued' /\ Unused' /\ Covered'
  BY <1>1, <1>7 DEF SInv, Counts, Queued, Unused, Covered
<1> QED
  BY <1>9, <1>10, <1>11, <1>12, <1>13 DEF SInv

\* load_new: the loaded page has one user, the call itself.
LEMMA SerialLoad ==
    ASSUME IInv, SInv, NEW r \in Ref, Load(r)
    PROVE  SInv'
<1>1. /\ refs[r].at = "load" /\ UNCHANGED <<tableVars, poisoned, unwinding>>
  BY DEF Load, panicVars
<1>2. PICK f \in Frame, p \in PageID :
         /\ f = refs[r].frame /\ p = refs[r].page_id /\ page_table[p] = f
         /\ ~Contains(evict_queue, f) /\ ~Contains(unused_frames, f) /\ Users(f) = {}
  BY <1>1, CallTypes DEF SInv, CallsSound, Sound, Taking, TakenUnused
<1>3. /\ pages'[f].page_id = p /\ pages'[f].pins = 1
      /\ \A g \in Frame \ {f} : pages'[g] = pages[g]
  BY <1>2 DEF Load, LoadedSlot, IInv, TypeOK
<1>4. PICK s : /\ s = Held(p) /\ s.at = "held" /\ s.page_id = p
               /\ refs' = [refs EXCEPT ![r] = s]
  BY <1>2 DEF Load, Become, Held, Free
<1>5. refs'[r] = s /\ \A q \in Ref \ {r} : refs'[q] = refs[q]
  BY <1>4, Others
<1>6. \A q \in Ref \ {r} : refs[q].at \notin Getting
  BY <1>1 DEF SInv, OneGetter, Getting
<1>7. \A g \in Frame : /\ Loader(g)' = {} /\ Loader(g) = IF g = f THEN {r} ELSE {}
                       /\ ~BeingDequeued(g) /\ (Taken(g) => Taken(g)' \/ g = f)
  BY <1>1, <1>2, <1>4, <1>5, <1>6 DEF Loader, Getting, BeingDequeued, Taken
<1>8. \A g \in Frame : pages[g].page_id # p
  BY <1>2, <1>7 DEF SInv, SlotMapped
<1>9. ASSUME NEW q \in Ref \ {r}, refs[q].at \in Caching
      PROVE  /\ refs[q].page_id # p
             /\ page_table[refs[q].page_id] \in Frame \ {f}
             /\ pages[page_table[refs[q].page_id]].page_id = refs[q].page_id
  <2>1. /\ refs[q].page_id \in PageID /\ page_table[refs[q].page_id] \in Frame
        /\ pages[page_table[refs[q].page_id]].page_id = refs[q].page_id
    BY <1>9, CallTypes DEF SInv, CallsSound, Sound, Caching
  <2> QED
    BY <1>7, <1>8, <2>1 DEF SInv, SlotMapped
<1>10. Users(f)' = {r} /\ \A g \in Frame \ {f} : Users(g)' = Users(g)
  <2>1. ASSUME NEW q \in Ref \ {r}, refs[q].at \in Counting PROVE refs[q].page_id # p
    BY <1>9, <2>1 DEF Counting, Caching
  <2>2. Users(f)' = {r}
    BY <1>3, <1>4, <1>5, <2>1 DEF Users, Counting
  <2>3. ASSUME NEW g \in Frame \ {f} PROVE Users(g)' = Users(g)
    BY <1>1, <1>3, <1>4, <1>5, <1>8 DEF Users, Counting
  <2> QED
    BY <2>2, <2>3
<1>11. CallsSound'
  <2>1. Sound(s)'
    BY <1>1, <1>2, <1>3, <1>4 DEF Sound, Caching, Located, Missing, Taking, tableVars
  <2>2. ASSUME NEW q \in Ref \ {r} PROVE Sound(refs[q])'
    BY <1>1, <1>3, <1>5, <1>9 DEF SInv, CallsSound, Sound, tableVars
  <2> QED
    BY <1>5, <2>1, <2>2 DEF CallsSound, Sound
<1>12. Calm' /\ OneGetter'
  BY <1>1, <1>5, <1>6 DEF SInv, Calm, OneGetter
<1>13. TakenOnce' /\ TakenUnused'
  <2>1. \A q \in Ref : refs'[q].at \in Taking =>
            q # r /\ refs'[q] = refs[q] /\ refs[q].frame \in Frame \ {f}
    BY <1>1, <1>2, <1>4, <1>5, CallTypes DEF SInv, TakenOnce, Taking
  <2>2. ASSUME NEW q \in Ref, refs'[q].at \in Taking PROVE Users(refs[q].frame)' = {}
    <3>1. PICK g \in Frame \ {f} : g = refs[q].frame /\ g = refs'[q].frame
      BY <2>1, <2>2
    <3>2. Users(g)' = {}
      BY <1>10, <2>1, <2>2, <3>1 DEF SInv, TakenUnused
    <3> QED
      BY <3>1, <3>2
  <2> QED
    BY <2>1, <2>2 DEF SInv, TakenOnce, TakenUnused
<1>14. SlotMapped'
  BY <1>1, <1>2, <1>3, <1>7 DEF SInv, SlotMapped, tableVars
<1>15. Counts'
  BY <1>3, <1>10, FS_Singleton DEF SInv, Counts
<1>16. Queued'
  BY <1>1, <1>2, <1>7, <1>10 DEF SInv, Queued, tableVars
<1>17. Unused'
  BY <1>1, <1>2, <1>3 DEF SInv, Unused, tableVars
<1>18. Covered'
  BY <1>1, <1>7, <1>10 DEF SInv, Covered, tableVars
<1> QED
  BY <1>11, <1>12, <1>13, <1>14, <1>15, <1>16, <1>17, <1>18 DEF SInv

-----------------------------------------------------------------------------
(***************************************************************************)
(* The theorems.                                                           *)
(***************************************************************************)

LEMMA SerialNext == ~OverlappingGets /\ IInv /\ SInv /\ [Next]_vars => SInv'
<1> SUFFICES ASSUME ~OverlappingGets, IInv, SInv, [Next]_vars PROVE SInv'
  OBVIOUS
<1>1. ASSUME NEW r \in Ref, Begin(r) PROVE SInv'
  <2>1. CASE \E p \in PageID : BeginGet(r, p)
    BY <2>1, SerialBeginGet
  <2>2. CASE BeginUse(r, "read_lock") \/ BeginUse(r, "write_lock") \/ BeginDrop(r)
    BY <2>2, SerialFindFrame DEF BeginUse, BeginDrop
  <2> QED
    BY <1>1, <2>1, <2>2 DEF Begin
<1>2. ASSUME NEW r \in Ref, GetStep(r) PROVE SInv'
  <2>1. CASE PinFind(r)
    BY <2>1, SerialFindFrame DEF PinFind
  <2> QED
    BY <1>2, <2>1, SerialPinLock, SerialDequeue, SerialVictim, SerialEvictLock, SerialRemap,
       SerialLoad DEF GetStep
<1>3. ASSUME NEW r \in Ref, DropStep(r) PROVE SInv'
  BY <1>3, SerialUnpinLock, SerialEnqueue DEF DropStep
<1>4. ASSUME NEW r \in Ref PROVE ~PoisonPanic(r)
  BY DEF PoisonPanic, SInv, Calm
<1>5. CASE Stopped
  BY <1>5, SerialStutter DEF Stopped
<1> QED
  BY <1>1, <1>2, <1>3, <1>4, <1>5, SerialNewPage, SerialUse, SerialStutter DEF Next

\* While calls of get_page_ref do not overlap, the invariant holds of every
\* reachable state.
THEOREM SerialInvariance == ~OverlappingGets /\ Spec => [](IInv /\ SInv)
<1> SUFFICES ASSUME ~OverlappingGets PROVE Spec => [](IInv /\ SInv)
  OBVIOUS
<1>1. Init => IInv /\ SInv
  BY InitIInv, InitSInv
<1>2. (IInv /\ SInv) /\ [Next]_vars => (IInv /\ SInv)'
  BY NextIInv, SerialNext
<1> QED
  BY <1>1, <1>2, PTL DEF Spec

\* Eviction never takes a page with a live PageRef.
THEOREM PinnedIsCached == ~OverlappingGets /\ Spec => []PinnedStaysCached
<1>1. IInv /\ SInv => PinnedStaysCached
  BY DEF SInv, CallsSound, Sound, Caching, PinnedStaysCached, Counted, Mapped
<1> QED
  BY <1>1, SerialInvariance, PTL

\* Every pin count is the number of PageRefs to the page in the frame.
THEOREM PinsAreExact == ~OverlappingGets /\ Spec => []PinsCountRefs
<1>1. IInv /\ SInv => PinsCountRefs
  BY DEF SInv, Counts, Users, Counting, PinsCountRefs, Counted
<1> QED
  BY <1>1, SerialInvariance, PTL

\* No lookup, no lock and no arithmetic of the pool panics.
THEOREM NeverPanics == ~OverlappingGets /\ Spec => []NoPanic
<1>1. IInv /\ SInv => NoPanic
  BY DEF SInv, Calm, NoPanic
<1> QED
  BY <1>1, SerialInvariance, PTL

\* No page is in two frames.
THEOREM PagesInOneFrame == ~OverlappingGets /\ Spec => []OneFramePerPage
<1>1. IInv /\ SInv => OneFramePerPage
  BY SlotsDistinct DEF OneFramePerPage
<1> QED
  BY <1>1, SerialInvariance, PTL

\* Of four marks the one at k is the only one.
LEMMA OneMark ==
    ASSUME NEW a \in BOOLEAN, NEW b \in BOOLEAN, NEW c \in BOOLEAN, NEW d \in BOOLEAN,
           a \/ b \/ c \/ d,
           ~(a /\ b), ~(a /\ c), ~(a /\ d), ~(b /\ c), ~(b /\ d), ~(c /\ d)
    PROVE  Cardinality({h \in 1 .. 4 : <<a, b, c, d>>[h]}) = 1
<1> DEFINE M == {h \in 1 .. 4 : <<a, b, c, d>>[h]}
<1>1. /\ 1 \in M <=> a
      /\ 2 \in M <=> b
      /\ 3 \in M <=> c
      /\ 4 \in M <=> d
  OBVIOUS
<1>2. \A h \in M : h \in {1, 2, 3, 4}
  OBVIOUS
<1> HIDE DEF M
<1>3. M = {1} \/ M = {2} \/ M = {3} \/ M = {4}
  BY <1>1, <1>2
<1> QED
  BY <1>3, FS_Singleton DEF M

\* No frame is lost and none is in two places.
THEOREM FramesAreAccounted == ~OverlappingGets /\ Spec => []FramesAccounted
<1>1. IInv /\ SInv => FramesAccounted
  <2> SUFFICES ASSUME IInv, SInv, NEW f \in Frame
               PROVE  LET unused    == Contains(unused_frames, f)
                          evictable == Contains(evict_queue, f) /\ ~BeingDequeued(f)
                          pinned    == pages[f].pins > 0 /\ ~Taken(f)
                      IN  Cardinality({h \in 1 .. 4 :
                              <<unused, evictable, pinned, Taken(f)>>[h]}) = 1
    BY DEF FramesAccounted
  <2>1. pages[f].pins > 0 <=> Users(f) # {}
    BY UsersFinite DEF SInv, Counts
  <2>2. Taken(f) => /\ Users(f) = {}
                    /\ ~Contains(unused_frames, f) /\ ~Contains(evict_queue, f)
    BY DEF Taken, SInv, TakenUnused, CallsSound, Sound, Taking
  <2>3. BeingDequeued(f) => Users(f) # {}
    BY DEF BeingDequeued, SInv, CallsSound, Sound, Caching, Located, Users, Counting
  <2>4. Contains(unused_frames, f) => Users(f) = {} /\ ~Contains(evict_queue, f)
    BY EmptyUnused DEF SInv, Unused
  <2>5. Contains(evict_queue, f) => Users(f) = {} \/ BeingDequeued(f)
    BY DEF SInv, Queued
  <2>6. Contains(unused_frames, f) \/ Contains(evict_queue, f) \/ Users(f) # {} \/ Taken(f)
    BY DEF SInv, Covered
  <2> DEFINE a == Contains(unused_frames, f)
             b == Contains(evict_queue, f) /\ ~BeingDequeued(f)
             c == pages[f].pins > 0 /\ ~Taken(f)
             d == Taken(f)
  <2>7. /\ a \in BOOLEAN /\ b \in BOOLEAN /\ c \in BOOLEAN /\ d \in BOOLEAN
    BY DEF Contains, Taken
  <2>8. /\ a \/ b \/ c \/ d
        /\ ~(a /\ b) /\ ~(a /\ c) /\ ~(a /\ d) /\ ~(b /\ c) /\ ~(b /\ d) /\ ~(c /\ d)
    BY <2>1, <2>2, <2>3, <2>4, <2>5, <2>6
  <2> HIDE DEF a, b, c, d
  <2>9. Cardinality({h \in 1 .. 4 : <<a, b, c, d>>[h]}) = 1
    BY <2>7, <2>8, OneMark
  <2> QED
    BY <2>9 DEF a, b, c, d
<1> QED
  BY <1>1, SerialInvariance, PTL

\* A lookup ends without a PageRef only if there is nothing to evict.
LEMMA Exhausted ==
    ASSUME IInv, SInv, [Next]_vars, NEW r \in Ref,
           refs[r].at = "victim", refs'[r].at = "free"
    PROVE  unused_frames = <<>> /\ evict_queue = <<>>
<1>1. refs' # refs
  OBVIOUS
<1>2. PICK q \in Ref : Begin(q) \/ GetStep(q) \/ UseStep(q) \/ DropStep(q)
  BY <1>1 DEF Next, NewPage, Stopped, vars, PoisonPanic, SInv, Calm
<1>3. \E s : refs' = [refs EXCEPT ![q] = s]
  BY <1>2 DEF Begin, BeginGet, BeginUse, BeginDrop, GetStep, PinFind, PinLock, Dequeue, Victim,
              EvictLock, Remap, Load, UseStep, Read, Write, DropStep, UnpinLock, Enqueue,
              FindFrame, FindTarget, PanicLocked, Panic, Become, Goto
<1>4. q = r
  BY <1>3, Others
<1>5. Victim(r)
  BY <1>2, <1>4 DEF Begin, BeginGet, BeginUse, BeginDrop, GetStep, PinFind, PinLock, Dequeue,
                    EvictLock, Remap, Load, UseStep, Read, Write, DropStep, UnpinLock, Enqueue
<1>6. refs \in [Ref -> RefState] /\ refs[r] \in RefState
  BY DEF IInv, TypeOK
<1>7. \A f : [refs[r] EXCEPT !.at = "evict_lock", !.frame = f].at = "evict_lock"
  BY <1>6 DEF RefState
<1>8. ASSUME NEW f, refs' = [refs EXCEPT ![r] = [refs[r] EXCEPT !.at = "evict_lock", !.frame = f]]
      PROVE  FALSE
  BY <1>6, <1>7, <1>8
<1> QED
  BY <1>5, <1>8 DEF Victim, Become

\* NoFreeFrames is returned only when live PageRefs hold as many distinct pages
\* as there are frames: the frames and these pages are in bijection.
THEOREM ExhaustedOnlyThen == ~OverlappingGets /\ Spec => ExhaustedOnlyWhenAllPinned
<1> DEFINE Live == {s \in Ref : Counted(s) \/ refs[s].at = "enqueue"}
           LivePages == {refs[s].page_id : s \in Live}
           Step == \A r \in Ref : refs[r].at = "victim" /\ refs'[r].at = "free" =>
                       Cardinality(LivePages) = Size
<1>1. IInv /\ SInv /\ [Next]_vars => [Step]_vars
  <2> SUFFICES ASSUME IInv, SInv, [Next]_vars, NEW r \in Ref,
                      refs[r].at = "victim", refs'[r].at = "free"
               PROVE  Cardinality(LivePages) = Size
    OBVIOUS
  <2>1. unused_frames = <<>> /\ evict_queue = <<>>
    BY Exhausted
  <2>2. ASSUME NEW s \in Live
        PROVE  /\ refs[s].page_id \in PageID /\ page_table[refs[s].page_id] \in Frame
               /\ pages[page_table[refs[s].page_id]].page_id = refs[s].page_id
    <3>1. refs[s].at \in Caching
      BY DEF Counted, Caching
    <3> QED
      BY <3>1, CallTypes DEF SInv, CallsSound, Sound, Caching
  <2>3. ASSUME NEW f \in Frame PROVE \E s \in Live : refs[s].page_id = pages[f].page_id
    <3>1. CASE Users(f) # {}
      BY <3>1 DEF Users, Counting, Counted
    <3>2. CASE Users(f) = {}
      <4>1. Taken(f)
        BY <2>1, <3>2 DEF SInv, Covered, Contains
      <4>2. PICK q \in Ref : refs[q].at \in Taking /\ refs[q].frame = f
        BY <4>1 DEF Taken, Taking
      <4>3. refs[q].at = "enqueue"
        BY <4>2 DEF SInv, OneGetter, Getting, Taking
      <4> QED
        BY <4>2, <4>3 DEF SInv, CallsSound, Sound, Caching, Located
    <3> QED
      BY <3>1, <3>2
  <2> HIDE DEF Live
  <2> DEFINE PageIn == [f \in Frame |-> pages[f].page_id]
  <2>4. PageIn \in [Frame -> LivePages]
    BY <2>3
  <2>5. \A p \in LivePages : \E f \in Frame : PageIn[f] = p
    BY <2>2
  <2>6. \A f, g \in Frame : PageIn[f] = PageIn[g] => f = g
    <3> SUFFICES ASSUME NEW f \in Frame, NEW g \in Frame, pages[f].page_id = pages[g].page_id
                 PROVE  f = g
      OBVIOUS
    <3>1. pages[f].page_id # NoPage
      BY <2>2, <2>3
    <3> QED
      BY <3>1, SlotsDistinct
  <2> HIDE DEF PageIn, LivePages
  <2>7. PageIn \in Bijection(Frame, LivePages)
    BY <2>4, <2>5, <2>6 DEF Bijection, Injection, Surjection, IsInjective
  <2>8. IsFiniteSet(Frame) /\ Cardinality(Frame) = Size
    <3>1. IsFiniteSet(0 .. Size - 1) /\ Cardinality(0 .. Size - 1) =
              IF 0 > Size - 1 THEN 0 ELSE Size - 1 - 0 + 1
      BY FS_Interval
    <3> QED
      BY <3>1
  <2> QED
    BY <2>7, <2>8, FS_Bijection DEF ExistsBijection
<1> QED
  BY <1>1, SerialInvariance, PTL DEF Spec, ExhaustedOnlyWhenAllPinned, Step, LivePages, Live

(***************************************************************************)
(* The pool as a store of pages: where the current content of a page is,   *)
(* and the simulation of PageStore, step by step.                          *)
(***************************************************************************)

\* Only pages that new_page returned are cached or asked for, and the disk
\* holds nothing for the others.
SlotsAllocated == \A f \in Frame : pages[f].page_id # NoPage => pages[f].page_id < num_pages
CallsAllocated == \A r \in Ref : refs[r].at # "free" => refs[r].page_id < num_pages
RestIsZero == \A p \in PageID : p >= num_pages => disk[p] = Zero

\* What a slot holds is on disk unless it is marked dirty, and in any case
\* from the write-back of an eviction until the slot is overwritten.
OnDisk(slot) == slot.page_id # NoPage => disk[slot.page_id] = slot.content
CleanOnDisk == \A f \in Frame : ~pages[f].is_dirty => OnDisk(pages[f])
WrittenBack == \A r \in Ref : refs[r].at \in {"remap", "load"} => OnDisk(pages[refs[r].frame])

DInv == SlotsAllocated /\ CallsAllocated /\ RestIsZero /\ CleanOnDisk /\ WrittenBack

USE PoolAssumption DEF PoolAssumption, Frame, PageID

LEMMA InitDInv == Init => DInv
<1> SUFFICES ASSUME Init PROVE DInv
  OBVIOUS
<1> USE DEF Init
<1>1. \A r \in Ref : refs[r].at = "free"
  BY DEF Free
<1> QED
  BY <1>1 DEF DInv, SlotsAllocated, CallsAllocated, RestIsZero, CleanOnDisk, WrittenBack, OnDisk

\* A move of one call that touches neither the disk nor the content of a slot.
LEMMA DataMove ==
    ASSUME IInv, DInv, NEW r \in Ref, NEW s, refs' = [refs EXCEPT ![r] = s],
           UNCHANGED diskVars,
           \A f \in Frame : /\ pages'[f].page_id = pages[f].page_id
                            /\ pages'[f].content = pages[f].content
                            /\ pages'[f].is_dirty = pages[f].is_dirty,
           s.at # "free" => s.page_id < num_pages,
           s.at \in {"remap", "load"} => /\ refs[r].at \in {"remap", "load"}
                                         /\ s.frame = refs[r].frame
    PROVE  DInv'
<1>1. refs'[r] = s /\ \A q \in Ref \ {r} : refs'[q] = refs[q]
  BY Others
<1>2. \A f \in Frame : OnDisk(pages[f]) => OnDisk(pages[f])'
  BY DEF OnDisk, diskVars
<1>3. SlotsAllocated' /\ CallsAllocated' /\ RestIsZero'
  BY <1>1 DEF DInv, SlotsAllocated, CallsAllocated, RestIsZero, diskVars
<1>4. CleanOnDisk'
  BY <1>2 DEF DInv, CleanOnDisk
<1>5. WrittenBack'
  <2> SUFFICES ASSUME NEW q \in Ref, refs'[q].at \in {"remap", "load"}
               PROVE  OnDisk(pages[refs[q].frame])'
    BY DEF WrittenBack
  <2>1. refs[q].at \in {"remap", "load"} /\ refs'[q].frame = refs[q].frame
    BY <1>1
  <2>2. PICK f \in Frame : f = refs[q].frame
    BY <2>1, CallTypes DEF Taking
  <2>3. OnDisk(pages[f])'
    BY <1>2, <2>1, <2>2 DEF DInv, WrittenBack
  <2> QED
    BY <2>1, <2>2, <2>3 DEF OnDisk
<1> QED
  BY <1>3, <1>4, <1>5 DEF DInv

\* new_page writes zeros where the disk has them.
LEMMA NewPageData == IInv /\ DInv /\ NewPage => DInv' /\ disk' = disk
<1> SUFFICES ASSUME IInv, DInv, NewPage PROVE DInv' /\ disk' = disk
  OBVIOUS
<1>1. num_pages \in PageID /\ disk[num_pages] = Zero
  BY DEF NewPage, IInv, TypeOK, DInv, RestIsZero
<1>2. disk' = disk /\ num_pages' = num_pages + 1 /\ UNCHANGED <<pages, refs>>
  BY <1>1 DEF NewPage, IInv, TypeOK
<1>3. \A p \in PageID : p < num_pages => p < num_pages'
  BY <1>1, <1>2
<1>4. \A f \in Frame : pages[f].page_id # NoPage => pages[f].page_id \in PageID
  BY DEF IInv, TypeOK, PageSlot
<1>5. SlotsAllocated' /\ CallsAllocated'
  BY <1>2, <1>3, <1>4, CallTypes DEF DInv, SlotsAllocated, CallsAllocated
<1>6. RestIsZero'
  BY <1>1, <1>2 DEF DInv, RestIsZero
<1>7. CleanOnDisk' /\ WrittenBack'
  BY <1>2 DEF DInv, CleanOnDisk, WrittenBack, OnDisk
<1> QED
  BY <1>2, <1>5, <1>6, <1>7 DEF DInv

\* The write-back leaves the slot's content on disk, whether it was dirty or not.
LEMMA EvictLockData ==
    ASSUME IInv, SInv, DInv, NEW r \in Ref, EvictLock(r)
    PROVE  DInv'
<1>1. PICK f \in Frame : f = refs[r].frame
  BY CallTypes DEF EvictLock, Taking
<1>2. PICK s : s = [refs[r] EXCEPT !.at = "remap"] /\ refs' = [refs EXCEPT ![r] = s]
  BY DEF EvictLock, Goto, IInv, TypeOK
<1>3. s.at = "remap" /\ s.frame = f /\ s.page_id = refs[r].page_id /\ refs[r].at = "evict_lock"
  BY <1>1, <1>2, CallTypes DEF RefState, EvictLock
<1>4. refs'[r] = s /\ \A q \in Ref \ {r} : refs'[q] = refs[q]
  BY <1>2, Others
<1>5. UNCHANGED <<pages, num_pages>> /\ disk' = WriteBack(pages[f])
  BY <1>1 DEF EvictLock
<1>6. pages[f].is_dirty => pages[f].page_id \in PageID /\ pages[f].page_id < num_pages
  BY DEF IInv, DirtyHasPage, TypeOK, PageSlot, DInv, SlotsAllocated
<1>7. /\ pages[f].is_dirty => disk'[pages[f].page_id] = pages[f].content
      /\ ~pages[f].is_dirty => disk' = disk
      /\ \A p \in PageID : ~pages[f].is_dirty \/ p # pages[f].page_id => disk'[p] = disk[p]
  BY <1>5, <1>6 DEF WriteBack, IInv, TypeOK
<1>8. OnDisk(pages[f])'
  BY <1>5, <1>7 DEF DInv, CleanOnDisk, OnDisk
<1>9. ASSUME NEW g \in Frame, g # f, OnDisk(pages[g]) PROVE OnDisk(pages[g])'
  <2>1. pages[g].page_id # NoPage => pages[g].page_id # pages[f].page_id
    BY <1>9, SlotsDistinct
  <2>2. pages[g].page_id # NoPage => pages[g].page_id \in PageID
    BY DEF IInv, TypeOK, PageSlot
  <2> QED
    BY <1>5, <1>7, <1>9, <2>1, <2>2 DEF OnDisk
<1>10. SlotsAllocated' /\ CallsAllocated'
  BY <1>3, <1>4, <1>5 DEF DInv, SlotsAllocated, CallsAllocated
<1>11. RestIsZero'
  BY <1>5, <1>6, <1>7 DEF DInv, RestIsZero, IInv, TypeOK
<1>12. CleanOnDisk'
  BY <1>5, <1>8, <1>9 DEF DInv, CleanOnDisk, OnDisk
<1>13. WrittenBack'
  <2>1. \A q \in Ref \ {r} : refs[q].at \notin {"remap", "load"}
    BY <1>3 DEF SInv, OneGetter, Getting
  <2> QED
    BY <1>3, <1>4, <1>8, <2>1 DEF WrittenBack, OnDisk
<1> QED
  BY <1>10, <1>11, <1>12, <1>13 DEF DInv

\* load_new copies the page from the disk.
LEMMA LoadData ==
    ASSUME IInv, SInv, DInv, NEW r \in Ref, Load(r)
    PROVE  DInv'
<1>1. PICK f \in Frame, p \in PageID : f = refs[r].frame /\ p = refs[r].page_id
  BY CallTypes DEF Load, Taking
<1>2. PICK s : s = Held(p) /\ s.at = "held" /\ s.page_id = p /\ refs' = [refs EXCEPT ![r] = s]
  BY <1>1 DEF Load, Become, Held, Free
<1>3. refs'[r] = s /\ \A q \in Ref \ {r} : refs'[q] = refs[q]
  BY <1>2, Others
<1>4. /\ pages'[f].page_id = p /\ pages'[f].content = disk[p] /\ ~pages'[f].is_dirty
      /\ \A g \in Frame \ {f} : pages'[g] = pages[g]
      /\ UNCHANGED diskVars /\ refs[r].at = "load"
  BY <1>1 DEF Load, LoadedSlot, IInv, TypeOK
<1>5. SlotsAllocated' /\ CallsAllocated' /\ RestIsZero'
  BY <1>1, <1>2, <1>3, <1>4 DEF DInv, SlotsAllocated, CallsAllocated, RestIsZero, diskVars
<1>6. CleanOnDisk'
  BY <1>4 DEF DInv, CleanOnDisk, OnDisk, diskVars
<1>7. WrittenBack'
  <2>1. \A q \in Ref : refs'[q].at \notin {"remap", "load"}
    BY <1>2, <1>3, <1>4 DEF SInv, OneGetter, Getting
  <2> QED
    BY <2>1 DEF WrittenBack
<1> QED
  BY <1>5, <1>6, <1>7 DEF DInv

\* A write marks its slot dirty, and no eviction has the slot's lock.
LEMMA WriteData ==
    ASSUME IInv, SInv, DInv, NEW r \in Ref, NEW v \in Value, Write(r, v)
    PROVE  DInv'
<1>1. PICK f \in Frame : f = refs[r].frame
  BY CallTypes DEF Write, Located
<1>2. PICK s : /\ s = Held(refs[r].page_id) /\ s.at = "held" /\ s.page_id = refs[r].page_id
               /\ refs' = [refs EXCEPT ![r] = s]
  BY DEF Write, Become, Held, Free
<1>3. refs'[r] = s /\ \A q \in Ref \ {r} : refs'[q] = refs[q]
  BY <1>2, Others
<1>4. pages' = [pages EXCEPT ![f] = WrittenSlot(pages[f], v)] /\ UNCHANGED diskVars
      /\ CanLock(f) /\ refs[r].at = "write_lock"
  BY <1>1 DEF Write, IInv, TypeOK
<1>5. /\ pages'[f].page_id = pages[f].page_id /\ pages'[f].is_dirty
      /\ \A g \in Frame \ {f} : pages'[g] = pages[g]
  BY <1>4 DEF WrittenSlot, IInv, TypeOK, PageSlot
<1>6. SlotsAllocated' /\ CallsAllocated' /\ RestIsZero'
  BY <1>2, <1>3, <1>4, <1>5 DEF DInv, SlotsAllocated, CallsAllocated, RestIsZero, diskVars
<1>7. CleanOnDisk'
  BY <1>4, <1>5 DEF DInv, CleanOnDisk, OnDisk, diskVars
<1>8. WrittenBack'
  <2> SUFFICES ASSUME NEW q \in Ref, refs'[q].at \in {"remap", "load"}
               PROVE  OnDisk(pages[refs[q].frame])'
    BY DEF WrittenBack
  <2>1. q # r /\ refs'[q] = refs[q]
    BY <1>2, <1>3
  <2>2. refs[q].frame # f
    BY <1>4, <2>1 DEF CanLock, Locked, Holding
  <2>3. PICK g \in Frame : g = refs[q].frame /\ g # f
    BY <2>1, <2>2, CallTypes DEF Taking
  <2>4. OnDisk(pages[g])
    BY <2>1, <2>3 DEF DInv, WrittenBack
  <2> QED
    BY <1>4, <1>5, <2>1, <2>3, <2>4 DEF OnDisk, diskVars
<1> QED
  BY <1>6, <1>7, <1>8 DEF DInv

-----------------------------------------------------------------------------
(***************************************************************************)
(* The calls that change neither the content of a page nor where it is.    *)
(***************************************************************************)

\* The page that a client holds through a PageRef.
Kept(s) == IF s.at \in {"held", "read_lock", "write_lock", "unpin_lock"}
           THEN s.page_id ELSE NoPage

QuietMove(r, s) ==
    /\ refs' = [refs EXCEPT ![r] = s] /\ UNCHANGED <<page_table, disk, num_pages>>
    /\ \A f \in Frame : /\ pages'[f].page_id = pages[f].page_id
                        /\ pages'[f].content = pages[f].content
                        /\ pages'[f].is_dirty = pages[f].is_dirty
    /\ s.at # "free" => s.page_id < num_pages
    /\ s.at \notin {"remap", "load"} /\ refs[r].at # "load"
    /\ Kept(s) = NoPage \/ Kept(refs[r]) \in {NoPage, Kept(s)}

\* page() finds the page of a PageRef.
LEMMA FindFrameQuiet ==
    ASSUME IInv, SInv, DInv, Calm', NEW r \in Ref,
           NEW found \in {"pin_lock", "unpin_lock", "read_lock", "write_lock"},
           refs[r].at \in {"pin", "held"}, FindFrame(r, found)
    PROVE  \E s : QuietMove(r, s)
<1>1. Mapped(r)
  BY DEF FindFrame, Panic, Calm
<1>2. PICK s : /\ s = [refs[r] EXCEPT !.at = found, !.frame = page_table[refs[r].page_id]]
               /\ refs' = [refs EXCEPT ![r] = s]
  BY <1>1 DEF FindFrame, Become
<1>3. s.at = found /\ s.page_id = refs[r].page_id
  BY <1>2, CallTypes DEF RefState
<1>4. UNCHANGED <<pages, page_table, disk, num_pages>>
  BY DEF FindFrame, tableVars, diskVars
<1> QED
  BY <1>2, <1>3, <1>4 DEF QuietMove, Kept, DInv, CallsAllocated

\* pin() and unpin() change the count only.
LEMMA PinLockQuiet ==
    ASSUME IInv, SInv, DInv, Calm', NEW r \in Ref, PinLock(r)
    PROVE  \E s : QuietMove(r, s)
<1>1. PICK f \in Frame : f = refs[r].frame
  BY CallTypes DEF PinLock, Located
<1>2. \A g \in Frame : /\ pages'[g].page_id = pages[g].page_id
                       /\ pages'[g].content = pages[g].content
                       /\ pages'[g].is_dirty = pages[g].is_dirty
  <2>1. pages' = [pages EXCEPT ![f] = PinnedSlot(pages[f])]
    BY <1>1 DEF PinLock, IInv, TypeOK
  <2> QED
    BY <2>1 DEF PinnedSlot, IInv, TypeOK, PageSlot
<1>3. UNCHANGED <<page_table, disk, num_pages>> /\ refs[r].at = "pin_lock"
  BY DEF PinLock, tableVars, diskVars
<1>4. PICK s : /\ refs' = [refs EXCEPT ![r] = s]
               /\ s = IF pages[f].pins = 0
                      THEN [refs[r] EXCEPT !.at = "dequeue",
                                           !.target = page_table[refs[r].page_id]]
                      ELSE Held(refs[r].page_id)
  BY <1>1 DEF PinLock, FindTarget, PanicLocked, Panic, Calm, Become
<1>5. s.at \in {"dequeue", "held"} /\ s.page_id = refs[r].page_id
  BY <1>4, CallTypes DEF RefState, Held, Free
<1> QED
  BY <1>2, <1>3, <1>4, <1>5 DEF QuietMove, Kept, DInv, CallsAllocated

LEMMA UnpinLockQuiet ==
    ASSUME IInv, SInv, DInv, Calm', NEW r \in Ref, UnpinLock(r)
    PROVE  \E s : QuietMove(r, s)
<1>1. PICK f \in Frame : f = refs[r].frame
  BY CallTypes DEF UnpinLock, Located
<1>2. pages[f].pins # 0
  BY <1>1 DEF UnpinLock, PanicLocked, Panic, Calm
<1>3. \A g \in Frame : /\ pages'[g].page_id = pages[g].page_id
                       /\ pages'[g].content = pages[g].content
                       /\ pages'[g].is_dirty = pages[g].is_dirty
  <2>1. pages' = [pages EXCEPT ![f].pins = pages[f].pins - 1]
    BY <1>1, <1>2 DEF UnpinLock
  <2> QED
    BY <2>1 DEF IInv, TypeOK, PageSlot
<1>4. UNCHANGED <<page_table, disk, num_pages>> /\ refs[r].at = "unpin_lock"
  BY DEF UnpinLock, tableVars, diskVars
<1>5. PICK s : /\ refs' = [refs EXCEPT ![r] = s]
               /\ s = IF pages[f].pins = 1
                      THEN [refs[r] EXCEPT !.at = "enqueue",
                                           !.target = page_table[refs[r].page_id]]
                      ELSE Free
  BY <1>1, <1>2 DEF UnpinLock, FindTarget, PanicLocked, Panic, Calm, Become
<1>6. s.at \in {"enqueue", "free"} /\ (s.at = "enqueue" => s.page_id = refs[r].page_id)
  BY <1>5, CallTypes DEF RefState, Free
<1> QED
  BY <1>3, <1>4, <1>5, <1>6 DEF QuietMove, Kept, DInv, CallsAllocated

\* The queue operations and the start of a lookup.
LEMMA VictimQuiet ==
    ASSUME IInv, SInv, DInv, NEW r \in Ref, Victim(r)
    PROVE  \E s : QuietMove(r, s)
<1>1. UNCHANGED <<pages, page_table, disk, num_pages>> /\ refs[r].at = "victim"
  BY DEF Victim, diskVars
<1>2. \E s : /\ refs' = [refs EXCEPT ![r] = s]
             /\ s = Free \/ \E f : s = [refs[r] EXCEPT !.at = "evict_lock", !.frame = f]
  <2>1. CASE Become(r, Free)
    BY <2>1 DEF Become
  <2>2. ASSUME NEW f, Become(r, [refs[r] EXCEPT !.at = "evict_lock", !.frame = f])
        PROVE  refs' = [refs EXCEPT ![r] = [refs[r] EXCEPT !.at = "evict_lock", !.frame = f]]
    BY <2>2 DEF Become
  <2>3. \/ Become(r, Free)
        \/ Become(r, [refs[r] EXCEPT !.at = "evict_lock", !.frame = Last(unused_frames)])
        \/ Become(r, [refs[r] EXCEPT !.at = "evict_lock", !.frame = Head(evict_queue)])
    BY DEF Victim
  <2> QED
    BY <2>1, <2>2, <2>3
<1>3. PICK s : /\ refs' = [refs EXCEPT ![r] = s]
               /\ s = Free \/ \E f : s = [refs[r] EXCEPT !.at = "evict_lock", !.frame = f]
  BY <1>2
<1>4. s.at \in {"evict_lock", "free"} /\ (s.at = "evict_lock" => s.page_id = refs[r].page_id)
  <2>1. CASE s = Free
    BY <2>1 DEF Free
  <2>2. ASSUME NEW f, s = [refs[r] EXCEPT !.at = "evict_lock", !.frame = f]
        PROVE  s.at = "evict_lock" /\ s.page_id = refs[r].page_id
    BY <2>2, CallTypes DEF RefState
  <2> QED
    BY <1>3, <2>1, <2>2
<1> QED
  BY <1>1, <1>3, <1>4 DEF QuietMove, Kept, DInv, CallsAllocated

LEMMA OtherQuiet ==
    ASSUME IInv, SInv, DInv, NEW r \in Ref,
           Dequeue(r) \/ Enqueue(r) \/ Read(r) \/ \E p \in PageID : BeginGet(r, p)
    PROVE  \E s : QuietMove(r, s)
<1>1. UNCHANGED <<pages, page_table, disk, num_pages>>
      /\ refs[r].at \in {"dequeue", "enqueue", "read_lock", "free"}
  BY DEF Dequeue, Enqueue, Read, BeginGet, tableVars, diskVars
<1>2. CASE Dequeue(r) \/ Read(r)
  <2>1. PICK s : s = Held(refs[r].page_id) /\ refs' = [refs EXCEPT ![r] = s]
    BY <1>2 DEF Dequeue, Read, Become
  <2>2. s.at = "held" /\ s.page_id = refs[r].page_id /\ refs[r].at \in {"dequeue", "read_lock"}
    BY <1>2, <2>1 DEF Held, Free, Dequeue, Read
  <2> QED
    BY <1>1, <2>1, <2>2 DEF QuietMove, Kept, DInv, CallsAllocated
<1>3. CASE Enqueue(r)
  <2>1. PICK s : s = Free /\ s.at = "free" /\ refs' = [refs EXCEPT ![r] = s]
    BY <1>3 DEF Enqueue, Become, Free
  <2> QED
    BY <1>1, <2>1 DEF QuietMove, Kept
<1>4. ASSUME NEW p \in PageID, BeginGet(r, p) PROVE \E s : QuietMove(r, s)
  <2>1. PICK s : /\ s = [Free EXCEPT !.page_id = p,
                                     !.at = IF page_table[p] # NoFrame THEN "pin" ELSE "victim"]
                 /\ refs' = [refs EXCEPT ![r] = s]
    BY <1>4 DEF BeginGet, Become
  <2>2. s.at \in {"pin", "victim"} /\ s.page_id = p /\ p < num_pages
    BY <1>4, <2>1 DEF BeginGet, Free
  <2> QED
    BY <1>1, <2>1, <2>2 DEF QuietMove, Kept
<1> QED
  BY <1>2, <1>3, <1>4

\* Each of them, as a disjunct of Next.
Quiet(r) ==
    \/ \E p \in PageID : BeginGet(r, p)
    \/ BeginUse(r, "read_lock") \/ BeginUse(r, "write_lock") \/ BeginDrop(r)
    \/ PinFind(r) \/ PinLock(r) \/ Dequeue(r) \/ Victim(r)
    \/ Read(r) \/ UnpinLock(r) \/ Enqueue(r)

LEMMA QuietMoves ==
    ASSUME IInv, SInv, DInv, Calm', NEW r \in Ref, Quiet(r)
    PROVE  \E s : QuietMove(r, s)
<1>1. CASE BeginUse(r, "read_lock") \/ BeginUse(r, "write_lock") \/ BeginDrop(r) \/ PinFind(r)
  BY <1>1, FindFrameQuiet DEF BeginUse, BeginDrop, PinFind
<1>2. CASE Dequeue(r) \/ Enqueue(r) \/ Read(r) \/ \E p \in PageID : BeginGet(r, p)
  BY <1>2, OtherQuiet
<1> QED
  BY <1>1, <1>2, PinLockQuiet, UnpinLockQuiet, VictimQuiet DEF Quiet

LEMMA QuietData ==
    ASSUME IInv, DInv, NEW r \in Ref, NEW s, QuietMove(r, s)
    PROVE  DInv'
BY DataMove DEF QuietMove, diskVars

\* The page is entered in the table before it is loaded.
LEMMA RemapData ==
    ASSUME IInv, DInv, NEW r \in Ref, Remap(r)
    PROVE  DInv'
<1>1. PICK s : s = [refs[r] EXCEPT !.at = "load"] /\ refs' = [refs EXCEPT ![r] = s]
  BY DEF Remap, Goto, IInv, TypeOK
<1>2. s.at = "load" /\ s.frame = refs[r].frame /\ s.page_id = refs[r].page_id
      /\ refs[r].at = "remap" /\ UNCHANGED <<pages, disk, num_pages>>
  BY <1>1, CallTypes DEF RefState, Remap, diskVars
<1>3. s.page_id < num_pages
  BY <1>2 DEF DInv, CallsAllocated
<1> QED
  BY <1>1, <1>2, <1>3, DataMove DEF diskVars

\* A step of a pool in which nothing panics: quiet, or one of five.
LEMMA Steps ==
    ASSUME SInv, Calm', [Next]_vars
    PROVE  \/ UNCHANGED vars \/ NewPage
           \/ \E r \in Ref : \/ Quiet(r) \/ EvictLock(r) \/ Remap(r) \/ Load(r)
                            \/ \E v \in Value : Write(r, v)
<1>1. \A r \in Ref : ~PoisonPanic(r)
  BY DEF PoisonPanic, SInv, Calm
<1> QED
  BY <1>1 DEF Next, Stopped, Begin, GetStep, UseStep, DropStep, Quiet

LEMMA NextDInv == IInv /\ SInv /\ DInv /\ Calm' /\ [Next]_vars => DInv'
<1> SUFFICES ASSUME IInv, SInv, DInv, Calm', [Next]_vars PROVE DInv'
  OBVIOUS
<1>1. CASE UNCHANGED vars
  BY <1>1 DEF vars, diskVars, DInv, SlotsAllocated, CallsAllocated, RestIsZero, CleanOnDisk,
              WrittenBack, OnDisk
<1>2. ASSUME NEW r \in Ref, Quiet(r) PROVE DInv'
  BY <1>2, QuietMoves, QuietData
<1> QED
  BY <1>1, <1>2, NewPageData, EvictLockData, RemapData, LoadData, WriteData, Steps

\* The invariants together, for every instance.
LEMMA StoreInvariance == ~OverlappingGets /\ Spec => [](IInv /\ SInv /\ DInv)
<1> SUFFICES ASSUME ~OverlappingGets PROVE Spec => [](IInv /\ SInv /\ DInv)
  OBVIOUS
<1>1. Spec => [](IInv /\ SInv)
  BY SerialInvariance
<1>2. SInv => Calm
  BY DEF SInv
<1> QED
  BY <1>1, <1>2, InitDInv, NextDInv, PTL DEF Spec

-----------------------------------------------------------------------------
(***************************************************************************)
(* Reads.                                                                  *)
(***************************************************************************)

\* A read through a PageRef returns the current content of its page: a frame
\* that someone references is not being loaded.
THEOREM ReadsAreCurrent == ~OverlappingGets /\ Spec => ReadsCurrent
<1> DEFINE Fresh == \A r \in Ref : refs[r].at = "read_lock" =>
                        pages[refs[r].frame].content = Current(refs[r].page_id)
           Step == \A r \in Ref : refs[r].at = "read_lock" /\ refs'[r].at = "held" =>
                        pages[refs[r].frame].content = Current(refs[r].page_id)
<1>1. IInv /\ SInv => Fresh
  <2> SUFFICES ASSUME IInv, SInv, NEW r \in Ref, refs[r].at = "read_lock"
               PROVE  pages[refs[r].frame].content = Current(refs[r].page_id)
    OBVIOUS
  <2>1. PICK f \in Frame : /\ f = refs[r].frame /\ f = page_table[refs[r].page_id]
                          /\ pages[f].page_id = refs[r].page_id
    BY CallTypes DEF SInv, CallsSound, Sound, Caching, Located
  <2>2. Loader(f) = {}
    <3>1. r \in Users(f)
      BY <2>1 DEF Users, Counting
    <3> QED
      BY <3>1 DEF SInv, TakenUnused, Taking, Loader
  <2> QED
    BY <2>1, <2>2 DEF Current
<1>2. Fresh => [Step]_vars
  OBVIOUS
<1> HIDE DEF Fresh
<1>3. ~OverlappingGets /\ Spec => [](IInv /\ SInv)
  BY SerialInvariance
<1> QED
  BY <1>1, <1>2, <1>3, PTL DEF ReadsCurrent, Step

-----------------------------------------------------------------------------
(***************************************************************************)
(* The refinement of PageStore.                                            *)
(***************************************************************************)

StoreNow == [p \in PageID |-> Current(p)]
HoldsNow == [r \in Ref |-> Kept(refs[r])]

\* They are what PageStore's variables stand for.
LEMMA StoreVars ==
    /\ Store!vars = <<StoreNow, num_pages, HoldsNow>>
    /\ Store!vars' = <<StoreNow', num_pages', HoldsNow'>>
    /\ [r \in Ref |-> IF Counted(r) /\ refs[r].at # "dequeue"
                      THEN refs[r].page_id ELSE NoPage] = HoldsNow
    /\ [r \in Ref |-> IF Counted(r) /\ refs[r].at # "dequeue"
                      THEN refs[r].page_id ELSE NoPage]' = HoldsNow'
BY DEF Store!vars, StoreNow, HoldsNow, Kept, Counted

LEMMA HoldsMove ==
    ASSUME IInv, NEW r \in Ref, NEW s, refs' = [refs EXCEPT ![r] = s]
    PROVE  HoldsNow' = [HoldsNow EXCEPT ![r] = Kept(s)]
<1>1. refs'[r] = s /\ \A q \in Ref \ {r} : refs'[q] = refs[q]
  BY Others
<1>2. \A q \in Ref : Kept(refs[q])' = IF q = r THEN Kept(s) ELSE Kept(refs[q])
  BY <1>1 DEF Kept
<1> QED
  BY <1>2 DEF HoldsNow

\* Nothing that decides where a page is current has changed.
LEMMA StoreStays ==
    ASSUME IInv, UNCHANGED <<page_table, disk>>,
           \A f \in Frame : pages'[f].content = pages[f].content,
           \A f \in Frame : Loader(f)' = Loader(f)
    PROVE  StoreNow' = StoreNow
<1>1. ASSUME NEW p \in PageID PROVE Current(p)' = Current(p)
  <2>1. CASE page_table[p] = NoFrame
    BY <2>1 DEF Current
  <2>2. CASE page_table[p] # NoFrame
    <3>1. PICK f \in Frame : page_table[p] = f
      BY <2>2 DEF IInv, TypeOK
    <3>2. Loader(f)' = Loader(f) /\ pages'[f].content = pages[f].content
      OBVIOUS
    <3>3. Loader(page_table[p])' = Loader(f)'
      BY <3>1 DEF Loader
    <3> QED
      BY <2>2, <3>1, <3>2, <3>3 DEF Current
  <2> QED
    BY <2>1, <2>2
<1> QED
  BY <1>1 DEF StoreNow

LEMMA QuietStore ==
    ASSUME IInv, NEW r \in Ref, NEW s, QuietMove(r, s)
    PROVE  StoreNow' = StoreNow
<1>1. refs'[r] = s /\ \A q \in Ref \ {r} : refs'[q] = refs[q]
  BY Others DEF QuietMove
<1>2. \A f \in Frame : Loader(f)' = Loader(f)
  BY <1>1 DEF Loader, QuietMove
<1> QED
  BY <1>2, StoreStays DEF QuietMove

\* The write-back changes the disk under a page that is cached.
LEMMA EvictLockStore ==
    ASSUME IInv, SInv, NEW r \in Ref, EvictLock(r)
    PROVE  StoreNow' = StoreNow
<1>1. PICK f \in Frame : f = refs[r].frame
  BY CallTypes DEF EvictLock, Taking
<1>2. PICK s : s = [refs[r] EXCEPT !.at = "remap"] /\ refs' = [refs EXCEPT ![r] = s]
  BY DEF EvictLock, Goto, IInv, TypeOK
<1>3. s.at = "remap" /\ refs[r].at = "evict_lock" /\ UNCHANGED <<pages, page_table>>
  BY <1>2, CallTypes DEF RefState, EvictLock, tableVars
<1>4. \A g \in Frame : Loader(g) = {} /\ Loader(g)' = {}
  <2>1. refs'[r] = s /\ \A q \in Ref \ {r} : refs'[q] = refs[q]
    BY <1>2, Others
  <2> QED
    BY <1>3, <2>1 DEF SInv, OneGetter, Getting, Loader
<1>5. ASSUME NEW p \in PageID PROVE Current(p)' = Current(p)
  <2>1. CASE page_table[p] = NoFrame
    <3>1. pages[f].page_id # p
      BY <1>4, <2>1 DEF SInv, SlotMapped
    <3>2. disk'[p] = disk[p]
      BY <1>1, <3>1 DEF EvictLock, WriteBack, IInv, TypeOK
    <3> QED
      BY <1>3, <2>1, <3>2 DEF Current
  <2>2. CASE page_table[p] # NoFrame
    <3>1. PICK g \in Frame : page_table[p] = g
      BY <2>2 DEF IInv, TypeOK
    <3>2. Loader(g) = {} /\ Loader(g)' = {}
      BY <1>4
    <3>3. Loader(page_table[p])' = Loader(g)'
      BY <1>3, <3>1 DEF Loader
    <3> QED
      BY <1>3, <2>2, <3>1, <3>2, <3>3 DEF Current
  <2> QED
    BY <2>1, <2>2
<1> QED
  BY <1>5 DEF StoreNow

\* The evicted page goes back to its content on disk, which is the same, and
\* the page to load stays with its content on disk.
LEMMA RemapStore ==
    ASSUME IInv, SInv, DInv, NEW r \in Ref, Remap(r)
    PROVE  StoreNow' = StoreNow
<1>1. PICK f \in Frame, p \in PageID : f = refs[r].frame /\ p = refs[r].page_id
  BY CallTypes DEF Remap, Taking
<1>2. PICK s : s = [refs[r] EXCEPT !.at = "load"] /\ refs' = [refs EXCEPT ![r] = s]
  BY DEF Remap, Goto, IInv, TypeOK
<1>3. s.at = "load" /\ s.frame = f /\ refs[r].at = "remap"
      /\ UNCHANGED <<pages, disk>> /\ page_table' = Remapped(pages[f].page_id, p, f)
  BY <1>1, <1>2, CallTypes DEF RefState, Remap, diskVars
<1>4. /\ \A g \in Frame : Loader(g) = {}
      /\ Loader(f)' # {} /\ \A g \in Frame \ {f} : Loader(g)' = {}
  <2>1. refs'[r] = s /\ \A q \in Ref \ {r} : refs'[q] = refs[q]
    BY <1>2, Others
  <2> QED
    BY <1>3, <2>1 DEF SInv, OneGetter, Getting, Loader
<1>5. page_table[p] = NoFrame
  BY <1>1, <1>3 DEF SInv, CallsSound, Sound, Missing
<1>6. ASSUME NEW q \in PageID PROVE Current(q)' = Current(q)
  <2>1. CASE q = p
    <3>1. page_table'[q] = f
      BY <1>3, <2>1 DEF Remapped
    <3>2. Loader(page_table[q])' = Loader(f)'
      BY <3>1 DEF Loader
    <3> QED
      BY <1>3, <1>4, <1>5, <2>1, <3>1, <3>2 DEF Current
  <2>2. CASE q # p /\ q = pages[f].page_id
    <3>1. page_table[q] = f /\ page_table'[q] = NoFrame
      BY <1>3, <1>4, <2>2 DEF SInv, SlotMapped, Remapped
    <3>2. disk[q] = pages[f].content
      BY <1>1, <1>3, <2>2 DEF DInv, WrittenBack, OnDisk
    <3> QED
      BY <1>3, <1>4, <3>1, <3>2 DEF Current
  <2>3. CASE q # p /\ q # pages[f].page_id
    <3>1. page_table'[q] = page_table[q]
      BY <1>3, <2>3 DEF Remapped
    <3>2. CASE page_table[q] = NoFrame
      BY <1>3, <3>1, <3>2 DEF Current
    <3>3. CASE page_table[q] # NoFrame
      <4>1. PICK g \in Frame : page_table[q] = g
        BY <3>3 DEF IInv, TypeOK
      <4>2. g # f
        BY <1>4, <2>3, <4>1 DEF IInv, TableSound
      <4>3. Loader(g) = {} /\ Loader(g)' = {}
        BY <1>4, <4>2
      <4>4. Loader(page_table[q])' = Loader(g)'
        BY <3>1, <4>1 DEF Loader
      <4> QED
        BY <1>3, <3>1, <3>3, <4>1, <4>3, <4>4 DEF Current
    <3> QED
      BY <3>2, <3>3
  <2> QED
    BY <2>1, <2>2, <2>3
<1> QED
  BY <1>6 DEF StoreNow

\* The loaded copy is the content on disk.
LEMMA LoadStore ==
    ASSUME IInv, SInv, NEW r \in Ref, Load(r)
    PROVE  StoreNow' = StoreNow
<1>1. PICK f \in Frame, p \in PageID : f = refs[r].frame /\ p = refs[r].page_id
  BY CallTypes DEF Load, Taking
<1>2. PICK s : s = Held(p) /\ s.at = "held" /\ refs' = [refs EXCEPT ![r] = s]
  BY <1>1 DEF Load, Become, Held, Free
<1>3. /\ pages'[f].content = disk[p] /\ \A g \in Frame \ {f} : pages'[g] = pages[g]
      /\ UNCHANGED <<page_table, disk>> /\ refs[r].at = "load"
  BY <1>1 DEF Load, LoadedSlot, tableVars, diskVars, IInv, TypeOK
<1>4. /\ \A g \in Frame : Loader(g)' = {}
      /\ Loader(f) = {r} /\ \A g \in Frame \ {f} : Loader(g) = {}
  <2>1. refs'[r] = s /\ \A q \in Ref \ {r} : refs'[q] = refs[q]
    BY <1>2, Others
  <2> QED
    BY <1>1, <1>2, <1>3, <2>1 DEF SInv, OneGetter, Getting, Loader
<1>5. page_table[p] = f
  BY <1>1, <1>3 DEF SInv, CallsSound, Sound
<1>6. ASSUME NEW q \in PageID PROVE Current(q)' = Current(q)
  <2>1. CASE page_table[q] = NoFrame
    BY <1>3, <2>1 DEF Current
  <2>2. CASE page_table[q] # NoFrame
    <3>1. PICK g \in Frame : page_table[q] = g
      BY <2>2 DEF IInv, TypeOK
    <3>2. Loader(page_table[q])' = Loader(g)' /\ Loader(g)' = {}
      BY <1>3, <1>4, <3>1 DEF Loader
    <3>3. Current(q)' = pages'[g].content
      BY <1>3, <2>2, <3>1, <3>2 DEF Current
    <3>4. CASE g = f
      <4>1. q = p
        BY <1>1, <1>4, <3>1, <3>4 DEF IInv, TableSound
      <4> QED
        BY <1>3, <1>4, <3>1, <3>3, <3>4, <4>1 DEF Current
    <3>5. CASE g # f
      BY <1>3, <1>4, <2>2, <3>1, <3>3, <3>5 DEF Current
    <3> QED
      BY <3>4, <3>5
  <2> QED
    BY <2>1, <2>2
<1> QED
  BY <1>6 DEF StoreNow

\* A write changes the page of its PageRef, which is current in its frame, and
\* no other.
LEMMA WriteStore ==
    ASSUME IInv, SInv, NEW r \in Ref, NEW v \in Value, Write(r, v)
    PROVE  StoreNow' = [StoreNow EXCEPT ![refs[r].page_id] = v]
<1>1. PICK f \in Frame, p \in PageID : /\ f = refs[r].frame /\ p = refs[r].page_id
                                       /\ page_table[p] = f /\ pages[f].page_id = p
  BY CallTypes DEF Write, Located, Caching, SInv, CallsSound, Sound
<1>2. PICK s : s = Held(p) /\ s.at = "held" /\ refs' = [refs EXCEPT ![r] = s]
  BY <1>1 DEF Write, Become, Held, Free
<1>3. refs'[r] = s /\ \A q \in Ref \ {r} : refs'[q] = refs[q]
  BY <1>2, Others
<1>4. pages' = [pages EXCEPT ![f] = WrittenSlot(pages[f], v)]
      /\ UNCHANGED <<page_table, disk>> /\ refs[r].at = "write_lock" /\ CanLock(f)
  BY <1>1 DEF Write, tableVars, diskVars, IInv, TypeOK
<1>5. pages'[f].content = v /\ \A g \in Frame \ {f} : pages'[g] = pages[g]
  BY <1>4 DEF WrittenSlot, IInv, TypeOK, PageSlot
<1>6. (\A g \in Frame : Loader(g)' = Loader(g)) /\ Loader(f) = {}
  BY <1>2, <1>3, <1>4 DEF Loader, CanLock, Locked, Holding
<1>7. ASSUME NEW q \in PageID PROVE Current(q)' = IF q = p THEN v ELSE Current(q)
  <2>1. CASE page_table[q] = NoFrame
    BY <1>1, <1>4, <2>1 DEF Current
  <2>2. CASE page_table[q] # NoFrame
    <3>1. PICK g \in Frame : page_table[q] = g
      BY <2>2 DEF IInv, TypeOK
    <3>2. Loader(page_table[q])' = Loader(g)' /\ Loader(g)' = Loader(g)
      BY <1>4, <1>6, <3>1 DEF Loader
    <3>3. g = f <=> q = p
      BY <1>1, <1>6, <3>1 DEF IInv, TableSound
    <3>4. Current(q)' = IF Loader(g) # {} THEN disk[q] ELSE pages'[g].content
      BY <1>4, <2>2, <3>1, <3>2 DEF Current
    <3>5. Current(q) = IF Loader(g) # {} THEN disk[q] ELSE pages[g].content
      BY <2>2, <3>1 DEF Current
    <3> QED
      BY <1>5, <1>6, <3>3, <3>4, <3>5
  <2> QED
    BY <2>1, <2>2
<1> QED
  BY <1>1, <1>7 DEF StoreNow

\* Referenced pages are in distinct frames, so there are at most Size of them.
LEMMA AtMostFrames ==
    ASSUME NEW h, NEW table,
           \A r \in Ref : h[r] # NoPage => table[h[r]] \in Frame,
           \A r, q \in Ref : /\ h[r] # NoPage /\ h[q] # NoPage
                            /\ table[h[r]] = table[h[q]]
                            => h[r] = h[q]
    PROVE  Cardinality(Store!Referenced(h)) <= Size
<1> DEFINE P == {h[r] : r \in Ref} \ {NoPage}
           place == [p \in P |-> table[p]]
<1>1. place \in [P -> Frame] /\ \A p, q \in P : place[p] = place[q] => p = q
  OBVIOUS
<1> HIDE DEF place, P
<1>2. place \in Injection(P, Frame)
  BY <1>1 DEF Injection, IsInjective
<1>3. IsFiniteSet(0 .. Size - 1) /\ Cardinality(0 .. Size - 1) =
          IF 0 > Size - 1 THEN 0 ELSE Size - 1 - 0 + 1
  BY FS_Interval
<1>4. Cardinality(P) <= Cardinality(Frame)
  BY <1>2, <1>3, FS_Injection
<1> QED
  BY <1>3, <1>4 DEF P, Store!Referenced

\* PageStore has its own copy of the operator of FiniteSets.
LEMMA SameCardinality == \A S : Store!Cardinality(S) = Cardinality(S)
BY DEF Store!Cardinality, Cardinality

StoreStep == \/ UNCHANGED <<StoreNow, num_pages, HoldsNow>>
             \/ /\ num_pages \in PageID /\ num_pages' = num_pages + 1
                /\ UNCHANGED <<StoreNow, HoldsNow>>
             \/ \E r \in Ref, p \in PageID :
                   /\ HoldsNow[r] = NoPage /\ p < num_pages
                   /\ HoldsNow' = [HoldsNow EXCEPT ![r] = p]
                   /\ Cardinality(Store!Referenced(HoldsNow')) <= Size
                   /\ UNCHANGED <<StoreNow, num_pages>>
             \/ \E r \in Ref, v \in Value :
                   /\ HoldsNow[r] # NoPage
                   /\ StoreNow' = [StoreNow EXCEPT ![HoldsNow[r]] = v]
                   /\ UNCHANGED <<num_pages, HoldsNow>>
             \/ \E r \in Ref :
                   /\ HoldsNow[r] # NoPage
                   /\ HoldsNow' = [HoldsNow EXCEPT ![r] = NoPage]
                   /\ UNCHANGED <<StoreNow, num_pages>>

\* That is a step of the store.
LEMMA StoreStepIs == StoreStep => [Store!Next]_(Store!vars)
<1> SUFFICES ASSUME StoreStep PROVE [Store!Next]_(Store!vars)
  OBVIOUS
<1>1. CASE UNCHANGED <<StoreNow, num_pages, HoldsNow>>
  BY <1>1, StoreVars
<1>2. CASE /\ num_pages \in PageID /\ num_pages' = num_pages + 1
           /\ UNCHANGED <<StoreNow, HoldsNow>>
  <2>1. Store!Allocate
    BY <1>2, StoreVars DEF Store!Allocate, StoreNow
  <2> QED
    BY <2>1 DEF Store!Next
<1>3. ASSUME NEW r \in Ref, NEW p \in PageID,
             HoldsNow[r] = NoPage, p < num_pages, HoldsNow' = [HoldsNow EXCEPT ![r] = p],
             Cardinality(Store!Referenced(HoldsNow')) <= Size,
             UNCHANGED <<StoreNow, num_pages>>
      PROVE  Store!Next
  <2>1. Store!Acquire(r)
    <3> DEFINE holds == [q \in Ref |-> IF Counted(q) /\ refs[q].at # "dequeue"
                                      THEN refs[q].page_id ELSE NoPage]
    <3>1. holds = HoldsNow /\ holds' = HoldsNow'
      BY StoreVars
    <3> HIDE DEF holds
    <3>2. /\ holds[r] = NoPage /\ p < num_pages /\ holds' = [holds EXCEPT ![r] = p]
          /\ Store!Cardinality(Store!Referenced(holds')) <= Size
          /\ UNCHANGED <<StoreNow, num_pages>>
      BY <1>3, <3>1, SameCardinality, Zenon
    <3> QED
      BY <3>2, Zenon DEF holds, Store!Acquire, StoreNow
  <2> QED
    BY <2>1 DEF Store!Next
<1>4. ASSUME NEW r \in Ref, NEW v \in Value, HoldsNow[r] # NoPage,
             StoreNow' = [StoreNow EXCEPT ![HoldsNow[r]] = v],
             UNCHANGED <<num_pages, HoldsNow>>
      PROVE  Store!Next
  <2>1. Store!Update(r)
    BY <1>4, StoreVars DEF Store!Update, StoreNow
  <2> QED
    BY <2>1 DEF Store!Next
<1>5. ASSUME NEW r \in Ref, HoldsNow[r] # NoPage,
             HoldsNow' = [HoldsNow EXCEPT ![r] = NoPage], UNCHANGED <<StoreNow, num_pages>>
      PROVE  Store!Next
  <2>1. Store!Release(r)
    BY <1>5, StoreVars DEF Store!Release, StoreNow
  <2> QED
    BY <2>1 DEF Store!Next
<1> QED
  BY <1>1, <1>2, <1>3, <1>4, <1>5 DEF StoreStep, Store!Next

\* A call that keeps what it holds, or gets its page, or gives it back.
LEMMA HoldingStep ==
    ASSUME IInv', SInv', NEW r \in Ref, NEW s,
           HoldsNow' = [HoldsNow EXCEPT ![r] = Kept(s)],
           UNCHANGED <<StoreNow, num_pages>>,
           Kept(s) # NoPage => Kept(s) \in PageID /\ Kept(s) < num_pages,
           Kept(s) = NoPage \/ Kept(refs[r]) \in {NoPage, Kept(s)}
    PROVE  StoreStep
<1>1. HoldsNow[r] = Kept(refs[r]) /\ HoldsNow \in [Ref -> {Kept(refs[q]) : q \in Ref}]
  BY DEF HoldsNow
<1>2. CASE Kept(s) = Kept(refs[r])
  <2>1. HoldsNow' = HoldsNow
    BY <1>1, <1>2
  <2> QED
    BY <2>1 DEF StoreStep
<1>3. CASE Kept(s) = NoPage /\ Kept(refs[r]) # NoPage
  BY <1>1, <1>3 DEF StoreStep
<1>4. CASE Kept(s) # NoPage /\ Kept(refs[r]) = NoPage
  <2>1. ASSUME NEW q \in Ref, HoldsNow'[q] # NoPage
        PROVE  /\ page_table'[HoldsNow'[q]] \in Frame
               /\ pages'[page_table'[HoldsNow'[q]]].page_id = HoldsNow'[q]
    <3>1. HoldsNow'[q] = refs'[q].page_id /\ refs'[q].at \in Caching
      BY <2>1 DEF HoldsNow, Kept, Caching
    <3> QED
      BY <3>1 DEF SInv, CallsSound, Sound
  <2>2. Cardinality(Store!Referenced(HoldsNow')) <= Size
    <3> DEFINE h == HoldsNow'
               table == page_table'
               slots == pages'
    <3>1. ASSUME NEW q \in Ref, h[q] # NoPage
          PROVE  table[h[q]] \in Frame /\ slots[table[h[q]]].page_id = h[q]
      BY <2>1, <3>1
    <3> HIDE DEF h, table, slots
    <3>2. Cardinality(Store!Referenced(h)) <= Size
      BY <3>1, AtMostFrames
    <3> QED
      BY <3>2 DEF h
  <2> QED
    BY <1>1, <1>4, <2>2 DEF StoreStep
<1> QED
  BY <1>2, <1>3, <1>4

LEMMA QuietImplements ==
    ASSUME IInv, IInv', SInv', NEW r \in Ref, NEW s, QuietMove(r, s)
    PROVE  StoreStep
<1>1. HoldsNow' = [HoldsNow EXCEPT ![r] = Kept(s)] /\ StoreNow' = StoreNow
  BY HoldsMove, QuietStore DEF QuietMove
<1>2. s = refs'[r]
  BY Others DEF QuietMove
<1>3. Kept(s) # NoPage => Kept(s) \in PageID /\ Kept(s) < num_pages
  <2>1. s.at # "free" => s.page_id \in PageID
    BY <1>2 DEF IInv, FieldsSet, WellFormed
  <2> QED
    BY <2>1 DEF Kept, QuietMove
<1> QED
  BY <1>1, <1>3, HoldingStep DEF QuietMove

LEMMA EvictImplements ==
    ASSUME IInv, SInv, DInv, NEW r \in Ref, EvictLock(r) \/ Remap(r)
    PROVE  StoreStep
<1>1. PICK s : /\ s = [refs[r] EXCEPT !.at = IF EvictLock(r) THEN "remap" ELSE "load"]
               /\ refs' = [refs EXCEPT ![r] = s]
  BY DEF EvictLock, Remap, Goto, IInv, TypeOK
<1>2. Kept(s) = NoPage /\ Kept(refs[r]) = NoPage
  BY <1>1, CallTypes DEF RefState, Kept, EvictLock, Remap
<1>3. HoldsNow' = [HoldsNow EXCEPT ![r] = Kept(s)]
  BY <1>1, HoldsMove
<1>4. HoldsNow' = HoldsNow
  BY <1>2, <1>3 DEF HoldsNow
<1>5. num_pages' = num_pages
  BY DEF EvictLock, Remap, diskVars
<1> QED
  BY <1>4, <1>5, EvictLockStore, RemapStore DEF StoreStep

LEMMA LoadImplements ==
    ASSUME IInv, SInv, DInv, IInv', SInv', NEW r \in Ref, Load(r)
    PROVE  StoreStep
<1>1. PICK s : s = Held(refs[r].page_id) /\ refs' = [refs EXCEPT ![r] = s]
  BY DEF Load, Become
<1>2. Kept(s) = refs[r].page_id /\ Kept(refs[r]) = NoPage
  BY <1>1 DEF Kept, Held, Free, Load
<1>3. refs[r].page_id \in PageID /\ refs[r].page_id < num_pages
  BY CallTypes DEF Load, DInv, CallsAllocated
<1>4. HoldsNow' = [HoldsNow EXCEPT ![r] = Kept(s)] /\ UNCHANGED <<StoreNow, num_pages>>
  BY <1>1, HoldsMove, LoadStore DEF Load, diskVars
<1> QED
  BY <1>2, <1>3, <1>4, HoldingStep

LEMMA WriteImplements ==
    ASSUME IInv, SInv, NEW r \in Ref, NEW v \in Value, Write(r, v)
    PROVE  StoreStep
<1>1. PICK s : s = Held(refs[r].page_id) /\ refs' = [refs EXCEPT ![r] = s]
  BY DEF Write, Become
<1>2. Kept(s) = refs[r].page_id /\ Kept(refs[r]) = refs[r].page_id /\ refs[r].page_id # NoPage
  BY <1>1, CallTypes DEF Kept, Held, Free, Write
<1>3. HoldsNow' = [HoldsNow EXCEPT ![r] = Kept(s)]
  BY <1>1, HoldsMove
<1>4. HoldsNow' = HoldsNow /\ HoldsNow[r] = refs[r].page_id
  BY <1>2, <1>3 DEF HoldsNow
<1>5. num_pages' = num_pages
  BY DEF Write, diskVars
<1>6. StoreNow' = [StoreNow EXCEPT ![HoldsNow[r]] = v]
  BY <1>4, WriteStore
<1> QED
  BY <1>2, <1>4, <1>5, <1>6 DEF StoreStep

LEMMA NewPageImplements ==
    ASSUME IInv, DInv, NewPage
    PROVE  StoreStep
<1>1. disk' = disk /\ num_pages \in PageID /\ num_pages' = num_pages + 1
      /\ UNCHANGED <<pages, page_table, refs>>
  BY NewPageData DEF NewPage, tableVars, IInv, TypeOK
<1>2. UNCHANGED <<StoreNow, HoldsNow>>
  BY <1>1 DEF StoreNow, HoldsNow, Current, Loader, Kept
<1> QED
  BY <1>1, <1>2 DEF StoreStep

LEMMA StutterImplements == UNCHANGED vars => StoreStep
BY DEF vars, tableVars, diskVars, StoreStep, StoreNow, HoldsNow, Current, Loader, Kept

LEMMA NextImplements ==
    IInv /\ SInv /\ DInv /\ IInv' /\ SInv' /\ [Next]_vars => [Store!Next]_(Store!vars)
<1> SUFFICES ASSUME IInv, SInv, DInv, IInv', SInv', [Next]_vars PROVE StoreStep
  BY StoreStepIs
<1>1. Calm'
  BY DEF SInv
<1>2. ASSUME NEW r \in Ref, Quiet(r) PROVE StoreStep
  BY <1>1, <1>2, QuietMoves, QuietImplements
<1> QED
  BY <1>1, <1>2, Steps, StutterImplements, NewPageImplements, EvictImplements, LoadImplements,
     WriteImplements

LEMMA InitImplements == Init => Store!Init
<1> SUFFICES ASSUME Init PROVE Store!Init
  OBVIOUS
<1> USE DEF Init
<1>1. \A p \in PageID : Current(p) = Zero
  BY DEF Current
<1>2. \A r \in Ref : refs[r].at = "free"
  BY DEF Free
<1> QED
  BY <1>1, <1>2 DEF Store!Init, Counted

\* The pool is a store of pages: whatever is cached, evicted, written back or
\* loaded, a page changes only when it is written through a PageRef, and at most
\* as many pages as there are frames are referenced at once.
THEOREM ImplementsStore == ~OverlappingGets /\ Spec => StoreSpec
<1> SUFFICES ASSUME ~OverlappingGets PROVE Spec => StoreSpec
  OBVIOUS
<1>1. Spec => [](IInv /\ SInv /\ DInv)
  BY StoreInvariance
<1> QED
  BY <1>1, InitImplements, NextImplements, PTL DEF Spec, StoreSpec, Store!Spec
=============================================================================
