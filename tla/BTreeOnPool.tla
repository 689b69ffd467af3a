----------------------------- MODULE BTreeOnPool -----------------------------
(***************************************************************************)
(* BTree on a pool of few frames: every page a call works on it first      *)
(* obtains from the pool as a PageRef, and a page referenced by anybody    *)
(* keeps its frame.  When all frames are pinned get_page_ref fails, the    *)
(* unwrap of its result ends the call where it stands, and unwinding drops *)
(* what the call holds.                                                    *)
(*                                                                         *)
(* The pool is what ExhaustedOnlyWhenAllPinned and PinnedStaysCached of    *)
(* BufferPool say of it.  No guard is held at any of the unwraps, so none  *)
(* of them poisons a frame.                                                *)
(***************************************************************************)
EXTENDS BTree

CONSTANTS
    Frames,   \* size of the pool
    Ranges    \* bound: the ranges that scans ask for, pairs of keys

ASSUME FramesAssumption == Frames \in Nat \ {0} /\ Ranges \subseteq Key \X Key

\* A thread stands for the page it was given and has not named yet.
ASSUME ThreadsAssumption == \A t \in Threads : t \notin PageID /\ t # NULL_PTR

VARIABLES
    refs,   \* the PageRefs of each call, in the order they were obtained
    fresh   \* its PageRef to a page from new_page: NULL_PTR if none; the thread
            \* itself as long as the page is not one of pages yet

poolVars == <<refs, fresh>>
varsOnPool == <<vars, poolVars>>

InitOnPool ==
    /\ Init
    /\ refs = [t \in Threads |-> <<>>]
    /\ fresh = [t \in Threads |-> NULL_PTR]

\* The pages that keep a frame.
Pinned == UNION {ToSet(refs[t]) \cup {fresh[t]} : t \in Threads} \ {NULL_PTR}
HasFrame(p) == Cardinality(Pinned \cup {p}) <= Frames

-----------------------------------------------------------------------------
(* What a call obtains before its next step, and what it drops. *)

Newest(t) == IF refs[t] = <<>> THEN NULL_PTR ELSE Last(refs[t])

\* The call works on a page other than the one it obtained last.
NeedsPage(t) ==
    /\ op[t].at \in {"descend", "insert", "position", "fetch"}
    /\ fresh[t] = NULL_PTR
    /\ Newest(t) # op[t].page

\* new_page, before a split or for a new root.
NeedsNewPage(t) ==
    /\ fresh[t] = NULL_PTR
    /\ \/ op[t].at = "split"
       \/ op[t].at = "parent" /\ op[t].parents = <<>>

\* split_and_insert or get_parent returns: the new page is dropped.
DropsFresh(t) == fresh[t] \in PageID /\ op[t].at \in {"parent", "insert"}

\* traverse_to_leaf returns the leaf through the calls that hold its ancestors,
\* the nearest first; a scan replaces its page by the right sibling.
NeverReturns(t) == FALSE   \* mutant: the ancestors stay referenced
DropsFormer(t) ==
    /\ op[t].at \in {"insert", "position", "fetch"} /\ pages[op[t].page].type = "Leaf"
    /\ Len(refs[t]) > 1 /\ Newest(t) = op[t].page

\* The call has returned or unwinds: insert_recurs drops its pages innermost first.
KeepsOnPanic(t) == op[t].at = "idle" /\ refs[t] # <<>>   \* mutant
Leaves(t) == op[t].at \in {"idle", "panicked"} /\ refs[t] # <<>>

Ready(t) ==
    ~(NeedsPage(t) \/ NeedsNewPage(t) \/ DropsFresh(t) \/ DropsFormer(t) \/ Leaves(t))

-----------------------------------------------------------------------------
Get(t) ==
    /\ NeedsPage(t) /\ HasFrame(op[t].page)
    /\ refs' = [refs EXCEPT ![t] = Append(@, op[t].page)]
    /\ UNCHANGED <<vars, fresh>>

GetNew(t) ==
    /\ NeedsNewPage(t) /\ HasFrame(t)
    /\ fresh' = [fresh EXCEPT ![t] = t]
    /\ UNCHANGED <<vars, refs>>

\* NoFreeFrames, unwrapped.
Fail(t) ==
    /\ \/ NeedsPage(t) /\ ~HasFrame(op[t].page)
       \/ NeedsNewPage(t) /\ ~HasFrame(t)
    /\ Step(t, Panicked)
    /\ UNCHANGED <<pages, dbobjects, history, aborted, poolVars>>

Drop(t) ==
    /\ \/ /\ DropsFresh(t)
          /\ fresh' = [fresh EXCEPT ![t] = NULL_PTR]
          /\ UNCHANGED refs
       \/ /\ DropsFormer(t)
          /\ refs' = [refs EXCEPT ![t] = RemoveAt(@, Len(@) - 1)]
          /\ UNCHANGED fresh
       \/ /\ Leaves(t)
          /\ refs' = [refs EXCEPT ![t] = Front(@)]
          /\ UNCHANGED fresh
    /\ UNCHANGED vars

\* A step of BTree; Split and PublishRoot give the new page its id.
Named(t) == fresh' = [fresh EXCEPT ![t] = IF @ = t THEN NewID ELSE @]
BeginCall(t) ==
    /\ Ready(t) /\ UNCHANGED poolVars
    /\ \/ t \in Inserters /\ \E o \in ObjectID, k \in Key : BeginInsert(t, o, k)
       \/ t \in Scanners /\ \E o \in ObjectID, s \in Ranges : BeginScan(t, o, s[1], s[2])
Work(t) ==
    /\ Ready(t) /\ Named(t) /\ UNCHANGED refs
    /\ \/ t \in Inserters /\ InsertStep(t)
       \/ t \in Scanners /\ ScanStep(t)

CallStep(t) == Get(t) \/ GetNew(t) \/ Fail(t) \/ Drop(t) \/ Work(t)

NextOnPool ==
    \/ /\ ~aborted
       /\ \E t \in Threads : BeginCall(t) \/ CallStep(t)
    \/ Rest /\ UNCHANGED poolVars

\* As in BTree: a thread inside a call is never disabled by another.
FairSpecOnPool ==
    /\ InitOnPool /\ [][NextOnPool]_varsOnPool
    /\ \A t \in Threads : WF_varsOnPool(~aborted /\ CallStep(t))

-----------------------------------------------------------------------------
(* Properties *)

\* The levels of pages under page p, p included.
Levels(p) ==
    LET below[n \in 0 .. NewID] ==
            IF n = 0 THEN {p}
            ELSE UNION {Children(pages[q]) : q \in {q \in below[n - 1] : pages[q].type = "Node"}}
    IN  Cardinality({n \in 0 .. NewID : below[n] # {}})

\* A call never references more pages than a tree has levels, and one page
\* from new_page: so many frames per thread and no call fails for want of one
\* (the unwraps at 165, 186, 204 and 346).  The climb after a split holds a
\* page per level, which is why the descent must have dropped its own.  The
\* tree is looked for below any page and not below the published root, which
\* leads nowhere until it is initialised (187-188).
FewReferences ==
    \A t \in Threads : \E p \in DOMAIN pages :
        Len(refs[t]) + (IF fresh[t] = NULL_PTR THEN 0 ELSE 1) <= Levels(p) + 1

\* Every reference is given back, also those of a call that failed half way:
\* otherwise its frames are gone for the other threads (drop, 69-74 of the pool).
RefsReturned == \A t \in Threads : refs[t] # <<>> ~> (refs[t] = <<>> \/ aborted)
=============================================================================
