------------------------------ MODULE PageStore ------------------------------
(***************************************************************************)
(* What BufferPool promises its clients: a store of pages that changes     *)
(* only through a reference a client holds, and that lets at most Capacity *)
(* distinct pages be referenced at once.  There is no cache, no eviction   *)
(* and no disk here.                                                       *)
(***************************************************************************)
EXTENDS Integers, FiniteSets

CONSTANTS Ref, PageID, Value, Zero, NoPage, Capacity

VARIABLES
    store,      \* content of each page
    allocated,  \* number of pages allocated
    holds       \* the page each reference is for, or NoPage

vars == <<store, allocated, holds>>

Referenced(h) == {h[r] : r \in Ref} \ {NoPage}

Init ==
    /\ store = [p \in PageID |-> Zero]
    /\ allocated = 0
    /\ holds = [r \in Ref |-> NoPage]

Allocate ==
    /\ allocated \in PageID
    /\ allocated' = allocated + 1
    /\ UNCHANGED <<store, holds>>

Acquire(r) ==
    \E p \in PageID :
        /\ holds[r] = NoPage /\ p < allocated
        /\ holds' = [holds EXCEPT ![r] = p]
        /\ Cardinality(Referenced(holds')) <= Capacity
        /\ UNCHANGED <<store, allocated>>

Update(r) ==
    \E v \in Value :
        /\ holds[r] # NoPage
        /\ store' = [store EXCEPT ![holds[r]] = v]
        /\ UNCHANGED <<allocated, holds>>

Release(r) ==
    /\ holds[r] # NoPage
    /\ holds' = [holds EXCEPT ![r] = NoPage]
    /\ UNCHANGED <<store, allocated>>

Next == Allocate \/ \E r \in Ref : Acquire(r) \/ Update(r) \/ Release(r)

Spec == Init /\ [][Next]_vars
=============================================================================
