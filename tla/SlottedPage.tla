----------------------------- MODULE SlottedPage -----------------------------
(***************************************************************************)
(* The space of one slotted page (src/representations/page.rs): the slot   *)
(* array grows up from the header, the tuples grow down from the end, and  *)
(* two header fields say how much room there is.                           *)
(*                                                                         *)
(* Offsets and sizes are in units of a small page.  A tuple is its key and *)
(* its size; a slot is the tuple and the offset it was written at.  The    *)
(* slots are in key order, so the searches of search.rs return the counts  *)
(* below.  The bytes of a page in which slots and tuples overlap mean      *)
(* nothing any more, and nothing is called on it.                          *)
(***************************************************************************)
EXTENDS Integers, Sequences, FiniteSets, SequencesExt

CONSTANTS
    Key,       \* keys, numbers in the order of their bytes
    Sizes,     \* sizes of tuples
    PageSize,
    Header,    \* size of the header
    Slot,      \* size of a slot, 2 in the code
    Word       \* header fields hold numbers below this, 2^32 in the code

ASSUME PageAssumption ==
    /\ Key \subseteq Nat
    /\ Sizes \subseteq Nat \ {0}
    /\ PageSize \in Nat /\ Header \in Nat /\ Slot \in Nat \ {0}
    /\ Word \in Nat
    /\ Header + Slot < PageSize /\ PageSize < Word

VARIABLES
    page,        \* the page
    outcome,     \* what the last call returned
    fragmented   \* history: a deletion since the page was last rebuilt

vars == <<page, outcome, fragmented>>

Tuple == [key : Key, size : Sizes]
Outcome == {"Ok", "OutOfSpace", "PrimaryKeyError", "KeyNotFound", "panicked"}
Unwrapped(n) == n   \* mutant
U32(n) == n % Word

\* SlottedPage::init.
Fresh(type) == [type |-> type, slots |-> <<>>, cont |-> PageSize - Header,
                total |-> PageSize - Header, ptr |-> PageSize]

Init ==
    /\ page \in {Fresh(type) : type \in {"Leaf", "Node"}}
    /\ outcome = "Ok"
    /\ fragmented = FALSE

-----------------------------------------------------------------------------
KeysOf(slots) == {slots[i].key : i \in DOMAIN slots}

\* find_partition_upper; of a new key, find_insert_idx.
PartitionUpper(slots, k) == Cardinality({j \in KeysOf(slots) : j <= k})

\* insert_slot_at and update_header_insert.
Placed(p, tuple) ==
    LET at == p.ptr - tuple.size IN
    [p EXCEPT !.slots = InsertAt(@, PartitionUpper(@, tuple.key) + 1,
                                 [key |-> tuple.key, size |-> tuple.size, at |-> at]),
              !.ptr = at,
              !.cont = U32(@ - tuple.size - Slot),
              !.total = U32(@ - tuple.size - Slot)]

\* A fresh page with these tuples, put there one after the other.
Rebuilt(type, slots) ==
    LET build[n \in 0 .. Len(slots)] ==
            IF n = 0 THEN Fresh(type) ELSE Placed(build[n - 1], slots[n])
    IN  build[Len(slots)]

\* keep_left, and collapse as its special case.
KeepLeft(p, n) == Rebuilt(p.type, SubSeq(p.slots, 1, n))
Collapse(p) == KeepLeft(p, Len(p.slots))

\* check_space
SpaceAnyway(p, required) ==   \* mutant: off by one
    IF p.cont + 1 >= required THEN "Ok"
    ELSE IF p.total >= required THEN "NeedsCollapse" ELSE "OutOfSpace"
CheckSpace(p, required) ==
    IF p.cont >= required THEN "Ok"
    ELSE IF p.total >= required THEN "NeedsCollapse" ELSE "OutOfSpace"
Verdict(p, tuple) == CheckSpace(p, tuple.size + Slot)

\* insert_at_idx, on the page as check_space leaves it.
Ready(p, tuple) == IF Verdict(p, tuple) = "NeedsCollapse" THEN Collapse(p) ELSE p

\* split_half: the index from which tuples move, and the tuple in the middle.
SplitIdx(slots, tuple) ==
    LET mid == (Len(slots) + 1) \div 2
    IN  IF PartitionUpper(slots, tuple.key) < mid THEN mid - 1 ELSE mid
WrongMiddle(slots, tuple) ==   \* mutant: looks one slot too far left
    LET mid == (Len(slots) + 1) \div 2 IN
    IF PartitionUpper(slots, tuple.key) = mid THEN tuple.key
    ELSE slots[IF SplitIdx(slots, tuple) = 0 THEN 1 ELSE SplitIdx(slots, tuple)].key
Middle(slots, tuple) ==
    LET mid == (Len(slots) + 1) \div 2 IN
    IF PartitionUpper(slots, tuple.key) = mid THEN tuple.key
    ELSE slots[SplitIdx(slots, tuple) + 1].key

\* split_and_insert of the B-tree: both halves, and which of them gets the tuple.
NeverMoves(p, tuple) ==   \* mutant: the right half is not taken off the page
    LET idx == SplitIdx(p.slots, tuple)
        mid == Middle(p.slots, tuple)
    IN  [left  |-> Collapse(p),
         right |-> Rebuilt(p.type, SubSeq(p.slots, idx + 1, Len(p.slots))),
         goes  |-> IF tuple.key < mid THEN "left"
                   ELSE IF p.type = "Node" /\ tuple.key = mid THEN "up" ELSE "right"]
Halves(p, tuple) ==
    LET idx == SplitIdx(p.slots, tuple)
        mid == Middle(p.slots, tuple)
    IN  [left  |-> KeepLeft(p, idx),
         right |-> Rebuilt(p.type, SubSeq(p.slots, idx + 1, Len(p.slots))),
         goes  |-> IF tuple.key < mid THEN "left"
                   ELSE IF p.type = "Node" /\ tuple.key = mid THEN "up" ELSE "right"]

\* The insertion into a half is unwrapped.
SplitFits(p, tuple) ==
    LET h == Halves(p, tuple) IN
    h.goes # "up" => /\ tuple.key \notin KeysOf(h[h.goes].slots)
                     /\ Verdict(h[h.goes], tuple) # "OutOfSpace"

\* One of the halves once the tuple is in.
Half(p, tuple, side) ==
    LET h == Halves(p, tuple)
    IN  IF h.goes = side THEN Placed(h[side], tuple) ELSE h[side]

-----------------------------------------------------------------------------
SlotEnd(p) == Header + Slot * Len(p.slots)
Collided(p) == p.ptr < SlotEnd(p)
Usable == outcome # "panicked" /\ ~Collided(page)

Returns(result) == outcome' = result

\* insert; a write below the start of the page panics.
Insert(tuple) ==
    /\ Usable
    /\ \/ /\ tuple.key \in KeysOf(page.slots)
          /\ Returns("PrimaryKeyError")
          /\ UNCHANGED page
       \/ /\ tuple.key \notin KeysOf(page.slots) /\ Verdict(page, tuple) = "OutOfSpace"
          /\ Returns("OutOfSpace")
          /\ UNCHANGED page
       \/ /\ tuple.key \notin KeysOf(page.slots) /\ Verdict(page, tuple) # "OutOfSpace"
          /\ LET ready == Ready(page, tuple) IN
             IF ready.ptr < tuple.size
             THEN Returns("panicked") /\ page' = ready
             ELSE Returns("Ok") /\ page' = Placed(ready, tuple)
    /\ UNCHANGED fragmented

\* split_and_insert, called when a page has no room for a tuple; the page goes
\* on as one half or the other.
Split(tuple) ==
    /\ Usable
    /\ tuple.key \notin KeysOf(page.slots) /\ Verdict(page, tuple) = "OutOfSpace"
    /\ \E side \in {"left", "right"} :
          IF SplitFits(page, tuple)
          THEN Returns("Ok") /\ page' = Half(page, tuple, side)
          ELSE Returns("panicked") /\ page' = Halves(page, tuple)[side]
    /\ fragmented' = FALSE

\* delete: the tuple's bytes stay where they are.
FreesContiguous(p, i) ==   \* mutant
    [p EXCEPT !.slots = RemoveAt(@, i),
              !.cont = U32(@ + p.slots[i].size + Slot)]
Deleted(p, i) ==
    [p EXCEPT !.slots = RemoveAt(@, i),
              !.total = U32(@ - (p.slots[i].size + Slot))]

Delete(k) ==
    /\ Usable
    /\ \/ /\ k \notin KeysOf(page.slots)
          /\ Returns("KeyNotFound")
          /\ UNCHANGED <<page, fragmented>>
       \/ \E i \in DOMAIN page.slots :
             /\ page.slots[i].key = k
             /\ page' = Deleted(page, i)
             /\ Returns("Ok")
             /\ fragmented' = TRUE

CollapseCall ==
    /\ Usable
    /\ page' = Collapse(page)
    /\ Returns("Ok")
    /\ fragmented' = FALSE

Rest == ~Usable /\ UNCHANGED vars

Next ==
    \/ \E tuple \in Tuple : Insert(tuple) \/ Split(tuple)
    \/ \E k \in Key : Delete(k)
    \/ CollapseCall
    \/ Rest

Spec == Init /\ [][Next]_vars

-----------------------------------------------------------------------------
(* Properties *)

Slots == Seq([key : Key, size : Sizes, at : 0 .. PageSize])

TypeOK ==
    /\ page \in [type : {"Leaf", "Node"}, slots : Slots, cont : 0 .. (Word - 1),
                 total : 0 .. (Word - 1), ptr : 0 .. PageSize]
    /\ outcome \in Outcome
    /\ fragmented \in BOOLEAN

\* The slot array and the tuples do not overlap, nor do two tuples: what
\* check_space is to ensure for insert_slot_at (352-355).  It does until enough
\* deletions have wrapped TotalFreeSpace round (300, 413).
NoCollision ==
    /\ \A i \in DOMAIN page.slots :
          SlotEnd(page) <= page.slots[i].at /\ page.slots[i].at + page.slots[i].size <= PageSize
    /\ \A i, j \in DOMAIN page.slots :
          i # j => \/ page.slots[i].at + page.slots[i].size <= page.slots[j].at
                   \/ page.slots[j].at + page.slots[j].size <= page.slots[i].at

\* ... and it does, by its check alone, on a page from which nothing was deleted
\* since it was last rebuilt (286-294).
CheckPreventsCollision == ~fragmented => NoCollision

\* ContFreeSpace and TotalFreeSpace match, and match the room there is, on such a
\* page: after init, insertions, collapse (438-439) and split_half.
SpaceExact ==
    ~fragmented => /\ page.cont = page.total
                   /\ page.cont = page.ptr - SlotEnd(page)

\* The contiguous space of the header is really there, whatever was deleted: an
\* insertion that does not collapse never overwrites anything (276-277).
ContiguousIsThere == ~Collided(page) => page.cont <= page.ptr - SlotEnd(page)

\* TotalFreeSpace counts the gaps that deletions left (277-278, 388-389): it is the
\* room that the tuples and their slots leave on the page.  Not so after a delete,
\* which subtracts what it freed (413).
TotalIsFree ==
    Usable => page.total = FoldLeft(LAMBDA room, slot : room - slot.size - Slot,
                                    PageSize - Header, page.slots)

\* Splitting a page that has no room makes room for the tuple on the side it
\* goes to (285): split_and_insert unwraps that insertion.  So it is for tuples
\* that differ little in size.
SplitMakesRoom ==
    \A tuple \in Tuple :
        (Usable /\ tuple.key \notin KeysOf(page.slots) /\ Verdict(page, tuple) = "OutOfSpace")
            => SplitFits(page, tuple)

\* A split keeps every tuple, on the side of the middle key that a later search
\* for it will take; a leaf keeps the new tuple too, an inner node hands it up
\* when it is the middle one.
SplitPartitions ==
    \A tuple \in Tuple :
        (Usable /\ tuple.key \notin KeysOf(page.slots) /\ Verdict(page, tuple) = "OutOfSpace")
            => LET mid   == Middle(page.slots, tuple)
                   left  == KeysOf(Half(page, tuple, "left").slots)
                   right == KeysOf(Half(page, tuple, "right").slots)
               IN  /\ left \cup right \cup {mid} = KeysOf(page.slots) \cup {tuple.key}
                   /\ page.type = "Leaf" => mid \in right
                   /\ \A a \in left, b \in right : a < mid /\ mid <= b
=============================================================================
