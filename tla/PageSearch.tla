----------------------------- MODULE PageSearch -----------------------------
(***************************************************************************)
(* SearchStrategy::search of src/representations/search.rs, one iteration  *)
(* of its loop per step, with the four strategies, as the find_* methods   *)
(* of src/representations/page.rs call it: on the keys of a page with at   *)
(* least one slot, with the window 0 .. count - 1.  Indices are usize: an  *)
(* index outside the page or a subtraction below zero would panic.         *)
(***************************************************************************)
EXTENDS Integers

CONSTANTS
    Key,       \* keys, numbers in the order of their bytes
    MaxSlots   \* bound: slots of a page

ASSUME SearchAssumption ==
    /\ Key \subseteq Nat
    /\ MaxSlots \in Nat

Strategy == {"BinarySearch", "LowerPartitionSearch", "UpperPartitionSearch", "UniqueSearch"}

VARIABLES
    strategy,
    count,     \* ItemCount of the page
    slots,     \* the key of each slot
    key,       \* the key searched for
    low, high, \* the search window, both ends included
    answer,    \* "searching", then the outcome of the search
    rounds     \* history: iterations of the loop

input == <<strategy, count, slots, key>>
vars == <<input, low, high, answer, rounds>>

Some(i) == [found |-> i]
None == [found |-> -1]
Searching == [found |-> -2]

\* The slots of a page are in key order; keys may repeat, as in the examples of
\* search.rs, though a page never repeats one.
Sorted == \A i, j \in 0 .. (count - 1) : i < j => slots[i] <= slots[j]

Init ==
    /\ strategy \in Strategy
    /\ count \in 1 .. MaxSlots
    /\ slots \in [0 .. (count - 1) -> Key]
    /\ Sorted
    /\ key \in Key
    /\ low = 0 /\ high = count - 1
    /\ answer = Searching
    /\ rounds = 0

idx == (high - low) \div 2 + low

Bounds(l, h) == low' = l /\ high' = h /\ UNCHANGED answer
Return(a) == answer' = a /\ UNCHANGED <<low, high>>

-----------------------------------------------------------------------------
(* step: how the window shrinks, for this_key = slots[idx].                *)

OnEqual ==
    CASE strategy = "BinarySearch"         -> Return(Some(idx))
      [] strategy = "LowerPartitionSearch" -> Bounds(low, idx)
      [] strategy = "UpperPartitionSearch" -> Bounds(idx + 1, high)
      [] strategy = "UniqueSearch"         -> Bounds(idx, idx)

StopsAt == Bounds(idx, high)   \* mutant
OnLess == Bounds(idx + 1, high)

NoGuard == Bounds(low, idx - 1)   \* mutant
OnGreater == IF idx = low THEN Bounds(low, high - 1) ELSE Bounds(low, idx - 1)

(* on_convergence *)

Always(i) == Some(i)   \* mutant
Converged(i) ==
    CASE strategy = "BinarySearch" ->
             IF slots[i] = key THEN Some(i) ELSE None
      [] strategy = "LowerPartitionSearch" ->
             IF slots[i] < key THEN Some(i + 1) ELSE Some(i)
      [] strategy = "UpperPartitionSearch" ->
             IF slots[i] > key THEN Some(i) ELSE Some(i + 1)
      [] strategy = "UniqueSearch" ->
             IF slots[i] > key THEN Some(i)
             ELSE IF slots[i] = key THEN None ELSE Some(i + 1)

Iterate ==
    /\ answer = Searching
    /\ \/ /\ low = high
          /\ Return(Converged(idx))
       \/ /\ low # high /\ slots[idx] = key
          /\ OnEqual
       \/ /\ low # high /\ slots[idx] < key
          /\ OnLess
       \/ /\ low # high /\ slots[idx] > key
          /\ OnGreater
    /\ rounds' = rounds + 1
    /\ UNCHANGED input

Done == answer # Searching /\ UNCHANGED vars

Next == Iterate \/ Done

Spec == Init /\ [][Next]_vars

-----------------------------------------------------------------------------
(* Properties *)

TypeOK ==
    /\ strategy \in Strategy
    /\ count \in Nat \ {0}
    /\ slots \in [0 .. (count - 1) -> Key]
    /\ key \in Key
    /\ low \in Nat /\ high \in Nat /\ rounds \in Nat
    /\ answer \in {Some(i) : i \in 0 .. count} \cup {None, Searching}

\* The window never inverts and never leaves the page: high - low (line 69)
\* does not underflow and get_key(idx) (70) finds a tuple to unwrap.
WindowInPage == 0 <= low /\ low <= high /\ high < count

Present == \E i \in 0 .. (count - 1) : slots[i] = key

\* i separates the keys that satisfy the first comparison from the rest.
Below(i) == \A j \in 0 .. (count - 1) : j < i <=> slots[j] < key
AtMost(i) == \A j \in 0 .. (count - 1) : j < i <=> slots[j] <= key

\* What each strategy documents, for every sorted page: BinarySearch finds the
\* key exactly if it is there, the partitions count the smaller and the
\* not-greater keys, UniqueSearch finds where a new key goes and refuses one
\* that is there.
AnswerRight ==
    answer # Searching =>
        CASE strategy = "BinarySearch" ->
                 IF Present THEN \E i \in 0 .. (count - 1) : answer = Some(i) /\ slots[i] = key
                            ELSE answer = None
          [] strategy = "LowerPartitionSearch" ->
                 \E i \in 0 .. count : answer = Some(i) /\ Below(i)
          [] strategy = "UpperPartitionSearch" ->
                 \E i \in 0 .. count : answer = Some(i) /\ AtMost(i)
          [] strategy = "UniqueSearch" ->
                 IF Present THEN answer = None
                            ELSE \E i \in 0 .. count : answer = Some(i) /\ Below(i)

\* Every iteration that does not return leaves a window at most half as wide, so
\* that the loop ends, after at most logarithmically many of them.
WindowHalves ==
    [][answer' = Searching => /\ high' - low' < high - low
                              /\ 2 * (high' - low') <= high - low]_vars
=============================================================================
