-------------------------- MODULE PageSearchProofs --------------------------
(***************************************************************************)
(* The binary searches are right on every sorted page, of any number of    *)
(* slots and over any keys: they stay inside the page, shrink the window   *)
(* on every iteration, and return what their strategy documents.           *)
(***************************************************************************)
EXTENDS PageSearch, TLAPS

USE SearchAssumption DEF SearchAssumption

\* The slots outside the window are on the right side of the key.  UniqueSearch
\* closes the window on a slot that holds the key.
Excluded ==
    \/ /\ \A j \in 0 .. (count - 1) : j < low =>
             IF strategy = "UpperPartitionSearch" THEN slots[j] <= key ELSE slots[j] < key
       /\ \A j \in 0 .. (count - 1) : j > high =>
             IF strategy = "LowerPartitionSearch" THEN slots[j] >= key ELSE slots[j] > key
    \/ strategy = "UniqueSearch" /\ low = high /\ slots[low] = key

IInv == TypeOK /\ Sorted /\ WindowInPage
        /\ (answer = Searching => Excluded) /\ AnswerRight

\* Some(i) and the two other values of answer are distinct.
LEMMA Answers ==
    /\ None # Searching
    /\ \A i \in Nat : Some(i) # None /\ Some(i) # Searching
    /\ \A i, j \in Nat : Some(i) = Some(j) => i = j
BY DEF Some, None, Searching

\* The middle of a window that has not collapsed is not its end.
LEMMA Middle ==
    ASSUME NEW l \in Nat, NEW h \in Nat, l <= h
    PROVE  LET m == (h - l) \div 2 + l IN
           /\ m \in Nat /\ l <= m /\ m <= h
           /\ 2 * (m - l) <= h - l /\ 2 * (h - m) <= h - l + 1
           /\ l # h => m < h
           /\ l = h => m = l
OBVIOUS

\* The bounds that step may return.
LEMMA NextWindow ==
    ASSUME NEW l \in Nat, NEW h \in Nat, NEW m \in Nat, l <= m, m < h,
           2 * (m - l) <= h - l, 2 * (h - m) <= h - l + 1,
           NEW x, NEW y,
           \/ x = l /\ y = m
           \/ x = m + 1 /\ y = h
           \/ x = m /\ y = m
           \/ x = l /\ m = l /\ y = h - 1
           \/ x = l /\ m # l /\ y = m - 1
    PROVE  /\ x \in Nat /\ y \in Nat /\ x <= y /\ y <= h
           /\ y - x < h - l /\ 2 * (y - x) <= h - l
OBVIOUS

LEMMA InitIInv == Init => IInv
<1> SUFFICES ASSUME Init PROVE IInv
  OBVIOUS
<1>1. TypeOK /\ WindowInPage /\ Sorted
  BY DEF Init, TypeOK, WindowInPage
<1>2. Excluded
  BY DEF Init, Excluded
<1>3. AnswerRight
  BY DEF Init, AnswerRight
<1> QED
  BY <1>1, <1>2, <1>3 DEF IInv

\* An iteration on a window of several slots shrinks it inside the page and
\* excludes only slots on the right side of the key.
LEMMA Shrink ==
    ASSUME IInv, answer = Searching, low # high, UNCHANGED <<input, answer>>,
           rounds' = rounds + 1,
           \/ slots[idx] = key /\ low' = low /\ high' = idx /\ strategy = "LowerPartitionSearch"
           \/ slots[idx] = key /\ low' = idx + 1 /\ high' = high /\ strategy = "UpperPartitionSearch"
           \/ slots[idx] = key /\ low' = idx /\ high' = idx /\ strategy = "UniqueSearch"
           \/ slots[idx] < key /\ low' = idx + 1 /\ high' = high
           \/ slots[idx] > key /\ low' = low /\ idx = low /\ high' = high - 1
           \/ slots[idx] > key /\ low' = low /\ idx # low /\ high' = idx - 1
    PROVE  IInv' /\ high' - low' < high - low /\ 2 * (high' - low') <= high - low
<1> DEFINE m == idx
<1>1. /\ low \in Nat /\ high \in Nat /\ low < high /\ high < count /\ count \in Nat
      /\ key \in Nat /\ \A j \in 0 .. (count - 1) : slots[j] \in Nat
  <2>1. low \in Nat /\ high \in Nat /\ count \in Nat /\ low <= high /\ high < count
    BY DEF IInv, TypeOK, WindowInPage
  <2>2. key \in Key /\ slots \in [0 .. (count - 1) -> Key]
    BY DEF IInv, TypeOK
  <2>3. low < high
    BY <2>1
  <2> QED
    BY <2>1, <2>2, <2>3
<1>2. /\ m \in Nat /\ low <= m /\ m < high
      /\ 2 * (m - low) <= high - low /\ 2 * (high - m) <= high - low + 1
  BY <1>1, Middle DEF idx
<1>a. \/ low' = low /\ high' = m
      \/ low' = m + 1 /\ high' = high
      \/ low' = m /\ high' = m
      \/ low' = low /\ m = low /\ high' = high - 1
      \/ low' = low /\ m # low /\ high' = m - 1
  OBVIOUS
<1> HIDE DEF m
<1>3. /\ TypeOK' /\ WindowInPage'
      /\ high' - low' < high - low /\ 2 * (high' - low') <= high - low
  <2>0. /\ low' \in Nat /\ high' \in Nat /\ low' <= high' /\ high' <= high
        /\ high' - low' < high - low /\ 2 * (high' - low') <= high - low
    BY <1>1, <1>2, <1>a, NextWindow
  <2>1. high' < count
    BY <1>1, <2>0
  <2>2. TypeOK'
    BY <2>0 DEF IInv, TypeOK, input
  <2>3. WindowInPage'
    BY <2>0, <2>1 DEF WindowInPage, input
  <2> QED
    BY <2>0, <2>2, <2>3
<1>4. Sorted'
  BY DEF IInv, Sorted, input
<1>5. /\ \A j \in 0 .. (count - 1) : j < m => slots[j] <= slots[m]
      /\ \A j \in 0 .. (count - 1) : j > m => slots[m] <= slots[j]
  BY <1>1, <1>2 DEF IInv, Sorted
<1>6. Excluded'
  <2>0. /\ \A j \in 0 .. (count - 1) : j < low =>
               IF strategy = "UpperPartitionSearch" THEN slots[j] <= key ELSE slots[j] < key
        /\ \A j \in 0 .. (count - 1) : j > high =>
               IF strategy = "LowerPartitionSearch" THEN slots[j] >= key ELSE slots[j] > key
    BY <1>1 DEF IInv, Excluded
  <2>1. CASE slots[m] = key /\ low' = low /\ high' = m /\ strategy = "LowerPartitionSearch"
    BY <1>1, <1>2, <1>5, <2>0, <2>1 DEF Excluded, input
  <2>2. CASE slots[m] = key /\ low' = m + 1 /\ high' = high /\ strategy = "UpperPartitionSearch"
    BY <1>1, <1>2, <1>5, <2>0, <2>2 DEF Excluded, input
  <2>3. CASE slots[m] = key /\ low' = m /\ high' = m /\ strategy = "UniqueSearch"
    BY <2>3 DEF Excluded, input
  <2>4. CASE slots[m] < key /\ low' = m + 1 /\ high' = high
    BY <1>1, <1>2, <1>5, <2>0, <2>4 DEF Excluded, input
  <2>5. CASE slots[m] > key /\ low' = low /\ m = low /\ high' = high - 1
    BY <1>1, <1>2, <1>5, <2>0, <2>5 DEF Excluded, input
  <2>6. CASE slots[m] > key /\ low' = low /\ high' = m - 1
    BY <1>1, <1>2, <1>5, <2>0, <2>6 DEF Excluded, input
  <2> QED
    BY <2>1, <2>2, <2>3, <2>4, <2>5, <2>6 DEF m
<1>7. AnswerRight'
  BY DEF AnswerRight
<1> QED
  BY <1>3, <1>4, <1>6, <1>7 DEF IInv

\* When the window has collapsed to one slot, on_convergence answers right.
LEMMA Converge ==
    ASSUME IInv, answer = Searching, low = high, answer' = Converged(idx),
           rounds' = rounds + 1, UNCHANGED <<input, low, high>>
    PROVE  IInv' /\ answer' # Searching
<1>1. /\ low \in Nat /\ count \in Nat /\ low < count /\ strategy \in Strategy
      /\ key \in Nat /\ \A j \in 0 .. (count - 1) : slots[j] \in Nat
  <2>1. low \in Nat /\ count \in Nat /\ low < count /\ strategy \in Strategy
    BY DEF IInv, TypeOK, WindowInPage
  <2>2. key \in Key /\ slots \in [0 .. (count - 1) -> Key]
    BY DEF IInv, TypeOK
  <2> QED
    BY <2>1, <2>2
<1>2. idx = low
  BY <1>1 DEF idx
<1>3. \A i \in 0 .. count : Below(i)' = Below(i) /\ AtMost(i)' = AtMost(i)
  BY DEF Below, AtMost, input
<1>4. Present' = Present /\ Sorted' = Sorted
  BY DEF Present, Sorted, input
<1>5. /\ \A j \in 0 .. (count - 1) : j < low => slots[j] <= slots[low]
      /\ \A j \in 0 .. (count - 1) : j > low => slots[low] <= slots[j]
  BY <1>1 DEF IInv, Sorted
<1>6. Excluded
  BY DEF IInv
<1>7. /\ answer' \in {Some(i) : i \in 0 .. count} \cup {None}
      /\ AnswerRight'
  <2>1. CASE strategy = "BinarySearch"
    <3>1. slots[low] # key => ~Present
      BY <1>1, <1>6, <2>1 DEF Excluded, Present
    <3>2. CASE slots[low] = key
      BY <1>1, <1>2, <1>4, <2>1, <3>2 DEF Converged, AnswerRight, Present, input
    <3>3. CASE slots[low] # key
      BY <1>1, <1>2, <1>4, <2>1, <3>1, <3>3 DEF Converged, AnswerRight, input
    <3> QED
      BY <3>2, <3>3
  <2>2. CASE strategy = "LowerPartitionSearch"
    <3>1. CASE slots[low] < key
      <4>1. Below(low + 1)
        BY <1>1, <1>5, <1>6, <2>2, <3>1 DEF Excluded, Below
      <4> QED
        BY <1>1, <1>2, <1>3, <2>2, <3>1, <4>1 DEF Converged, AnswerRight, input
    <3>2. CASE ~(slots[low] < key)
      <4>1. Below(low)
        BY <1>1, <1>5, <1>6, <2>2, <3>2 DEF Excluded, Below
      <4> QED
        BY <1>1, <1>2, <1>3, <2>2, <3>2, <4>1 DEF Converged, AnswerRight, input
    <3> QED
      BY <3>1, <3>2
  <2>3. CASE strategy = "UpperPartitionSearch"
    <3>1. CASE slots[low] > key
      <4>1. AtMost(low)
        BY <1>1, <1>5, <1>6, <2>3, <3>1 DEF Excluded, AtMost
      <4> QED
        BY <1>1, <1>2, <1>3, <2>3, <3>1, <4>1 DEF Converged, AnswerRight, input
    <3>2. CASE ~(slots[low] > key)
      <4>1. AtMost(low + 1)
        BY <1>1, <1>5, <1>6, <2>3, <3>2 DEF Excluded, AtMost
      <4> QED
        BY <1>1, <1>2, <1>3, <2>3, <3>2, <4>1 DEF Converged, AnswerRight, input
    <3> QED
      BY <3>1, <3>2
  <2>4. CASE strategy = "UniqueSearch"
    <3>1. CASE slots[low] = key
      BY <1>1, <1>2, <1>4, <2>4, <3>1 DEF Converged, AnswerRight, Present, input
    <3>2. CASE slots[low] < key
      <4>1. Below(low + 1) /\ ~Present
        BY <1>1, <1>5, <1>6, <2>4, <3>2 DEF Excluded, Below, Present
      <4> QED
        BY <1>1, <1>2, <1>3, <1>4, <2>4, <3>2, <4>1 DEF Converged, AnswerRight, input
    <3>3. CASE slots[low] > key
      <4>1. Below(low) /\ ~Present
        BY <1>1, <1>5, <1>6, <2>4, <3>3 DEF Excluded, Below, Present
      <4> QED
        BY <1>1, <1>2, <1>3, <1>4, <2>4, <3>3, <4>1 DEF Converged, AnswerRight, input
    <3> QED
      BY <1>1, <3>1, <3>2, <3>3
  <2> QED
    BY <1>1, <2>1, <2>2, <2>3, <2>4 DEF Strategy
<1>8. answer' # Searching
  BY <1>1, <1>7, Answers
<1>9. TypeOK' /\ WindowInPage'
  BY <1>7 DEF IInv, TypeOK, WindowInPage, input
<1> QED
  BY <1>4, <1>7, <1>8, <1>9 DEF IInv

\* BinarySearch returns as soon as it sees the key.
LEMMA Hit ==
    ASSUME IInv, answer = Searching, strategy = "BinarySearch", slots[idx] = key,
           answer' = Some(idx), rounds' = rounds + 1, UNCHANGED <<input, low, high>>
    PROVE  IInv' /\ answer' # Searching
<1>1. idx \in 0 .. (count - 1)
  BY Middle DEF IInv, TypeOK, WindowInPage, idx
<1>2. answer' # Searching /\ answer' \in {Some(i) : i \in 0 .. count}
  <2>1. idx \in Nat /\ idx \in 0 .. count
    BY <1>1 DEF IInv, TypeOK
  <2> QED
    BY <2>1, Answers
<1>3. AnswerRight'
  BY <1>1 DEF AnswerRight, Present, input
<1>4. TypeOK' /\ WindowInPage' /\ Sorted'
  BY <1>2 DEF IInv, TypeOK, WindowInPage, Sorted, input
<1> QED
  BY <1>2, <1>3, <1>4 DEF IInv

LEMMA NextIInv ==
    ASSUME IInv, Iterate
    PROVE  /\ IInv'
           /\ answer' = Searching => /\ high' - low' < high - low
                                    /\ 2 * (high' - low') <= high - low
<1> USE DEF Iterate, Bounds, Return
<1>1. CASE low = high /\ Return(Converged(idx))
  BY <1>1, Converge
<1>2. CASE low # high /\ slots[idx] = key /\ OnEqual
  <2>1. CASE strategy = "BinarySearch"
    BY <1>2, <2>1, Hit DEF OnEqual
  <2>2. CASE strategy # "BinarySearch"
    BY <1>2, <2>2, Shrink DEF OnEqual, Strategy, IInv, TypeOK
  <2> QED
    BY <2>1, <2>2
<1>3. CASE low # high /\ slots[idx] < key /\ OnLess
  BY <1>3, Shrink DEF OnLess
<1>4. CASE low # high /\ slots[idx] > key /\ OnGreater
  BY <1>4, Shrink DEF OnGreater
<1> QED
  BY <1>1, <1>2, <1>3, <1>4

\* The invariant holds of every search.
THEOREM Invariance == Spec => []IInv
<1>1. IInv /\ UNCHANGED vars => IInv'
  BY DEF vars, input, IInv, TypeOK, Sorted, WindowInPage, Excluded, AnswerRight,
         Present, Below, AtMost
<1>2. IInv /\ [Next]_vars => IInv'
  BY <1>1, NextIInv DEF Next, Done
<1> QED
  BY InitIInv, <1>2, PTL DEF Spec

\* A search never looks outside the page and never underflows its window.
THEOREM StaysInPage == Spec => []WindowInPage
<1>1. IInv => WindowInPage
  BY DEF IInv
<1> QED
  BY <1>1, Invariance, PTL

\* Every strategy returns what it documents, on every sorted page.
THEOREM SearchCorrect == Spec => []AnswerRight
<1>1. IInv => AnswerRight
  BY DEF IInv
<1> QED
  BY <1>1, Invariance, PTL

\* The width of the window is a variant of the loop: it halves until the search
\* returns.
THEOREM SearchHalves == Spec => WindowHalves
<1>1. IInv /\ [Next]_vars => [answer' = Searching => /\ high' - low' < high - low
                                                   /\ 2 * (high' - low') <= high - low]_vars
  BY NextIInv DEF Next, Done
<1> QED
  BY <1>1, Invariance, PTL DEF Spec, WindowHalves

\* The window of Slice::search_with stays a window of positions of the page, or
\* one past it, and its answer one of the three (search.rs, 59-90).
THEOREM TypeCorrect == Spec => []TypeOK
<1>1. IInv => TypeOK
  BY DEF IInv
<1> QED
  BY <1>1, Invariance, PTL
=============================================================================
