----------------------------- MODULE BTreeProofs -----------------------------
(***************************************************************************)
(* Type correctness of BTree, PagesFilled and the fact that no key leaves  *)
(* the leaves, for any number of threads, trees and keys and any capacity  *)
(* of the pages, with duplicate keys or without.                           *)
(*                                                                         *)
(* IInv is the inductive invariant.  Beside the properties it says what a  *)
(* call knows of the pages it holds ids of: pages are never freed and keep *)
(* their type (Grows), so what a call read stays true however old it is    *)
(* (CallPersists), and a step is judged by the one thread that takes it    *)
(* (StepCalls).  A call at a leaf carries its own key, and a call above    *)
(* the leaves a separator whose child is allocated, its own key being in a *)
(* leaf by then; that is why the empty leaf, the only page a split cannot  *)
(* halve, is met only in a tree that stored nothing.                       *)
(***************************************************************************)
EXTENDS BTree, FiniteSetTheorems, SequenceTheorems, TLAPS

USE DEF PageID

-----------------------------------------------------------------------------
(* Sequences of tuples.                                                    *)

\* The two parts of a sequence cut after c elements hold its elements.
LEMMA CutProperties ==
    ASSUME NEW S, NEW s \in Seq(S), NEW c \in 0 .. Len(s)
    PROVE  /\ SubSeq(s, 1, c) \in Seq(S) /\ Len(SubSeq(s, 1, c)) = c
           /\ SubSeq(s, c + 1, Len(s)) \in Seq(S)
           /\ Len(SubSeq(s, c + 1, Len(s))) = Len(s) - c
           /\ ToSet(s) = ToSet(SubSeq(s, 1, c)) \cup ToSet(SubSeq(s, c + 1, Len(s)))
<1> DEFINE a == SubSeq(s, 1, c)
           b == SubSeq(s, c + 1, Len(s))
<1>1. /\ a \in Seq(S) /\ Len(a) = c
      /\ \A i \in 1 .. c : a[i] = s[i]
  <2>1. \A i \in 1 .. c : s[i] \in S
    BY ElementOfSeq
  <2> QED
    BY <2>1, SubSeqProperties
<1>2. /\ b \in Seq(S) /\ Len(b) = Len(s) - c
      /\ \A i \in 1 .. (Len(s) - c) : b[i] = s[c + i]
  <2>1. \A i \in c + 1 .. Len(s) : s[i] \in S
    BY ElementOfSeq
  <2>2. Len(s) \in Nat
    BY LenProperties
  <2>3. /\ b \in Seq(S) /\ Len(b) = IF c + 1 <= Len(s) THEN Len(s) - (c + 1) + 1 ELSE 0
        /\ \A i \in 1 .. Len(s) - (c + 1) + 1 : b[i] = s[c + 1 + i - 1]
    BY <2>1, <2>2, SubSeqProperties
  <2> QED
    BY <2>2, <2>3
<1>3. DOMAIN s = 1 .. Len(s) /\ DOMAIN a = 1 .. c /\ DOMAIN b = 1 .. (Len(s) - c) /\ Len(s) \in Nat
  BY <1>1, <1>2, LenProperties
<1>4. ToSet(s) = ToSet(a) \cup ToSet(b)
  <2>1. ASSUME NEW i \in 1 .. Len(s) PROVE s[i] \in ToSet(a) \cup ToSet(b)
    <3>1. CASE i <= c
      BY <1>1, <1>3, <3>1 DEF ToSet
    <3>2. CASE i > c
      <4>1. i - c \in 1 .. (Len(s) - c) /\ c + (i - c) = i
        BY <1>3, <3>2
      <4>2. b[i - c] = s[i]
        BY <4>1, <1>2
      <4> QED
        BY <4>1, <4>2, <1>3 DEF ToSet
    <3> QED
      BY <3>1, <3>2, <1>3
  <2>2. ASSUME NEW i \in 1 .. c PROVE a[i] \in ToSet(s)
    BY <1>1, <1>3 DEF ToSet
  <2>3. ASSUME NEW i \in 1 .. (Len(s) - c) PROVE b[i] \in ToSet(s)
    <3>1. c + i \in 1 .. Len(s)
      BY <1>3
    <3>2. b[i] = s[c + i]
      BY <1>2
    <3> QED
      BY <3>1, <3>2, <1>3 DEF ToSet
  <2> QED
    BY <2>1, <2>2, <2>3, <1>3 DEF ToSet
<1> QED
  BY <1>1, <1>2, <1>4

\* What ToSet says of a concatenation.
LEMMA ConcatToSet ==
    ASSUME NEW S, NEW s \in Seq(S), NEW t \in Seq(S)
    PROVE  /\ s \o t \in Seq(S) /\ Len(s \o t) = Len(s) + Len(t)
           /\ ToSet(s \o t) = ToSet(s) \cup ToSet(t)
<1>1. /\ s \o t \in Seq(S) /\ Len(s \o t) = Len(s) + Len(t)
      /\ \A i \in 1 .. Len(s) + Len(t) :
            (s \o t)[i] = IF i <= Len(s) THEN s[i] ELSE t[i - Len(s)]
  BY ConcatProperties
<1>2. /\ Len(s) \in Nat /\ DOMAIN s = 1 .. Len(s)
      /\ Len(t) \in Nat /\ DOMAIN t = 1 .. Len(t)
      /\ DOMAIN (s \o t) = 1 .. Len(s) + Len(t)
  BY <1>1, LenProperties
<1>3. ASSUME NEW i \in 1 .. Len(t) PROVE (s \o t)[i + Len(s)] = t[i]
  BY <1>1, <1>2
<1>4. ASSUME NEW i \in 1 .. Len(s) PROVE (s \o t)[i] = s[i]
  BY <1>1, <1>2
<1>5. ToSet(s \o t) \subseteq ToSet(s) \cup ToSet(t)
  BY <1>1, <1>2 DEF ToSet
<1>6. ToSet(s) \subseteq ToSet(s \o t)
  BY <1>4, <1>2 DEF ToSet
<1>7. ToSet(t) \subseteq ToSet(s \o t)
  <2>1. \A i \in 1 .. Len(t) : i + Len(s) \in DOMAIN (s \o t)
    BY <1>2
  <2> QED
    BY <2>1, <1>3, <1>2 DEF ToSet
<1> QED
  BY <1>1, <1>5, <1>6, <1>7

\* InsertAt adds one element.
LEMMA InsertAtProperties ==
    ASSUME NEW S, NEW s \in Seq(S), NEW c \in 0 .. Len(s), NEW e \in S,
           NEW i, i = c + 1, NEW t, t = InsertAt(s, i, e)
    PROVE  t \in Seq(S) /\ Len(t) = Len(s) + 1 /\ ToSet(t) = ToSet(s) \cup {e}
<1> DEFINE a == SubSeq(s, 1, c)
           b == SubSeq(s, c + 1, Len(s))
<1>1. t = (a \o <<e>>) \o b
  <2>1. (c + 1) - 1 = c
    OBVIOUS
  <2> QED
    BY <2>1 DEF InsertAt
<1>2. /\ a \in Seq(S) /\ Len(a) = c /\ b \in Seq(S) /\ Len(b) = Len(s) - c
      /\ ToSet(s) = ToSet(a) \cup ToSet(b)
  BY CutProperties
<1>3. <<e>> \in Seq(S) /\ Len(<<e>>) = 1 /\ ToSet(<<e>>) = {e}
  BY DEF ToSet
<1> HIDE DEF a, b
<1>4. \A u, v \in Seq(S) : /\ u \o v \in Seq(S) /\ Len(u \o v) = Len(u) + Len(v)
                          /\ ToSet(u \o v) = ToSet(u) \cup ToSet(v)
  BY ConcatToSet
<1>5. /\ a \o <<e>> \in Seq(S) /\ Len(a \o <<e>>) = Len(a) + 1
      /\ ToSet(a \o <<e>>) = ToSet(a) \cup {e}
  <2>1. /\ a \o <<e>> \in Seq(S) /\ Len(a \o <<e>>) = Len(a) + Len(<<e>>)
        /\ ToSet(a \o <<e>>) = ToSet(a) \cup ToSet(<<e>>)
    BY <1>2, <1>3, <1>4
  <2> QED
    BY <2>1, <1>3
<1>6. /\ (a \o <<e>>) \o b \in Seq(S)
      /\ Len((a \o <<e>>) \o b) = Len(a \o <<e>>) + Len(b)
      /\ ToSet((a \o <<e>>) \o b) = ToSet(a \o <<e>>) \cup ToSet(b)
  BY <1>2, <1>4, <1>5
<1>7. Len(s) \in Nat /\ c \in Nat
  BY LenProperties
<1>8. Len((a \o <<e>>) \o b) = Len(s) + 1
  BY <1>2, <1>5, <1>6, <1>7
<1> QED
  BY <1>1, <1>2, <1>5, <1>6, <1>8

\* The keys of a page are those of its tuples, no more of them than tuples.
LEMMA KeysAreOfTuples ==
    ASSUME NEW items \in Seq(Tuple)
    PROVE  /\ KeysIn(items) = {x.key : x \in ToSet(items)}
           /\ KeysIn(items) \subseteq Key
           /\ IsFiniteSet(KeysIn(items)) /\ Cardinality(KeysIn(items)) <= Len(items)
           /\ KeysIn(items) = {} <=> items = <<>>
<1>1. /\ Len(items) \in Nat /\ DOMAIN items = 1 .. Len(items)
      /\ \A i \in 1 .. Len(items) : items[i] \in Tuple
  BY LenProperties, ElementOfSeq
<1>2. KeysIn(items) = {x.key : x \in ToSet(items)}
  BY DEF KeysIn, ToSet
<1>3. KeysIn(items) \subseteq Key
  BY <1>1 DEF KeysIn, Tuple
<1>4. IsFiniteSet(KeysIn(items)) /\ Cardinality(KeysIn(items)) <= Len(items)
  <2> DEFINE f == [i \in 1 .. Len(items) |-> items[i].key]
  <2>1. f \in Surjection(1 .. Len(items), KeysIn(items))
    BY <1>1 DEF Surjection, KeysIn
  <2>2. IsFiniteSet(1 .. Len(items)) /\ Cardinality(1 .. Len(items)) = Len(items)
    <3>1. /\ IsFiniteSet(1 .. Len(items))
          /\ Cardinality(1 .. Len(items)) = IF 1 > Len(items) THEN 0 ELSE Len(items) - 1 + 1
      <4>1. 1 \in Int /\ Len(items) \in Int
        BY <1>1
      <4> QED
        BY <4>1, FS_Interval
    <3> QED
      BY <3>1, <1>1
  <2> HIDE DEF f
  <2> QED
    BY <2>1, <2>2, FS_Surjection
<1>5. KeysIn(items) = {} <=> items = <<>>
  <2>1. items = <<>> => KeysIn(items) = {}
    BY <1>1 DEF KeysIn
  <2>2. items # <<>> => Len(items) >= 1
    BY <1>1, EmptySeq
  <2>3. items # <<>> => items[1].key \in KeysIn(items)
    BY <1>1, <2>2 DEF KeysIn
  <2> QED
    BY <2>1, <2>3
<1> QED
  BY <1>2, <1>3, <1>4, <1>5

\* The searches return a position of the page.
LEMMA PartitionBounds ==
    ASSUME NEW items \in Seq(Tuple), NEW k
    PROVE  /\ PartitionUpper(items, k) \in 0 .. Len(items)
           /\ PartitionLower(items, k) \in 0 .. Len(items)
           /\ PartitionUpper(items, k) = 0 => \A j \in KeysIn(items) : ~(j <= k)
<1>1. IsFiniteSet(KeysIn(items)) /\ Cardinality(KeysIn(items)) <= Len(items) /\ Len(items) \in Nat
  BY KeysAreOfTuples, LenProperties
<1>2. ASSUME NEW T \in SUBSET KeysIn(items)
      PROVE  IsFiniteSet(T) /\ Cardinality(T) \in 0 .. Len(items)
  <2>1. IsFiniteSet(T) /\ Cardinality(T) <= Cardinality(KeysIn(items))
    BY <1>1, FS_Subset
  <2>2. Cardinality(T) \in Nat /\ Cardinality(KeysIn(items)) \in Nat
    BY <1>1, <2>1, FS_CardinalityType
  <2> QED
    BY <1>1, <2>1, <2>2
<1> DEFINE U == {j \in KeysIn(items) : j <= k}
           L == {j \in KeysIn(items) : j < k}
<1>3. U \in SUBSET KeysIn(items) /\ L \in SUBSET KeysIn(items)
  OBVIOUS
<1>4. PartitionUpper(items, k) = Cardinality(U) /\ PartitionLower(items, k) = Cardinality(L)
  BY DEF PartitionUpper, PartitionLower
<1>5. (\A j \in KeysIn(items) : ~(j <= k)) <=> U = {}
  OBVIOUS
<1> HIDE DEF U, L
<1>6. Cardinality(U) = 0 => U = {}
  BY <1>2, <1>3, FS_EmptySet
<1> QED
  BY <1>2, <1>3, <1>4, <1>5, <1>6

\* SlottedPage::insert adds one tuple to a page.
LEMMA InsertedProperties ==
    ASSUME NEW items \in Seq(Tuple), NEW tuple \in Tuple
    PROVE  /\ Inserted(items, tuple) \in Seq(Tuple)
           /\ Len(Inserted(items, tuple)) = Len(items) + 1
           /\ ToSet(Inserted(items, tuple)) = ToSet(items) \cup {tuple}
<1>1. PICK c \in 0 .. Len(items) : c = PartitionLower(items, tuple.key)
  BY PartitionBounds
<1>2. PICK i : i = c + 1
  OBVIOUS
<1>3. PICK t : t = InsertAt(items, i, tuple)
  OBVIOUS
<1>4. t = Inserted(items, tuple)
  BY <1>1, <1>2, <1>3 DEF Inserted
<1>5. t \in Seq(Tuple)
  BY <1>2, <1>3, InsertAtProperties
<1>6. Len(t) = Len(items) + 1
  BY <1>2, <1>3, InsertAtProperties
<1>7. ToSet(t) = ToSet(items) \cup {tuple}
  BY <1>2, <1>3, InsertAtProperties
<1> QED
  BY <1>4, <1>5, <1>6, <1>7

\* split_half parts the tuples, and the half the new tuple goes to is not all of
\* them: the other half keeps at least one.
LEMMA SplitHalfProperties ==
    ASSUME NEW items \in Seq(Tuple), NEW tuple \in Tuple
    PROVE  LET h == SplitHalf(items, tuple) IN
           /\ h.kept \in Seq(Tuple) /\ h.moved \in Seq(Tuple)
           /\ h.middle \in ToSet(items) \cup {tuple}
           /\ ToSet(items) = ToSet(h.kept) \cup ToSet(h.moved)
           /\ Len(h.kept) + Len(h.moved) = Len(items)
           /\ tuple.key < h.middle.key => Len(h.moved) > 0
           /\ ~(tuple.key < h.middle.key) => Len(h.kept) > 0 \/ items = <<>>
           /\ items = <<>> => h.middle = tuple
<1> DEFINE n   == Len(items)
           mid == (n + 1) \div 2
           loc == PartitionUpper(items, tuple.key)
           cut == IF loc < mid THEN mid - 1 ELSE mid
           h   == SplitHalf(items, tuple)
<1>1. /\ n \in Nat /\ DOMAIN items = 1 .. n
      /\ n = 0 <=> items = <<>>
      /\ loc \in 0 .. n
  BY LenProperties, EmptySeq, PartitionBounds
<1>2. \A i \in 1 .. n : items[i] \in ToSet(items) /\ items[i].key \in KeysIn(items)
                        /\ items[i].key \in Nat
  <2> TAKE i \in 1 .. n
  <2>1. items[i] \in Tuple
    BY ElementOfSeq
  <2>2. items[i].key \in Nat
    BY <2>1, TreeAssumption DEF Tuple
  <2>3. items[i] \in ToSet(items)
    BY <1>1 DEF ToSet
  <2>4. items[i].key \in KeysIn(items)
    BY <1>1 DEF KeysIn
  <2> QED
    BY <2>2, <2>3, <2>4
<1>3. tuple.key \in Nat
  BY TreeAssumption DEF Tuple
<1>4. loc = 0 => \A j \in KeysIn(items) : ~(j <= tuple.key)
  BY PartitionBounds
<1>5. /\ h.kept = SubSeq(items, 1, cut) /\ h.moved = SubSeq(items, cut + 1, n)
      /\ h.middle = IF loc = mid THEN tuple ELSE items[cut + 1]
  BY DEF SplitHalf
<1> HIDE DEF loc, h
<1>6. mid \in Nat /\ 2 * mid <= n + 1 /\ n <= 2 * mid
  BY <1>1
<1> HIDE DEF n, mid
<1>7. cut \in 0 .. n /\ (loc # mid => cut + 1 \in 1 .. n)
  BY <1>1, <1>6
<1>8. /\ h.kept \in Seq(Tuple) /\ Len(h.kept) = cut
      /\ h.moved \in Seq(Tuple) /\ Len(h.moved) = n - cut
      /\ ToSet(items) = ToSet(h.kept) \cup ToSet(h.moved)
  <2>1. cut \in 0 .. Len(items) /\ h.kept = SubSeq(items, 1, cut)
        /\ h.moved = SubSeq(items, cut + 1, Len(items))
    BY <1>5, <1>7 DEF n
  <2> HIDE DEF cut
  <2>2. /\ h.kept \in Seq(Tuple) /\ Len(h.kept) = cut
        /\ h.moved \in Seq(Tuple) /\ Len(h.moved) = Len(items) - cut
        /\ ToSet(items) = ToSet(h.kept) \cup ToSet(h.moved)
    BY <2>1, CutProperties
  <2> QED
    BY <2>2 DEF n
<1>9. h.middle \in ToSet(items) \cup {tuple}
  BY <1>2, <1>5, <1>7
<1>10. Len(h.kept) + Len(h.moved) = n
  BY <1>1, <1>7, <1>8
<1>11. /\ tuple.key < h.middle.key => Len(h.moved) > 0
       /\ ~(tuple.key < h.middle.key) => Len(h.kept) > 0 \/ n = 0
       /\ n = 0 => h.middle = tuple
  <2>1. CASE loc = mid
    <3>1. h.middle = tuple /\ cut = mid
      BY <1>5, <1>6, <2>1
    <3>2. ~(tuple.key < h.middle.key)
      BY <3>1, <1>3
    <3>3. n # 0 => mid > 0
      BY <1>1, <1>6
    <3> QED
      BY <3>1, <3>2, <3>3, <1>8
  <2>2. CASE loc < mid
    <3>1. mid \in 1 .. n /\ cut = mid - 1 /\ cut + 1 = mid /\ loc # mid
      BY <1>1, <1>6, <2>2
    <3>2. h.middle = items[mid]
      BY <3>1, <1>5
    <3>3. mid = 1 => tuple.key < h.middle.key
      <4>1. mid = 1 => loc = 0
        BY <2>2, <1>1
      <4>2. items[mid].key \in KeysIn(items) /\ items[mid].key \in Nat
        BY <3>1, <1>2
      <4> QED
        BY <4>1, <4>2, <3>2, <1>3, <1>4
    <3>4. Len(h.moved) > 0 /\ (mid # 1 => Len(h.kept) > 0) /\ n # 0
      BY <3>1, <1>1, <1>8
    <3> QED
      BY <3>3, <3>4
  <2>3. CASE loc > mid
    <3>1. cut = mid /\ n # 0 /\ mid < n
      BY <2>3, <1>1, <1>6
    <3>2. Len(h.moved) > 0 /\ (mid > 0 => Len(h.kept) > 0)
      BY <3>1, <1>1, <1>6, <1>8
    <3>3. mid > 0
      BY <3>1, <1>1, <1>6
    <3> QED
      BY <3>1, <3>2, <3>3
  <2> QED
    BY <2>1, <2>2, <2>3, <1>1, <1>6
<1> QED
  BY <1>1, <1>8, <1>9, <1>10, <1>11 DEF h, n

-----------------------------------------------------------------------------
(* Pages. *)

\* The tuple lists of the two halves of a split page, the new tuple in one of
\* them unless it goes up.
SplitItems(left, right, page, tuple) ==
    /\ left \in Seq(Tuple) /\ right \in Seq(Tuple)
    /\ ToSet(page.items) \subseteq ToSet(left) \cup ToSet(right)
    /\ ToSet(left) \cup ToSet(right) \subseteq ToSet(page.items) \cup {tuple}
    /\ Len(left) <= Len(page.items) /\ Len(right) <= Len(page.items)

HasTuples(page) == page.items # <<>>

\* split_and_insert of a leaf that has tuples puts the new tuple into one of two
\* leaves that have tuples, and neither is fuller than the leaf was.
LEMMA SplitLeafProperties ==
    ASSUME NEW page \in Page, NEW tuple \in Tuple, NEW p \in PageID, NEW q \in PageID,
           HasTuples(page), NEW s, s = SplitLeaf(page, p, q, tuple)
    PROVE  /\ s.left \in Page /\ s.right \in Page /\ s.up \in Tuple
           /\ s.left.type = "Leaf" /\ s.left.right = q
           /\ s.right.type = "Leaf" /\ s.right.right = page.right
           /\ SplitItems(s.left.items, s.right.items, page, tuple)
           /\ tuple \in ToSet(s.left.items) \cup ToSet(s.right.items)
           /\ HasTuples(s.left) /\ HasTuples(s.right)
           /\ s.up.value = q
<1> DEFINE h == SplitHalf(page.items, tuple)
           goesLeft == GoesLeft(tuple.key, h.middle.key)
           left == IF goesLeft THEN Inserted(h.kept, tuple) ELSE h.kept
           right == IF goesLeft THEN h.moved ELSE Inserted(h.moved, tuple)
<1>1. page.items \in Seq(Tuple) /\ page.left \in Pointer /\ page.right \in Pointer
  BY DEF Page
<1>2. /\ h.kept \in Seq(Tuple) /\ h.moved \in Seq(Tuple)
      /\ h.middle \in ToSet(page.items) \cup {tuple}
      /\ ToSet(page.items) = ToSet(h.kept) \cup ToSet(h.moved)
      /\ Len(h.kept) + Len(h.moved) = Len(page.items)
      /\ goesLeft => Len(h.moved) > 0
      /\ ~goesLeft => Len(h.kept) > 0
  BY <1>1, SplitHalfProperties DEF GoesLeft, HasTuples
<1>3. h.middle \in Tuple
  BY <1>1, <1>2, ElementOfSeq, LenProperties DEF ToSet
<1>4. /\ s.left = LeafPage(left, page.left, q) /\ s.right = LeafPage(right, p, page.right)
      /\ s.up = Upstream(h.middle, q)
  BY DEF SplitLeaf
<1>5. /\ Inserted(h.kept, tuple) \in Seq(Tuple) /\ Inserted(h.moved, tuple) \in Seq(Tuple)
      /\ Len(Inserted(h.kept, tuple)) = Len(h.kept) + 1
      /\ Len(Inserted(h.moved, tuple)) = Len(h.moved) + 1
      /\ ToSet(Inserted(h.kept, tuple)) = ToSet(h.kept) \cup {tuple}
      /\ ToSet(Inserted(h.moved, tuple)) = ToSet(h.moved) \cup {tuple}
  BY <1>2, InsertedProperties
<1>6. PICK kept \in Nat, moved \in Nat, n \in Nat :
         /\ kept = Len(h.kept) /\ moved = Len(h.moved) /\ n = Len(page.items)
         /\ kept + moved = n
         /\ goesLeft => moved > 0
         /\ ~goesLeft => kept > 0
  BY <1>1, <1>2, LenProperties
<1>0. kept + moved = n /\ (goesLeft => moved > 0) /\ (~goesLeft => kept > 0)
  BY <1>6, Zenon
<1> HIDE DEF h, goesLeft
<1>7. /\ left \in Seq(Tuple) /\ right \in Seq(Tuple)
      /\ Len(left) > 0 /\ Len(right) > 0
      /\ Len(left) <= Len(page.items) /\ Len(right) <= Len(page.items)
  <2>1. CASE goesLeft
    <3>1. left = Inserted(h.kept, tuple) /\ right = h.moved
      BY <2>1
    <3> HIDE DEF left, right
    <3>2. /\ left \in Seq(Tuple) /\ right \in Seq(Tuple)
          /\ Len(left) = kept + 1 /\ Len(right) = moved
      BY <3>1, <1>2, <1>5, <1>6
    <3>3. kept + 1 > 0 /\ moved > 0 /\ kept + 1 <= n /\ moved <= n
      BY <2>1, <1>0
    <3> QED
      BY <3>2, <3>3, <1>6, Zenon
  <2>2. CASE ~goesLeft
    <3>1. left = h.kept /\ right = Inserted(h.moved, tuple)
      BY <2>2
    <3> HIDE DEF left, right
    <3>2. /\ left \in Seq(Tuple) /\ right \in Seq(Tuple)
          /\ Len(left) = kept /\ Len(right) = moved + 1
      BY <3>1, <1>2, <1>5, <1>6
    <3>3. kept > 0 /\ moved + 1 > 0 /\ kept <= n /\ moved + 1 <= n
      BY <2>2, <1>0
    <3> QED
      BY <3>2, <3>3, <1>6, Zenon
  <2> QED
    BY <2>1, <2>2
<1>8. ToSet(left) \cup ToSet(right) = ToSet(page.items) \cup {tuple}
  BY <1>2, <1>5
<1>9. left # <<>> /\ right # <<>>
  BY <1>7, EmptySeq
<1> HIDE DEF left, right
<1>10. /\ s.left.items = left /\ s.left.type = "Leaf" /\ s.left.right = q
       /\ s.right.items = right /\ s.right.type = "Leaf" /\ s.right.right = page.right
       /\ s.up.value = q
  BY <1>4 DEF LeafPage, Upstream
<1>11. s.left \in Page /\ s.right \in Page
  BY <1>1, <1>4, <1>7 DEF LeafPage, Page, Pointer
<1>12. s.up \in Tuple
  BY <1>3, <1>4 DEF Upstream, Tuple, Pointer
<1> QED
  BY <1>7, <1>8, <1>9, <1>10, <1>11, <1>12 DEF SplitItems, HasTuples

\* split_and_insert of an inner node leaves it no child but those it had and the
\* new one, and neither half is fuller than the node was.
LEMMA SplitNodeProperties ==
    ASSUME NEW page \in Page, NEW tuple \in Tuple, NEW p \in PageID, NEW q \in PageID
    PROVE  LET s == SplitNode(page, p, q, tuple) IN
           /\ s.left \in Page /\ s.right \in Page /\ s.up \in Tuple
           /\ s.left.type = "Node" /\ s.right.type = "Node"
           /\ SplitItems(s.left.items, s.right.items, page, tuple)
           /\ s.up \in ToSet(page.items) \cup {tuple}
           /\ s.left.child = page.child /\ s.right.child = s.up.value
<1> DEFINE h == SplitHalf(page.items, tuple)
           s == SplitNode(page, p, q, tuple)
           side(x, goes) == IF goes THEN Inserted(x, tuple) ELSE x
           left == side(h.kept, tuple.key < h.middle.key)
           right == side(h.moved, tuple.key > h.middle.key)
<1>1. /\ page.items \in Seq(Tuple) /\ page.left \in Pointer /\ page.right \in Pointer
      /\ page.child \in Pointer
  BY DEF Page
<1>2. /\ h.kept \in Seq(Tuple) /\ h.moved \in Seq(Tuple)
      /\ h.middle \in ToSet(page.items) \cup {tuple}
      /\ ToSet(page.items) = ToSet(h.kept) \cup ToSet(h.moved)
      /\ Len(h.kept) + Len(h.moved) = Len(page.items)
      /\ tuple.key < h.middle.key => Len(h.moved) > 0
      /\ ~(tuple.key < h.middle.key) => Len(h.kept) > 0 \/ page.items = <<>>
      /\ page.items = <<>> => h.middle = tuple
  BY <1>1, SplitHalfProperties
<1>3. h.middle \in Tuple
  BY <1>1, <1>2, ElementOfSeq, LenProperties DEF ToSet
<1>4. /\ s.left = NodePage(left, page.left, q, page.child)
      /\ s.right = NodePage(right, p, page.right, h.middle.value)
      /\ s.up = h.middle
  BY DEF SplitNode
<1>5. /\ Inserted(h.kept, tuple) \in Seq(Tuple) /\ Inserted(h.moved, tuple) \in Seq(Tuple)
      /\ Len(Inserted(h.kept, tuple)) = Len(h.kept) + 1
      /\ Len(Inserted(h.moved, tuple)) = Len(h.moved) + 1
      /\ ToSet(Inserted(h.kept, tuple)) = ToSet(h.kept) \cup {tuple}
      /\ ToSet(Inserted(h.moved, tuple)) = ToSet(h.moved) \cup {tuple}
  BY <1>2, InsertedProperties
<1>6. /\ tuple.key \in Nat /\ h.middle.key \in Nat
      /\ \E kept, moved, n \in Nat :
            /\ kept = Len(h.kept) /\ moved = Len(h.moved) /\ n = Len(page.items)
            /\ kept + moved = n
  BY <1>1, <1>2, <1>3, LenProperties, TreeAssumption DEF Tuple
<1> HIDE DEF h, s
<1>7. left \in Seq(Tuple) /\ right \in Seq(Tuple)
  BY <1>2, <1>5
<1>8. Len(left) <= Len(page.items) /\ Len(right) <= Len(page.items)
  <2>0. PICK kept \in Nat, moved \in Nat, n \in Nat :
           /\ kept = Len(h.kept) /\ moved = Len(h.moved) /\ n = Len(page.items)
           /\ kept + moved = n
    BY <1>6
  <2>4. kept + moved = n
    BY <2>0, Zenon
  <2>1. CASE page.items = <<>>
    <3>1. ~(tuple.key < h.middle.key) /\ ~(tuple.key > h.middle.key)
      BY <2>1, <1>2, <1>6
    <3>2. left = h.kept /\ right = h.moved
      BY <3>1
    <3> HIDE DEF left, right
    <3>3. Len(left) = kept /\ Len(right) = moved
      BY <3>2, <2>0
    <3>4. kept <= n /\ moved <= n
      BY <2>4
    <3> QED
      BY <3>3, <3>4, <2>0, Zenon
  <2>2. CASE page.items # <<>> /\ tuple.key < h.middle.key
    <3>1. ~(tuple.key > h.middle.key)
      BY <2>2, <1>6
    <3>2. left = Inserted(h.kept, tuple) /\ right = h.moved
      BY <2>2, <3>1
    <3> HIDE DEF left, right
    <3>3. Len(left) = kept + 1 /\ Len(right) = moved /\ moved > 0
      BY <3>2, <2>2, <2>0, <1>2, <1>5
    <3>4. kept + 1 <= n /\ moved <= n
      BY <3>3, <2>4
    <3> QED
      BY <3>3, <3>4, <2>0, Zenon
  <2>3. CASE page.items # <<>> /\ ~(tuple.key < h.middle.key)
    <3>1. left = h.kept /\ right \in {h.moved, Inserted(h.moved, tuple)}
      BY <2>3
    <3> HIDE DEF left, right
    <3>2. Len(left) = kept /\ kept > 0
      BY <3>1, <2>3, <2>0, <1>2
    <3>3. Len(right) = moved \/ Len(right) = moved + 1
      BY <3>1, <2>0, <1>5
    <3>4. kept <= n /\ moved <= n /\ moved + 1 <= n
      BY <3>2, <2>4
    <3> QED
      BY <3>2, <3>3, <3>4, <2>0, Zenon
  <2> QED
    BY <2>1, <2>2, <2>3
<1>9. /\ ToSet(page.items) \subseteq ToSet(left) \cup ToSet(right)
      /\ ToSet(left) \cup ToSet(right) \subseteq ToSet(page.items) \cup {tuple}
  BY <1>2, <1>5
<1> HIDE DEF left, right
<1>10. /\ s.left.items = left /\ s.left.type = "Node" /\ s.left.child = page.child
       /\ s.right.items = right /\ s.right.type = "Node" /\ s.right.child = h.middle.value
  BY <1>4 DEF NodePage
<1>11. s.left \in Page /\ s.right \in Page
  <2>1. h.middle.value \in Pointer /\ p \in Pointer /\ q \in Pointer
    BY <1>3 DEF Tuple, Pointer
  <2> QED
    BY <2>1, <1>1, <1>4, <1>7 DEF NodePage, Page
<1> QED
  BY <1>2, <1>3, <1>4, <1>7, <1>8, <1>9, <1>10, <1>11 DEF SplitItems, s

-----------------------------------------------------------------------------
(* The invariant. *)

IsLeaf(p) == pages[p].type = "Leaf"
Filled(p) == pages[p].items # <<>>

\* The keys in the leaves.
LeafKeys == {k \in Key : \E p \in DOMAIN pages : IsLeaf(p) /\ k \in KeysIn(pages[p].items)}

\* No key whose insertion returned is lost, and no leaf holds a key that nobody
\* began to insert.
StoredInLeaves == \A o \in ObjectID : stored[o] \subseteq LeafKeys
LeavesBegun == \A k \in LeafKeys : \E o \in ObjectID : k \in begun[o]

\* Finitely many pages are allocated.
PagesFinite == IsFiniteSet(DOMAIN pages)

\* The first page of every object remains a leaf; a leaf was initialised, and its
\* right sibling is a leaf.
FirstLeaves == \A o \in ObjectID : o \in DOMAIN pages /\ IsLeaf(o)
LeavesOK == \A p \in DOMAIN pages : IsLeaf(p) =>
                /\ ~pages[p].zeroed
                /\ LET q == pages[p].right IN q = NULL_PTR \/ (q \in DOMAIN pages /\ IsLeaf(q))

\* An object with other pages than its first leaf has keys in that leaf.
RootsFilled == \A o \in ObjectID : dbobjects[o] # o => Filled(o)

\* What a call knows of the page it is at and of those it passed.
PlaceOK(c) ==
    /\ c.page \in DOMAIN pages
    /\ \A i \in DOMAIN c.parents : c.parents[i] \in DOMAIN pages /\ ~IsLeaf(c.parents[i])
    /\ c.at = "descend" => ~IsLeaf(c.page)

\* At a leaf a call inserts its own tuple, above it a separator, when its own is
\* in a leaf already.
CarriesSeparator(c) == c.tuple.value \in DOMAIN pages /\ c.key \in LeafKeys
InsertOK(c) ==
    /\ PlaceOK(c)
    /\ c.key \in begun[c.object]
    /\ c.at = "descend" => c.tuple.key = c.key
    /\ c.at \in {"insert", "split"} =>
          IF IsLeaf(c.page) THEN c.tuple.key = c.key ELSE CarriesSeparator(c)
    /\ c.at = "split" /\ IsLeaf(c.page) => Filled(c.page)
    /\ c.at = "parent" => CarriesSeparator(c)
    /\ c.at = "parent" \/ c.page # c.object => Filled(c.object)
RootOK(s) ==
    /\ InsertOK(s.call) /\ s.call.at = "parent" /\ s.call.parents = <<>>
    /\ s.root \in DOMAIN pages /\ ~IsLeaf(s.root)
ScanOK(c) ==
    /\ PlaceOK(c)
    /\ c.at # "descend" => IsLeaf(c.page)

CallOK(s) ==
    /\ s \in InsertCall => InsertOK(s)
    /\ s \in RootCall => RootOK(s)
    /\ s \in ScanCall => ScanOK(s)
CallsOK == \A t \in Threads : CallOK(op[t])

IInv == /\ TypeOK /\ PagesFinite /\ PagesFilled /\ StoredInLeaves /\ LeavesBegun
        /\ FirstLeaves /\ LeavesOK /\ RootsFilled /\ CallsOK

-----------------------------------------------------------------------------
(* What every step leaves true. *)

\* No page goes, changes its type or, if a leaf, is emptied; no key goes.
Grows ==
    /\ \A p \in DOMAIN pages :
          /\ p \in DOMAIN pages'
          /\ pages'[p].type = pages[p].type
          /\ IsLeaf(p) /\ Filled(p) => pages'[p].items # <<>>
    /\ \A k \in LeafKeys : k \in LeafKeys'
    /\ \A o \in ObjectID : begun[o] \subseteq begun'[o]

\* A step that changes no page is growth.
LEMMA SamePagesGrow ==
    ASSUME pages' = pages, \A o \in ObjectID : begun[o] \subseteq begun'[o]
    PROVE  Grows
BY DEF Grows, LeafKeys, IsLeaf, Filled

\* What a call knows stays true while the tree grows.
LEMMA CallPersists ==
    ASSUME FirstLeaves, Grows, NEW s, CallOK(s)
    PROVE  CallOK(s)'
<1>1. \A p \in DOMAIN pages : p \in DOMAIN pages' /\ (IsLeaf(p) <=> IsLeaf(p)')
  BY DEF Grows, IsLeaf
<1>2. \A p \in DOMAIN pages : IsLeaf(p) /\ Filled(p) => Filled(p)'
  BY DEF Grows, Filled
<1>3. ASSUME NEW c, PlaceOK(c) PROVE PlaceOK(c)'
  BY <1>1, <1>3 DEF PlaceOK
<1>4. ASSUME NEW c, CarriesSeparator(c) PROVE CarriesSeparator(c)'
  BY <1>1, <1>4 DEF CarriesSeparator, Grows
<1>5. ASSUME NEW c \in InsertCall, InsertOK(c) PROVE InsertOK(c)'
  <2>1. c.object \in ObjectID
    BY DEF InsertCall
  <2>2. Filled(c.object) => Filled(c.object)'
    BY <2>1, <1>2 DEF FirstLeaves
  <2>3. PlaceOK(c) /\ PlaceOK(c)'
    BY <1>3, <1>5 DEF InsertOK
  <2>4. c.page \in DOMAIN pages
    BY <2>3 DEF PlaceOK
  <2>5. c.key \in begun'[c.object]
    BY <2>1, <1>5 DEF InsertOK, Grows
  <2>6. /\ IsLeaf(c.page) <=> IsLeaf(c.page)'
        /\ IsLeaf(c.page) /\ Filled(c.page) => Filled(c.page)'
        /\ CarriesSeparator(c) => CarriesSeparator(c)'
    BY <2>4, <1>1, <1>2, <1>4
  <2> QED
    BY <2>2, <2>3, <2>5, <2>6, <1>5, Zenon DEF InsertOK
<1>6. s \in InsertCall => InsertOK(s)'
  BY <1>5 DEF CallOK
<1>7. s \in RootCall => RootOK(s)'
  <2> SUFFICES ASSUME s \in RootCall PROVE RootOK(s)'
    OBVIOUS
  <2>1. s.call \in InsertCall /\ RootOK(s)
    BY DEF RootCall, CallOK
  <2>2. InsertOK(s.call)'
    BY <2>1, <1>5 DEF RootOK
  <2> QED
    BY <2>1, <2>2, <1>1 DEF RootOK
<1>8. s \in ScanCall => ScanOK(s)'
  <2> SUFFICES ASSUME s \in ScanCall PROVE ScanOK(s)'
    OBVIOUS
  <2>1. PlaceOK(s) /\ PlaceOK(s)' /\ (s.at # "descend" => IsLeaf(s.page))
    BY <1>3 DEF CallOK, ScanOK
  <2>2. s.page \in DOMAIN pages
    BY <2>1 DEF PlaceOK
  <2> QED
    BY <2>1, <2>2, <1>1 DEF ScanOK
<1> QED
  BY <1>6, <1>7, <1>8 DEF CallOK

\* The states of a thread.
CallState == {Idle, Panicked} \cup InsertCall \cup RootCall \cup ScanCall

\* A step of one thread leaves what the others know true.
LEMMA StepCalls ==
    ASSUME TypeOK, FirstLeaves, CallsOK, Grows,
           NEW t \in Threads, NEW s \in CallState, CallOK(s)',
           op' = [op EXCEPT ![t] = s]
    PROVE  /\ op' \in [Threads -> CallState]
           /\ CallsOK'
<1>1. op \in [Threads -> CallState]
  BY DEF TypeOK, CallState
<1>2. \A u \in Threads : op'[u] = IF u = t THEN s ELSE op[u]
  BY <1>1
<1>3. ASSUME NEW u \in Threads PROVE CallOK(op[u])'
  <2>1. CASE u = t
    <3>1. op'[u] = s
      BY <1>2, <2>1
    <3> QED
      BY <3>1, Zenon DEF CallOK
  <2>2. CASE u # t
    <3>1. PICK r : r = op[u]
      OBVIOUS
    <3>2. CallOK(r)
      BY <3>1, Zenon DEF CallsOK
    <3>3. CallOK(r)'
      BY <3>2, CallPersists
    <3>4. op'[u] = r
      BY <1>2, <2>2, <3>1
    <3> QED
      BY <3>3, <3>4
  <2> QED
    BY <2>1, <2>2
<1>4. CallsOK'
  BY <1>3 DEF CallsOK
<1>5. op' \in [Threads -> CallState]
  BY <1>1
<1> QED
  BY <1>4, <1>5

\* A thread at a step of an insertion, of a root change or of a scan is in the
\* call that has that step.
LEMMA CallsApart ==
    ASSUME NEW s \in CallState
    PROVE  /\ s.at \in {"insert", "split", "parent"} => s \in InsertCall
           /\ s.at = "init" => s \in RootCall
           /\ s.at \in {"position", "next", "fetch", "end"} => s \in ScanCall
           /\ s.at = "descend" => s \in InsertCall \cup ScanCall
           /\ s \in InsertCall => s.at \in {"descend", "insert", "split", "parent"}
           /\ s \in ScanCall => s.at \in {"descend", "position", "next", "fetch", "end"}
           /\ s \in InsertCall => s \notin RootCall /\ s \notin ScanCall
           /\ s \in RootCall => s \notin InsertCall /\ s \notin ScanCall
           /\ s \in ScanCall => s \notin InsertCall /\ s \notin RootCall
           /\ s = Idle => s \notin InsertCall /\ s \notin RootCall /\ s \notin ScanCall
           /\ s = Panicked => s \notin InsertCall /\ s \notin RootCall /\ s \notin ScanCall
<1>1. \A c \in InsertCall : c.at \in {"descend", "insert", "split", "parent"} /\ c.scan = FALSE
  BY DEF InsertCall
<1>2. \A c \in RootCall : c.at = "init"
  BY DEF RootCall
<1>3. \A c \in ScanCall : c.at \in {"descend", "position", "next", "fetch", "end"} /\ c.scan = TRUE
  BY DEF ScanCall
<1>4. Idle.at = "idle" /\ Panicked.at = "panicked"
  BY DEF Idle, Panicked
<1>5. \A c : c \in InsertCall => c \notin ScanCall
  BY <1>1, <1>3
<1> QED
  BY <1>1, <1>2, <1>3, <1>4, <1>5 DEF CallState

\* The pages are numbered from 0, without gaps ...
LEMMA NewIDProperties ==
    ASSUME TypeOK, PagesFinite
    PROVE  /\ NewID \in Nat /\ DOMAIN pages = 0 .. (NewID - 1)
           /\ NewID \notin DOMAIN pages /\ DOMAIN pages \subseteq PageID
           /\ 0 \in DOMAIN pages
           /\ \A p \in PageID : p \in DOMAIN pages \/ p = NewID <=> p \in 0 .. NewID
<1>1. NewID \in Nat
  BY FS_CardinalityType DEF NewID, PagesFinite
<1>2. DOMAIN pages = 0 .. (NewID - 1)
  BY DEF TypeOK
<1>3. NewID # 0
  <2>1. dbobjects[0] \in DOMAIN pages
    BY TreeAssumption DEF TypeOK, ObjectID
  <2> QED
    BY <1>1, <1>2, <2>1
<1> HIDE DEF NewID
<1> QED
  BY <1>1, <1>2, <1>3

\* ... whether a page was allocated ...
LEMMA AllocationProperties ==
    ASSUME TypeOK, PagesFinite, DOMAIN pages' = 0 .. NewID
    PROVE  DOMAIN pages' = 0 .. (NewID' - 1) /\ PagesFinite'
<1>1. NewID \in Nat
  BY NewIDProperties
<1>2. PICK n \in Nat : n = NewID
  BY <1>1
<1>3. DOMAIN pages' = 0 .. n
  BY <1>2
<1>4. IsFiniteSet(0 .. n) /\ Cardinality(0 .. n) = n + 1
  <2>1. IsFiniteSet(0 .. n) /\ Cardinality(0 .. n) = IF 0 > n THEN 0 ELSE n - 0 + 1
    BY FS_Interval
  <2> QED
    BY <2>1
<1>5. NewID' = n + 1
  BY <1>3, <1>4 DEF NewID
<1>6. PagesFinite'
  BY <1>3, <1>4 DEF PagesFinite
<1> QED
  BY <1>3, <1>5, <1>6

\* ... or not.
LEMMA SameDomain ==
    ASSUME TypeOK, PagesFinite, DOMAIN pages' = DOMAIN pages
    PROVE  DOMAIN pages' = 0 .. (NewID' - 1) /\ PagesFinite'
BY DEF TypeOK, PagesFinite, NewID

-----------------------------------------------------------------------------
(* Steps that change no page. *)

LEMMA QuietStep ==
    ASSUME IInv, NEW t \in Threads, NEW s \in CallState, CallOK(s)',
           op' = [op EXCEPT ![t] = s],
           UNCHANGED <<pages, dbobjects, stored, aborted>>,
           begun' \in [ObjectID -> SUBSET Key],
           \A o \in ObjectID : begun[o] \subseteq begun'[o]
    PROVE  IInv'
<1>1. /\ TypeOK /\ PagesFinite /\ PagesFilled /\ StoredInLeaves /\ LeavesBegun
      /\ FirstLeaves /\ LeavesOK /\ RootsFilled /\ CallsOK
  BY DEF IInv
<1>2. Grows
  BY SamePagesGrow
<1>3. op' \in [Threads -> CallState] /\ CallsOK'
  BY <1>1, <1>2, StepCalls
<1>4. TypeOK'
  BY <1>1, <1>3 DEF TypeOK, CallState, NewID
<1>5. PagesFinite' /\ PagesFilled' /\ FirstLeaves' /\ LeavesOK' /\ RootsFilled'
  BY <1>1 DEF PagesFinite, PagesFilled, FirstLeaves, LeavesOK, RootsFilled, IsLeaf, Filled
<1>6. LeafKeys' = LeafKeys
  BY DEF LeafKeys, IsLeaf
<1>7. StoredInLeaves' /\ LeavesBegun'
  BY <1>1, <1>6 DEF StoredInLeaves, LeavesBegun
<1> QED
  BY <1>3, <1>4, <1>5, <1>7 DEF IInv

\* The same, when no insertion begins.
LEMMA QuietCall ==
    ASSUME IInv, NEW t \in Threads, NEW s \in CallState, CallOK(s),
           op' = [op EXCEPT ![t] = s],
           UNCHANGED <<pages, dbobjects, history, aborted>>
    PROVE  IInv'
<1>1. Grows /\ FirstLeaves /\ begun \in [ObjectID -> SUBSET Key]
  BY SamePagesGrow DEF IInv, TypeOK, history
<1>2. CallOK(s)'
  BY <1>1, CallPersists
<1> QED
  BY <1>1, <1>2, QuietStep DEF history

\* A thread with no call, or with none any more.
LEMMA NoCall ==
    ASSUME NEW s \in {Idle, Panicked}
    PROVE  s \in CallState /\ CallOK(s) /\ CallOK(s)'
<1>1. s \in CallState
  BY DEF CallState
<1>2. s \notin InsertCall /\ s \notin RootCall /\ s \notin ScanCall
  BY <1>1, CallsApart
<1> QED
  BY <1>1, <1>2 DEF CallOK

\* The page a search goes to from an inner node is allocated.
LEMMA ChildIsPage ==
    ASSUME TypeOK, NEW p \in DOMAIN pages, ~IsLeaf(p), NEW k
    PROVE  Child(pages[p], k) \in DOMAIN pages
<1> DEFINE page == pages[p]
           found == PartitionUpper(page.items, k)
<1>1. page \in Page /\ page.type = "Node"
  BY DEF TypeOK, Page, IsLeaf
<1>2. \A c \in Children(page) : c \in DOMAIN pages
  BY <1>1 DEF TypeOK
<1>3. page.items \in Seq(Tuple)
  BY <1>1 DEF Page
<1>4. found \in 0 .. Len(page.items) /\ DOMAIN page.items = 1 .. Len(page.items)
      /\ Len(page.items) \in Nat
  BY <1>3, PartitionBounds, LenProperties
<1>5. Child(page, k) = IF found = 0 THEN page.child ELSE page.items[found].value
  BY DEF Child
<1> HIDE DEF found, page
<1>6. found # 0 => found \in DOMAIN page.items
  BY <1>4
<1>7. Child(page, k) \in Children(page)
  BY <1>5, <1>6 DEF Children
<1> QED
  BY <1>2, <1>7 DEF page

\* A call before it reaches a page.
InsertStart == [scan : {FALSE}, object : ObjectID, key : Key, page : Pointer, tuple : Tuple,
                parents : Seq(PageID), at : {"idle", "descend"}]
ScanStart == [scan : {TRUE}, object : ObjectID, key : Key, end : Key, page : Pointer,
              parents : Seq(PageID), idx : Nat, out : Seq(Key), due : SUBSET Key,
              at : {"idle", "descend"}]

\* Where a call is once it has reached a page.
LEMMA ReachInsert ==
    ASSUME TypeOK, NEW p \in DOMAIN pages, NEW parents \in Seq(PageID),
           \A i \in DOMAIN parents : parents[i] \in DOMAIN pages /\ ~IsLeaf(parents[i]),
           NEW c \in InsertStart,
           NEW s, s = Reach(c, p, parents)
    PROVE  /\ s \in InsertCall /\ PlaceOK(s)
           /\ s.object = c.object /\ s.key = c.key /\ s.tuple = c.tuple /\ s.page = p
           /\ s.parents = parents
           /\ (s.at = "insert" /\ IsLeaf(p)) \/ (s.at = "descend" /\ ~IsLeaf(p))
<1> DEFINE at == IF pages[p].type = "Node" THEN "descend" ELSE "insert"
<1>1. pages[p] \in Page /\ p \in PageID
  BY DEF TypeOK
<1>2. pages[p].type = "Node" <=> ~IsLeaf(p)
  BY <1>1 DEF Page, IsLeaf
<1>3. /\ (at = "insert" /\ IsLeaf(p)) \/ (at = "descend" /\ ~IsLeaf(p))
      /\ at \in {"insert", "descend"}
  <2>1. CASE pages[p].type = "Node"
    <3>1. at = "descend" /\ ~IsLeaf(p)
      BY <2>1, <1>2
    <3> HIDE DEF at
    <3> QED
      BY <3>1
  <2>2. CASE pages[p].type # "Node"
    <3>1. at = "insert" /\ IsLeaf(p)
      BY <2>2, <1>2
    <3> HIDE DEF at
    <3> QED
      BY <3>1
  <2> QED
    BY <2>1, <2>2
<1>4. c.scan = FALSE
  BY DEF InsertStart
<1>5. s = [c EXCEPT !.page = p, !.parents = parents, !.at = at]
  BY <1>4 DEF Reach
<1> HIDE DEF at
<1>6. /\ s \in [scan : {FALSE}, object : ObjectID, key : Key, page : PageID, tuple : Tuple,
                parents : Seq(PageID), at : {"insert", "descend"}]
      /\ s.object = c.object /\ s.key = c.key /\ s.tuple = c.tuple /\ s.page = p
      /\ s.parents = parents /\ s.at = at
  BY <1>1, <1>3, <1>5 DEF InsertStart
<1>7. s \in InsertCall
  BY <1>6 DEF InsertCall
<1>8. PlaceOK(s)
  BY <1>3, <1>6 DEF PlaceOK
<1> QED
  BY <1>3, <1>6, <1>7, <1>8

LEMMA ReachScan ==
    ASSUME TypeOK, NEW p \in DOMAIN pages, NEW parents \in Seq(PageID),
           \A i \in DOMAIN parents : parents[i] \in DOMAIN pages /\ ~IsLeaf(parents[i]),
           NEW c \in ScanStart
    PROVE  LET s == Reach(c, p, parents) IN s \in CallState /\ CallOK(s)
<1> DEFINE at == IF pages[p].type = "Node" THEN "descend" ELSE "position"
           s == Reach(c, p, parents)
<1>1. pages[p] \in Page /\ p \in PageID
  BY DEF TypeOK
<1>2. pages[p].type = "Node" <=> ~IsLeaf(p)
  BY <1>1 DEF Page, IsLeaf
<1>3. /\ (at = "position" /\ IsLeaf(p)) \/ (at = "descend" /\ ~IsLeaf(p))
      /\ at \in {"position", "descend"}
  <2>1. CASE pages[p].type = "Node"
    <3>1. at = "descend" /\ ~IsLeaf(p)
      BY <2>1, <1>2
    <3> HIDE DEF at
    <3> QED
      BY <3>1
  <2>2. CASE pages[p].type # "Node"
    <3>1. at = "position" /\ IsLeaf(p)
      BY <2>2, <1>2
    <3> HIDE DEF at
    <3> QED
      BY <3>1
  <2> QED
    BY <2>1, <2>2
<1>4. c.scan = TRUE
  BY DEF ScanStart
<1>5. s = [c EXCEPT !.page = p, !.parents = parents, !.at = at]
  BY <1>4 DEF Reach
<1> HIDE DEF s, at
<1>6. /\ s \in [scan : {TRUE}, object : ObjectID, key : Key, end : Key, page : PageID,
                parents : Seq(PageID), idx : Nat, out : Seq(Key), due : SUBSET Key,
                at : {"position", "descend"}]
      /\ s.page = p /\ s.parents = parents /\ s.at = at
  BY <1>1, <1>3, <1>5 DEF ScanStart
<1>7. s \in ScanCall /\ s \in CallState
  BY <1>6 DEF ScanCall, CallState
<1>8. ScanOK(s)
  BY <1>3, <1>6 DEF ScanOK, PlaceOK
<1>9. CallOK(s)
  BY <1>7, <1>8, CallsApart DEF CallOK
<1> QED
  BY <1>7, <1>9 DEF s

\* What the invariant says of one thread.
LEMMA CallOf ==
    ASSUME IInv, NEW t \in Threads
    PROVE  op[t] \in CallState /\ CallOK(op[t])
<1>1. op \in [Threads -> CallState]
  BY DEF IInv, TypeOK, CallState
<1>2. \A u \in Threads : CallOK(op[u])
  BY DEF IInv, CallsOK
<1> QED
  BY <1>1, <1>2

LEMMA BeginInsertKeeps ==
    ASSUME IInv, NEW t \in Threads, NEW o \in ObjectID, NEW k \in Key, BeginInsert(t, o, k)
    PROVE  IInv'
<1>1. /\ TypeOK /\ LeavesBegun /\ FirstLeaves /\ RootsFilled
      /\ begun \in [ObjectID -> SUBSET Key]
  BY DEF IInv, TypeOK
<1>2. /\ begun' = [begun EXCEPT ![o] = @ \cup {k}]
      /\ UNCHANGED <<pages, dbobjects, stored, aborted>>
  BY DEF BeginInsert
<1>3. /\ begun' \in [ObjectID -> SUBSET Key] /\ k \in begun'[o]
      /\ \A x \in ObjectID : begun[x] \subseteq begun'[x]
  BY <1>1, <1>2
<1>4. PICK c : c = [scan |-> FALSE, object |-> o, key |-> k, page |-> NULL_PTR,
                    tuple |-> [key |-> k, value |-> NULL_PTR],
                    parents |-> <<>>, at |-> "idle"]
  OBVIOUS
<1>5. /\ c \in InsertStart
      /\ c.object = o /\ c.key = k /\ c.tuple.key = k
  <2>1. [key |-> k, value |-> NULL_PTR] \in Tuple /\ NULL_PTR \in Pointer
    BY DEF Tuple, Pointer
  <2>2. <<>> \in Seq(PageID)
    BY EmptySeq
  <2> QED
    BY <1>4, <2>1, <2>2 DEF InsertStart
<1>6. dbobjects[o] \in DOMAIN pages
  BY <1>1 DEF TypeOK
<1>7. PICK s : s = Reach(c, dbobjects[o], <<>>)
  OBVIOUS
<1>8. /\ s \in InsertCall /\ PlaceOK(s)
      /\ s.object = o /\ s.key = k /\ s.tuple.key = k /\ s.page = dbobjects[o]
      /\ (s.at = "insert" /\ IsLeaf(s.page)) \/ (s.at = "descend" /\ ~IsLeaf(s.page))
  <2>1. PICK ps : ps = <<>>
    OBVIOUS
  <2>2. /\ ps \in Seq(PageID)
        /\ \A i \in DOMAIN ps : ps[i] \in DOMAIN pages /\ ~IsLeaf(ps[i])
    BY <2>1, EmptySeq
  <2>3. s = Reach(c, dbobjects[o], ps)
    BY <1>7, <2>1
  <2> QED
    BY <1>1, <1>5, <1>6, <2>2, <2>3, ReachInsert
<1>9. op' = [op EXCEPT ![t] = s]
  BY <1>4, <1>7 DEF BeginInsert, Step
<1>10. InsertOK(s)'
  <2>1. PlaceOK(s)' /\ (IsLeaf(s.page) <=> IsLeaf(s.page)') /\ (Filled(s.object) <=> Filled(s.object)')
    BY <1>2, <1>8 DEF PlaceOK, IsLeaf, Filled
  <2>2. s.page # s.object => Filled(s.object)
    BY <1>1, <1>8 DEF RootsFilled
  <2>3. s.key \in begun'[s.object]
    BY <1>3, <1>8
  <2> QED
    BY <1>8, <2>1, <2>2, <2>3 DEF InsertOK
<1>11. s \in CallState /\ CallOK(s)'
  <2>1. s \in CallState
    BY <1>8 DEF CallState
  <2>2. s \notin RootCall /\ s \notin ScanCall
    BY <2>1, <1>8, CallsApart
  <2> QED
    BY <1>10, <2>1, <2>2 DEF CallOK
<1> QED
  BY <1>2, <1>3, <1>9, <1>11, QuietStep

LEMMA DescendKeeps ==
    ASSUME IInv, NEW t \in Threads, Descend(t)
    PROVE  IInv'
<1>1. PICK c : c = op[t]
  OBVIOUS
<1>2. c \in CallState /\ CallOK(c) /\ TypeOK /\ FirstLeaves
  BY <1>1, CallOf DEF IInv
<1>3. c.at = "descend" /\ UNCHANGED <<pages, dbobjects, history, aborted>>
  BY <1>1 DEF Descend
<1>4. PICK p : p = Child(pages[c.page], c.key)
  OBVIOUS
<1>5. PICK ps : ps = Append(c.parents, c.page)
  OBVIOUS
<1>6. PICK s : s = Reach(c, p, ps)
  OBVIOUS
<1>7. op' = [op EXCEPT ![t] = s]
  BY <1>1, <1>4, <1>5, <1>6 DEF Descend, Step
<1>8. c \in InsertCall \cup ScanCall
  BY <1>2, <1>3, CallsApart
<1>9. PlaceOK(c) /\ ~IsLeaf(c.page) /\ c.page \in DOMAIN pages
  BY <1>2, <1>3, <1>8 DEF CallOK, InsertOK, ScanOK, PlaceOK
<1>10. p \in DOMAIN pages
  BY <1>2, <1>4, <1>9, ChildIsPage
<1>11. /\ ps \in Seq(PageID)
       /\ \A i \in DOMAIN ps : ps[i] \in DOMAIN pages /\ ~IsLeaf(ps[i])
  <2>1. c.parents \in Seq(PageID) /\ c.page \in PageID
    BY <1>8 DEF InsertCall, ScanCall
  <2>2. /\ ps \in Seq(PageID) /\ Len(ps) = Len(c.parents) + 1
        /\ \A i \in 1 .. Len(c.parents) : ps[i] = c.parents[i]
        /\ ps[Len(c.parents) + 1] = c.page
    BY <1>5, <2>1, AppendProperties
  <2>3. /\ Len(c.parents) \in Nat /\ DOMAIN c.parents = 1 .. Len(c.parents)
        /\ DOMAIN ps = 1 .. Len(c.parents) + 1
    BY <2>1, <2>2, LenProperties
  <2>4. ASSUME NEW i \in DOMAIN ps PROVE i \in DOMAIN c.parents \/ i = Len(c.parents) + 1
    BY <2>3
  <2>5. \A i \in DOMAIN c.parents : c.parents[i] \in DOMAIN pages /\ ~IsLeaf(c.parents[i])
    BY <1>9 DEF PlaceOK
  <2> QED
    BY <2>2, <2>3, <2>4, <2>5, <1>9
<1>12. s \in CallState /\ CallOK(s)
  <2>1. CASE c \in InsertCall
    <3>1. c \in InsertStart
      BY <2>1, <1>3 DEF InsertCall, InsertStart, Pointer
    <3>2. /\ s \in InsertCall /\ PlaceOK(s)
          /\ s.object = c.object /\ s.key = c.key /\ s.tuple = c.tuple /\ s.page = p
          /\ (s.at = "insert" /\ IsLeaf(p)) \/ (s.at = "descend" /\ ~IsLeaf(p))
      BY <3>1, <1>2, <1>6, <1>10, <1>11, ReachInsert
    <3>3. InsertOK(c) /\ c.object \in ObjectID
      BY <2>1, <1>2 DEF CallOK, InsertCall
    <3>4. c.page # c.object
      BY <3>3, <1>2, <1>9 DEF FirstLeaves
    <3>5. Filled(c.object) /\ c.tuple.key = c.key /\ c.key \in begun[c.object]
      BY <3>3, <3>4, <1>3 DEF InsertOK
    <3>6. InsertOK(s)
      BY <3>2, <3>5 DEF InsertOK
    <3>7. s \in CallState
      BY <3>2 DEF CallState
    <3>8. s \notin RootCall /\ s \notin ScanCall
      BY <3>2, <3>7, CallsApart
    <3> QED
      BY <3>6, <3>7, <3>8 DEF CallOK
  <2>2. CASE c \in ScanCall
    <3>1. c \in ScanStart
      BY <2>2, <1>3 DEF ScanCall, ScanStart, Pointer
    <3> QED
      BY <3>1, <1>2, <1>6, <1>10, <1>11, ReachScan
  <2> QED
    BY <2>1, <2>2, <1>8
<1> QED
  BY <1>3, <1>7, <1>12, QuietCall

LEMMA PopParentKeeps ==
    ASSUME IInv, NEW t \in Threads, PopParent(t)
    PROVE  IInv'
<1>1. PICK c : c = op[t]
  OBVIOUS
<1>2. c \in CallState /\ CallOK(c)
  BY <1>1, CallOf
<1>3. c.at = "parent" /\ c.parents # <<>> /\ UNCHANGED <<pages, dbobjects, history, aborted>>
  BY <1>1 DEF PopParent
<1>4. PICK s : s = [c EXCEPT !.at = "insert", !.page = Last(c.parents), !.parents = Front(c.parents)]
  OBVIOUS
<1>5. op' = [op EXCEPT ![t] = s]
  BY <1>1, <1>4 DEF PopParent, Step
<1>6. c \in InsertCall /\ InsertOK(c)
  BY <1>2, <1>3, CallsApart DEF CallOK
<1>7. c.parents \in Seq(PageID)
  BY <1>6 DEF InsertCall
<1>8. PICK n \in Nat : n = Len(c.parents) /\ DOMAIN c.parents = 1 .. n /\ n # 0
  BY <1>3, <1>7, LenProperties, EmptySeq
<1>9. \A i \in 1 .. n : c.parents[i] \in DOMAIN pages /\ ~IsLeaf(c.parents[i])
  BY <1>6, <1>8 DEF InsertOK, PlaceOK
<1>10. Last(c.parents) \in DOMAIN pages /\ ~IsLeaf(Last(c.parents)) /\ Last(c.parents) \in PageID
  <2>1. n \in 1 .. n
    BY <1>8
  <2> QED
    BY <2>1, <1>7, <1>8, <1>9, ElementOfSeq DEF Last
<1>11. /\ Front(c.parents) \in Seq(PageID)
       /\ \A i \in DOMAIN Front(c.parents) :
             Front(c.parents)[i] \in DOMAIN pages /\ ~IsLeaf(Front(c.parents)[i])
  <2>1. Front(c.parents) = SubSeq(c.parents, 1, n - 1)
    BY <1>8 DEF Front
  <2>2. \A i \in 1 .. n - 1 : c.parents[i] \in PageID
    BY <1>7, <1>8, ElementOfSeq
  <2>3. PICK f : f = SubSeq(c.parents, 1, n - 1)
    OBVIOUS
  <2>4. /\ f \in Seq(PageID) /\ Len(f) = n - 1
        /\ \A i \in 1 .. n - 1 : f[i] = c.parents[i]
    <3>1. /\ f \in Seq(PageID) /\ Len(f) = IF 1 <= n - 1 THEN (n - 1) - 1 + 1 ELSE 0
          /\ \A i \in 1 .. (n - 1) - 1 + 1 : f[i] = c.parents[1 + i - 1]
      BY <2>2, <2>3, SubSeqProperties
    <3> QED
      BY <3>1, <1>8
  <2>5. DOMAIN f = 1 .. n - 1
    BY <2>4, LenProperties
  <2> QED
    BY <2>1, <2>3, <2>4, <2>5, <1>9
<1>12. /\ s \in InsertCall
       /\ s.at = "insert" /\ s.page = Last(c.parents) /\ s.parents = Front(c.parents)
       /\ s.object = c.object /\ s.key = c.key /\ s.tuple = c.tuple
  BY <1>4, <1>6, <1>10, <1>11 DEF InsertCall
<1>13. InsertOK(s)
  <2>1. PlaceOK(s)
    BY <1>10, <1>11, <1>12 DEF PlaceOK
  <2>2. CarriesSeparator(s) /\ Filled(s.object) /\ s.key \in begun[s.object]
    BY <1>3, <1>6, <1>12 DEF InsertOK, CarriesSeparator
  <2>3. ~IsLeaf(s.page)
    BY <1>10, <1>12
  <2> QED
    BY <1>12, <2>1, <2>2, <2>3 DEF InsertOK
<1>14. s \in CallState /\ CallOK(s)
  <2>1. s \in CallState
    BY <1>12 DEF CallState
  <2>2. s \notin RootCall /\ s \notin ScanCall
    BY <2>1, <1>12, CallsApart
  <2> QED
    BY <1>13, <2>1, <2>2 DEF CallOK
<1> QED
  BY <1>3, <1>5, <1>14, QuietCall

-----------------------------------------------------------------------------
(* Scans. *)

LEMMA BeginScanKeeps ==
    ASSUME IInv, NEW t \in Threads, NEW o \in ObjectID, NEW a \in Key, NEW b \in Key,
           BeginScan(t, o, a, b)
    PROVE  IInv'
<1>1. TypeOK /\ stored[o] \subseteq Key /\ dbobjects[o] \in DOMAIN pages
  BY DEF IInv, TypeOK
<1>2. PICK ps : ps = <<>>
  OBVIOUS
<1>3. /\ ps \in Seq(PageID)
      /\ \A i \in DOMAIN ps : ps[i] \in DOMAIN pages /\ ~IsLeaf(ps[i])
  BY <1>2, EmptySeq
<1>4. PICK c : c = [scan |-> TRUE, object |-> o, key |-> a, end |-> b,
                    page |-> NULL_PTR, parents |-> <<>>, idx |-> 0,
                    out |-> <<>>, due |-> {k \in stored[o] : a <= k /\ k <= b},
                    at |-> "idle"]
  OBVIOUS
<1>5. c \in ScanStart
  <2>1. <<>> \in Seq(PageID) /\ <<>> \in Seq(Key) /\ NULL_PTR \in Pointer
    BY EmptySeq DEF Pointer
  <2>2. {k \in stored[o] : a <= k /\ k <= b} \in SUBSET Key
    BY <1>1
  <2> QED
    BY <1>4, <2>1, <2>2 DEF ScanStart
<1>6. PICK s : s = Reach(c, dbobjects[o], ps)
  OBVIOUS
<1>7. s \in CallState /\ CallOK(s)
  BY <1>1, <1>3, <1>5, <1>6, ReachScan
<1>8. /\ op' = [op EXCEPT ![t] = s]
      /\ UNCHANGED <<pages, dbobjects, history, aborted>>
  BY <1>2, <1>4, <1>6 DEF BeginScan, Step
<1> QED
  BY <1>7, <1>8, QuietCall

\* A step of a scan among leaves.
LEMMA ScanMoves ==
    ASSUME NEW c \in ScanCall, CallOK(c), c.at # "descend",
           NEW p \in DOMAIN pages, IsLeaf(p), p \in PageID,
           NEW s \in ScanCall, s.page = p, s.parents = c.parents, s.at # "descend"
    PROVE  s \in CallState /\ CallOK(s)
<1>1. s \in CallState
  BY DEF CallState
<1>2. ScanOK(c)
  BY DEF CallOK
<1>3. ScanOK(s)
  BY <1>2 DEF ScanOK, PlaceOK
<1> QED
  BY <1>1, <1>3, CallsApart DEF CallOK

LEMMA ScanStepKeeps ==
    ASSUME IInv, NEW t \in Threads, Position(t) \/ Advance(t) \/ Fetch(t) \/ EndScan(t)
    PROVE  IInv'
<1>1. PICK c : c = op[t]
  OBVIOUS
<1>2. c \in CallState /\ CallOK(c) /\ TypeOK /\ LeavesOK
  BY <1>1, CallOf DEF IInv
<1>3. /\ UNCHANGED <<pages, dbobjects, history, aborted>>
      /\ c.at \in {"position", "next", "fetch", "end"}
  BY <1>1 DEF Position, Advance, Fetch, EndScan
<1>4. c \in ScanCall /\ c.at # "descend"
  BY <1>2, <1>3, CallsApart
<1>5. c.page \in DOMAIN pages /\ IsLeaf(c.page) /\ c.page \in PageID
  BY <1>2, <1>4 DEF CallOK, ScanOK, PlaceOK, ScanCall
<1>6. PICK page : page = pages[c.page]
  OBVIOUS
<1>7. page \in Page /\ page.items \in Seq(Tuple)
  BY <1>2, <1>5, <1>6 DEF TypeOK, Page
<1>8. ASSUME NEW s, op' = [op EXCEPT ![t] = s], s = Idle \/ s = Panicked
      PROVE  IInv'
  <2>1. s \in CallState /\ CallOK(s)
    BY <1>8, NoCall
  <2> QED
    BY <1>3, <1>8, <2>1, QuietCall
<1>9. ASSUME NEW p \in DOMAIN pages, IsLeaf(p), p \in PageID, NEW i \in Nat,
             NEW out \in Seq(Key), NEW at \in {"position", "next", "fetch", "end"},
             op' = [op EXCEPT ![t] = [c EXCEPT !.page = p, !.idx = i, !.out = out, !.at = at]]
      PROVE  IInv'
  <2>1. PICK s : s = [c EXCEPT !.page = p, !.idx = i, !.out = out, !.at = at]
    OBVIOUS
  <2>2. s \in ScanCall /\ s.page = p /\ s.parents = c.parents /\ s.at # "descend"
    BY <2>1, <1>4, <1>9 DEF ScanCall
  <2>3. s \in CallState /\ CallOK(s)
    BY <2>2, <1>2, <1>4, <1>9, ScanMoves
  <2> QED
    BY <2>1, <2>3, <1>3, <1>9, QuietCall
<1>10. ASSUME NEW p \in DOMAIN pages, IsLeaf(p), p \in PageID, NEW i \in Nat,
              NEW out \in Seq(Key), NEW at \in {"position", "next", "fetch", "end"}
       PROVE  /\ p = c.page /\ i = c.idx /\ out = c.out =>
                    [c EXCEPT !.at = at]
                    = [c EXCEPT !.page = p, !.idx = i, !.out = out, !.at = at]
              /\ p = c.page /\ out = c.out =>
                    [c EXCEPT !.at = at, !.idx = i]
                    = [c EXCEPT !.page = p, !.idx = i, !.out = out, !.at = at]
              /\ out = c.out =>
                    [c EXCEPT !.at = at, !.page = p, !.idx = i]
                    = [c EXCEPT !.page = p, !.idx = i, !.out = out, !.at = at]
              /\ p = c.page =>
                    [c EXCEPT !.at = at, !.idx = i, !.out = out]
                    = [c EXCEPT !.page = p, !.idx = i, !.out = out, !.at = at]
  BY <1>4 DEF ScanCall
<1>11. c.idx \in Nat /\ c.out \in Seq(Key)
  BY <1>4 DEF ScanCall
<1>12. CASE Position(t)
  <2>1. PICK i : i = PartitionLower(page.items, c.key)
    OBVIOUS
  <2>2. i \in Nat
    BY <2>1, <1>7, PartitionBounds, LenProperties
  <2>3. op' = [op EXCEPT ![t] = [c EXCEPT !.at = "next", !.idx = i]]
    BY <1>1, <1>6, <1>12, <2>1 DEF Position, Step
  <2>4. op' = [op EXCEPT ![t] = [c EXCEPT !.page = c.page, !.idx = i, !.out = c.out, !.at = "next"]]
    BY <2>2, <2>3, <1>5, <1>10, <1>11
  <2> QED
    BY <2>2, <2>4, <1>5, <1>9, <1>11
<1>13. CASE Advance(t)
  <2>1. ASSUME NEW at \in {"fetch", "end"}, op' = [op EXCEPT ![t] = [c EXCEPT !.at = at]]
        PROVE  IInv'
    <3>1. op' = [op EXCEPT ![t] = [c EXCEPT !.page = c.page, !.idx = c.idx, !.out = c.out, !.at = at]]
      BY <2>1, <1>5, <1>10, <1>11
    <3> QED
      BY <3>1, <1>5, <1>9, <1>11
  <2>2. ASSUME page.right # NULL_PTR,
               op' = [op EXCEPT ![t] = [c EXCEPT !.at = "fetch", !.page = page.right, !.idx = 0]]
        PROVE  IInv'
    <3>1. page.right \in DOMAIN pages /\ IsLeaf(page.right)
      BY <2>2, <1>2, <1>5, <1>6 DEF LeavesOK
    <3>2. page.right \in PageID
      BY <2>2, <1>7 DEF Page, Pointer
    <3>3. op' = [op EXCEPT ![t] = [c EXCEPT !.page = page.right, !.idx = 0, !.out = c.out, !.at = "fetch"]]
      BY <2>2, <3>1, <3>2, <1>10, <1>11
    <3> QED
      BY <3>1, <3>2, <3>3, <1>9, <1>11
  <2>3. \/ op' = [op EXCEPT ![t] = [c EXCEPT !.at = "fetch"]]
        \/ op' = [op EXCEPT ![t] = [c EXCEPT !.at = "end"]]
        \/ page.right # NULL_PTR
           /\ op' = [op EXCEPT ![t] = [c EXCEPT !.at = "fetch", !.page = page.right, !.idx = 0]]
    BY <1>1, <1>6, <1>13 DEF Advance, Step
  <2> QED
    BY <2>1, <2>2, <2>3
<1>14. CASE Fetch(t)
  <2>1. ASSUME op' = [op EXCEPT ![t] = [c EXCEPT !.at = "end"]]
        PROVE  IInv'
    <3>1. op' = [op EXCEPT ![t] = [c EXCEPT !.page = c.page, !.idx = c.idx, !.out = c.out, !.at = "end"]]
      BY <2>1, <1>5, <1>10, <1>11
    <3> QED
      BY <3>1, <1>5, <1>9, <1>11
  <2>2. ASSUME c.idx < Len(page.items),
               op' = [op EXCEPT ![t] = [c EXCEPT !.at = "next", !.idx = @ + 1,
                                         !.out = Append(@, page.items[c.idx + 1].key)]]
        PROVE  IInv'
    <3>1. c.idx + 1 \in 1 .. Len(page.items)
      BY <2>2, <1>7, <1>11, LenProperties
    <3>2. page.items[c.idx + 1].key \in Key
      <4>1. page.items[c.idx + 1] \in Tuple
        BY <3>1, <1>7, ElementOfSeq
      <4> QED
        BY <4>1 DEF Tuple
    <3>3. PICK out : out = Append(c.out, page.items[c.idx + 1].key)
      OBVIOUS
    <3>4. out \in Seq(Key) /\ c.idx + 1 \in Nat
      BY <3>2, <3>3, <1>11, AppendProperties
    <3>5. op' = [op EXCEPT ![t] = [c EXCEPT !.at = "next", !.idx = c.idx + 1, !.out = out]]
      BY <2>2, <3>3
    <3>6. op' = [op EXCEPT ![t] = [c EXCEPT !.page = c.page, !.idx = c.idx + 1, !.out = out, !.at = "next"]]
      BY <3>4, <3>5, <1>5, <1>10
    <3> QED
      BY <3>4, <3>6, <1>5, <1>9
  <2>3. \/ op' = [op EXCEPT ![t] = Panicked]
        \/ op' = [op EXCEPT ![t] = [c EXCEPT !.at = "end"]]
        \/ c.idx < Len(page.items)
           /\ op' = [op EXCEPT ![t] = [c EXCEPT !.at = "next", !.idx = @ + 1,
                                         !.out = Append(@, page.items[c.idx + 1].key)]]
    BY <1>1, <1>6, <1>14 DEF Fetch, Step
  <2> QED
    BY <2>1, <2>2, <2>3, <1>8
<1>15. CASE EndScan(t)
  BY <1>8, <1>15 DEF EndScan, Step
<1> QED
  BY <1>12, <1>13, <1>14, <1>15

-----------------------------------------------------------------------------
(* Steps that change pages. *)

LEMMA PageStep ==
    ASSUME IInv, NEW t \in Threads, NEW s \in CallState, CallOK(s)',
           op' = [op EXCEPT ![t] = s],
           UNCHANGED <<begun, aborted>>,
           Grows,
           DOMAIN pages' = DOMAIN pages \/ DOMAIN pages' = 0 .. NewID,
           \A p \in DOMAIN pages' :
              /\ pages'[p] \in Page
              /\ pages'[p].type = "Node" => \A c \in Children(pages'[p]) : c \in DOMAIN pages',
           dbobjects' \in [ObjectID -> DOMAIN pages'],
           stored' \in [ObjectID -> SUBSET Key],
           PagesFilled', StoredInLeaves', LeavesBegun', LeavesOK', RootsFilled'
    PROVE  IInv'
<1>1. TypeOK /\ PagesFinite /\ FirstLeaves /\ CallsOK
  BY DEF IInv
<1>2. DOMAIN pages' = 0 .. (NewID' - 1) /\ PagesFinite'
  BY <1>1, AllocationProperties, SameDomain
<1>3. op' \in [Threads -> CallState] /\ CallsOK'
  BY <1>1, StepCalls
<1>4. TypeOK'
  <2>1. begun' \in [ObjectID -> SUBSET Key] /\ aborted' \in BOOLEAN
    BY <1>1 DEF TypeOK
  <2> QED
    BY <1>2, <1>3, <2>1 DEF TypeOK, CallState
<1>5. FirstLeaves'
  BY <1>1 DEF FirstLeaves, Grows, IsLeaf
<1> QED
  BY <1>2, <1>3, <1>4, <1>5 DEF IInv

\* The children of an inner node are those of its tuples and one more.
LEMMA ChildrenAreOfTuples ==
    ASSUME NEW page \in Page
    PROVE  Children(page) = {page.child} \cup {x.value : x \in ToSet(page.items)}
BY DEF Children, ToSet

\* The attempt of insert_recurs, when it succeeds.
LEMMA InsertedKeeps ==
    ASSUME IInv, NEW t \in Threads, NEW c, c = op[t], c.at = "insert",
           c.tuple.key \notin KeysIn(pages[c.page].items), HasRoom(pages[c.page]),
           pages' = [pages EXCEPT ![c.page].items = Inserted(@, c.tuple)],
           stored' = [stored EXCEPT ![c.object] = @ \cup {c.key}],
           op' = [op EXCEPT ![t] = Idle],
           UNCHANGED <<dbobjects, begun, aborted>>
    PROVE  IInv'
<1>1. c \in CallState /\ CallOK(c)
  BY CallOf
<1>2. /\ TypeOK /\ PagesFilled /\ StoredInLeaves /\ LeavesBegun /\ FirstLeaves
      /\ LeavesOK /\ RootsFilled /\ stored \in [ObjectID -> SUBSET Key]
  BY DEF IInv, TypeOK
<1>3. c \in InsertCall /\ InsertOK(c)
  BY <1>1, CallsApart DEF CallOK
<1>4. c.object \in ObjectID /\ c.key \in Key /\ c.tuple \in Tuple /\ c.tuple.key \in Key
  BY <1>3 DEF InsertCall, Tuple
<1>5. /\ c.page \in DOMAIN pages
      /\ IF IsLeaf(c.page) THEN c.tuple.key = c.key ELSE CarriesSeparator(c)
      /\ c.page # c.object => Filled(c.object)
      /\ c.key \in begun[c.object]
  BY <1>3 DEF InsertOK, PlaceOK
<1>6. PICK p : p = c.page
  OBVIOUS
<1>7. PICK page : page = pages[p]
  OBVIOUS
<1>8. PICK items : items = Inserted(page.items, c.tuple)
  OBVIOUS
<1>9. page \in Page /\ page.items \in Seq(Tuple) /\ p \in DOMAIN pages
  BY <1>2, <1>5, <1>6, <1>7 DEF TypeOK, Page
<1>10. /\ items \in Seq(Tuple) /\ ToSet(items) = ToSet(page.items) \cup {c.tuple}
       /\ Len(items) = Len(page.items) + 1
  BY <1>4, <1>8, <1>9, InsertedProperties
<1>11. /\ pages' = [pages EXCEPT ![p] = [page EXCEPT !.items = items]]
  BY <1>6, <1>7, <1>8
<1>12. /\ DOMAIN pages' = DOMAIN pages
       /\ \A q \in DOMAIN pages : q # p => pages'[q] = pages[q]
       /\ pages'[p] \in Page /\ pages'[p].items = items /\ pages'[p].type = page.type
       /\ pages'[p].right = page.right /\ pages'[p].child = page.child
       /\ pages'[p].zeroed = page.zeroed
  <2>1. PICK new : new = [page EXCEPT !.items = items]
    OBVIOUS
  <2>2. /\ new \in Page /\ new.items = items /\ new.type = page.type
        /\ new.right = page.right /\ new.child = page.child /\ new.zeroed = page.zeroed
    BY <2>1, <1>9, <1>10 DEF Page
  <2>3. pages' = [pages EXCEPT ![p] = new]
    BY <2>1, <1>11
  <2>4. /\ DOMAIN pages' = DOMAIN pages /\ pages'[p] = new
        /\ \A q \in DOMAIN pages : q # p => pages'[q] = pages[q]
    BY <2>3, <1>9
  <2> QED
    BY <2>2, <2>4
<1>13. KeysIn(items) = KeysIn(page.items) \cup {c.tuple.key}
  <2>1. KeysIn(items) = {x.key : x \in ToSet(items)}
    BY <1>10, KeysAreOfTuples
  <2>2. KeysIn(page.items) = {x.key : x \in ToSet(page.items)}
    BY <1>9, KeysAreOfTuples
  <2> QED
    BY <2>1, <2>2, <1>10
<1>14. items # <<>>
  BY <1>13, KeysAreOfTuples, <1>10
<1>15. \A q \in DOMAIN pages : /\ q \in DOMAIN pages'
                               /\ IsLeaf(q) <=> IsLeaf(q)'
                               /\ Filled(q) => Filled(q)'
                               /\ pages'[q].type = pages[q].type
                               /\ KeysIn(pages[q].items) \subseteq KeysIn(pages'[q].items)
  BY <1>7, <1>12, <1>13, <1>14 DEF IsLeaf, Filled
<1>16. \A k \in LeafKeys : k \in LeafKeys'
  BY <1>15 DEF LeafKeys
<1>17. Grows
  BY <1>15, <1>16 DEF Grows, Filled
<1>18. c.key \in LeafKeys'
  <2>1. CASE IsLeaf(p)
    <3>1. c.key \in KeysIn(items)
      BY <2>1, <1>5, <1>6, <1>13
    <3> QED
      BY <2>1, <3>1, <1>4, <1>9, <1>12, <1>15 DEF LeafKeys
  <2>2. CASE ~IsLeaf(p)
    BY <2>2, <1>5, <1>6, <1>16 DEF CarriesSeparator
  <2> QED
    BY <2>1, <2>2
<1>19. \A k \in LeafKeys' : k \in LeafKeys \/ k = c.key
  <2> SUFFICES ASSUME NEW k \in LeafKeys' PROVE k \in LeafKeys \/ k = c.key
    OBVIOUS
  <2>1. PICK q \in DOMAIN pages : k \in Key /\ IsLeaf(q)' /\ k \in KeysIn(pages'[q].items)
    BY <1>12 DEF LeafKeys
  <2>2. IsLeaf(q)
    BY <2>1, <1>15
  <2>3. CASE q # p
    BY <2>1, <2>2, <2>3, <1>12 DEF LeafKeys
  <2>4. CASE q = p
    <3>1. k \in KeysIn(page.items) \/ k = c.tuple.key
      BY <2>1, <2>4, <1>12, <1>13
    <3>2. c.tuple.key = c.key
      BY <2>2, <2>4, <1>5, <1>6
    <3> QED
      BY <2>1, <2>2, <2>4, <3>1, <3>2, <1>7 DEF LeafKeys
  <2> QED
    BY <2>3, <2>4
<1>20. stored' \in [ObjectID -> SUBSET Key]
  BY <1>2, <1>4
<1>21. \A o \in ObjectID : stored'[o] \subseteq stored[o] \cup {c.key}
                           /\ (o # c.object => stored'[o] = stored[o])
  BY <1>2, <1>4
<1>22. StoredInLeaves'
  BY <1>2, <1>16, <1>18, <1>21 DEF StoredInLeaves
<1>23. LeavesBegun'
  BY <1>2, <1>4, <1>5, <1>19 DEF LeavesBegun
<1>24. LeavesOK'
  <2>1. ASSUME NEW q \in DOMAIN pages, IsLeaf(q)
        PROVE  /\ ~pages'[q].zeroed
               /\ pages'[q].right # NULL_PTR =>
                     /\ pages'[q].right \in DOMAIN pages'
                     /\ pages'[pages'[q].right].type = "Leaf"
    <3>1. pages'[q].right = pages[q].right /\ pages'[q].zeroed = pages[q].zeroed
      BY <1>7, <1>12
    <3>2. PICK x : x = pages[q].right
      OBVIOUS
    <3>3. ~pages[q].zeroed /\ (x # NULL_PTR => x \in DOMAIN pages /\ IsLeaf(x))
      BY <2>1, <3>2, <1>2 DEF LeavesOK
    <3>4. x # NULL_PTR => x \in DOMAIN pages' /\ IsLeaf(x)'
      BY <3>3, <1>15
    <3> QED
      BY <3>1, <3>2, <3>3, <3>4 DEF IsLeaf
  <2> QED
    BY <2>1, <1>12, <1>15 DEF LeavesOK, IsLeaf
<1>25. RootsFilled'
  <2> SUFFICES ASSUME NEW o \in ObjectID, dbobjects[o] # o PROVE Filled(o)'
    BY DEF RootsFilled
  <2>1. Filled(o) /\ o \in DOMAIN pages
    BY <1>2 DEF RootsFilled, FirstLeaves
  <2> QED
    BY <2>1, <1>15
<1>26. PagesFilled'
  <2>1. ASSUME NEW q \in DOMAIN pages, q # p
        PROVE  LET n == Len(pages'[q].items) IN
               IF pages'[q].type = "Node" THEN n <= NodeCap
               ELSE n <= LeafCap /\ (n = 0 => q \in ObjectID /\ stored'[q] = {})
    <3>1. pages'[q] = pages[q]
      BY <2>1, <1>12
    <3>2. LET n == Len(pages[q].items) IN
          IF pages[q].type = "Node" THEN n <= NodeCap
          ELSE n <= LeafCap /\ (n = 0 => q \in ObjectID /\ stored[q] = {})
      BY <1>2 DEF PagesFilled
    <3>3. q = c.object => Len(pages[q].items) # 0
      <4>1. pages[q].items \in Seq(Tuple)
        BY <1>2 DEF TypeOK, Page
      <4>2. q = c.object => pages[q].items # <<>>
        BY <2>1, <1>5, <1>6 DEF Filled
      <4> QED
        BY <4>1, <4>2, EmptySeq
    <3>4. q \in ObjectID /\ q # c.object => stored'[q] = stored[q]
      BY <1>21
    <3> QED
      BY <3>1, <3>2, <3>3, <3>4
  <2>2. LET n == Len(pages'[p].items) IN
        IF pages'[p].type = "Node" THEN n <= NodeCap ELSE n <= LeafCap /\ n # 0
    <3>1. PICK n \in Nat : n = Len(page.items)
      BY <1>9, LenProperties
    <3>2. n < (IF page.type = "Leaf" THEN LeafCap ELSE NodeCap)
      BY <3>1, <1>6, <1>7 DEF HasRoom
    <3>3. page.type \in {"Node", "Leaf"}
      BY <1>9 DEF Page
    <3>4. IF page.type = "Node" THEN n + 1 <= NodeCap ELSE n + 1 <= LeafCap /\ n + 1 # 0
      BY <3>2, <3>3, TreeAssumption
    <3>5. Len(pages'[p].items) = n + 1
      BY <3>1, <1>10, <1>12
    <3> QED
      BY <3>4, <3>5, <1>12, Zenon
  <2> QED
    BY <2>1, <2>2, <1>9, <1>12 DEF PagesFilled
<1>27. ASSUME NEW q \in DOMAIN pages'
       PROVE  /\ pages'[q] \in Page
              /\ pages'[q].type = "Node" =>
                    \A x \in Children(pages'[q]) : x \in DOMAIN pages'
  <2>1. CASE q # p
    BY <2>1, <1>2, <1>12 DEF TypeOK
  <2>2. CASE q = p
    <3> SUFFICES ASSUME page.type = "Node", NEW x \in Children(pages'[p])
                 PROVE  x \in DOMAIN pages
      BY <2>2, <1>12
    <3>1. \A y \in Children(page) : y \in DOMAIN pages
      BY <1>2, <1>7, <1>9 DEF TypeOK
    <3>2. Children(pages'[p]) = {page.child} \cup {y.value : y \in ToSet(items)}
      BY <1>12, ChildrenAreOfTuples
    <3>3. Children(page) = {page.child} \cup {y.value : y \in ToSet(page.items)}
      BY <1>9, ChildrenAreOfTuples
    <3>4. x \in Children(page) \/ x = c.tuple.value
      BY <3>2, <3>3, <1>10
    <3>5. c.tuple.value \in DOMAIN pages
      BY <1>5, <1>6, <1>7 DEF CarriesSeparator, IsLeaf
    <3> QED
      BY <3>1, <3>4, <3>5
  <2> QED
    BY <2>1, <2>2
<1>28. dbobjects' \in [ObjectID -> DOMAIN pages']
  BY <1>2, <1>12 DEF TypeOK
<1>29. Idle \in CallState /\ CallOK(Idle)'
  BY NoCall
<1> QED
  BY <1>12, <1>17, <1>20, <1>22, <1>23, <1>24, <1>25, <1>26, <1>27, <1>28, <1>29, PageStep

\* insert_recurs's attempt, whatever its outcome.
LEMMA TryInsertKeeps ==
    ASSUME IInv, NEW t \in Threads, TryInsert(t)
    PROVE  IInv'
<1>1. PICK c : c = op[t]
  OBVIOUS
<1>2. c.at = "insert" /\ UNCHANGED <<dbobjects, begun, aborted>>
  BY <1>1 DEF TryInsert
<1>3. CASE op' = [op EXCEPT ![t] = Panicked] /\ UNCHANGED <<pages, stored>>
  <2>1. Panicked \in CallState /\ CallOK(Panicked)
    BY NoCall
  <2> QED
    BY <2>1, <1>2, <1>3, QuietCall DEF history
<1>4. CASE /\ c.tuple.key \notin KeysIn(pages[c.page].items) /\ HasRoom(pages[c.page])
           /\ pages' = [pages EXCEPT ![c.page].items = Inserted(@, c.tuple)]
           /\ stored' = [stored EXCEPT ![c.object] = @ \cup {c.key}]
           /\ op' = [op EXCEPT ![t] = Idle]
  BY <1>1, <1>2, <1>4, InsertedKeeps
<1>5. CASE /\ ~HasRoom(pages[c.page])
           /\ op' = [op EXCEPT ![t] = [c EXCEPT !.at = "split"]] /\ UNCHANGED <<pages, stored>>
  <2>1. c \in CallState /\ CallOK(c) /\ TypeOK /\ LeavesOK
    BY <1>1, CallOf DEF IInv
  <2>2. c \in InsertCall /\ InsertOK(c)
    BY <2>1, <1>2, CallsApart DEF CallOK
  <2>3. PICK s : s = [c EXCEPT !.at = "split"]
    OBVIOUS
  <2>4. /\ s \in InsertCall /\ s.at = "split" /\ s.page = c.page /\ s.object = c.object
        /\ s.key = c.key /\ s.tuple = c.tuple /\ s.parents = c.parents
    BY <2>2, <2>3 DEF InsertCall
  <2>5. c.page \in DOMAIN pages
    BY <2>2 DEF InsertOK, PlaceOK
  <2>6. IsLeaf(c.page) => Filled(c.page)
    <3> SUFFICES ASSUME IsLeaf(c.page) PROVE Filled(c.page)
      OBVIOUS
    <3>1. ~(Len(pages[c.page].items) < LeafCap) \/ pages[c.page].zeroed
      BY <1>5 DEF HasRoom, IsLeaf
    <3>2. ~pages[c.page].zeroed
      BY <2>1, <2>5 DEF LeavesOK
    <3>3. Len(<<>>) = 0 /\ 0 < LeafCap
      BY TreeAssumption
    <3> QED
      BY <3>1, <3>2, <3>3 DEF Filled
  <2>7. PlaceOK(s)
    BY <2>2, <2>4 DEF InsertOK, PlaceOK
  <2>8. InsertOK(s)
    BY <1>2, <2>2, <2>4, <2>6, <2>7 DEF InsertOK, CarriesSeparator
  <2>9. s \in CallState
    BY <2>4 DEF CallState
  <2>10. CallOK(s)
    BY <2>4, <2>8, <2>9, CallsApart DEF CallOK
  <2> QED
    BY <1>2, <1>5, <2>3, <2>9, <2>10, QuietCall DEF history
<1>6. \/ op' = [op EXCEPT ![t] = Panicked] /\ UNCHANGED <<pages, stored>>
      \/ /\ c.tuple.key \notin KeysIn(pages[c.page].items) /\ HasRoom(pages[c.page])
         /\ pages' = [pages EXCEPT ![c.page].items = Inserted(@, c.tuple)]
         /\ stored' = [stored EXCEPT ![c.object] = @ \cup {c.key}]
         /\ op' = [op EXCEPT ![t] = Idle]
      \/ /\ ~HasRoom(pages[c.page])
         /\ op' = [op EXCEPT ![t] = [c EXCEPT !.at = "split"]] /\ UNCHANGED <<pages, stored>>
  BY <1>1 DEF TryInsert, Step
<1> QED
  BY <1>3, <1>4, <1>5, <1>6

\* split_and_insert, when its unwraps do not panic.
LEMMA SplitKeeps ==
    ASSUME IInv, NEW t \in Threads, Split(t), aborted' = aborted,
           pages' # pages \/ op' # op
    PROVE  IInv'
<1>1. PICK c : c = op[t]
  OBVIOUS
<1>2. PICK p : p = c.page
  OBVIOUS
<1>3. PICK page : page = pages[p]
  OBVIOUS
<1>4. PICK q : q = NewID
  OBVIOUS
<1>5. PICK h : h = IF page.type = "Leaf" THEN SplitLeaf(page, p, q, c.tuple)
                                         ELSE SplitNode(page, p, q, c.tuple)
  OBVIOUS
<1>6. PICK s : s = [c EXCEPT !.at = "parent", !.tuple = h.up]
  OBVIOUS
<1>7. /\ c.at = "split" /\ UNCHANGED <<dbobjects, begun, stored, aborted>>
      /\ pages' = [Allocated(h.right) EXCEPT ![p] = h.left]
      /\ op' = [op EXCEPT ![t] = s]
  BY <1>1, <1>2, <1>3, <1>4, <1>5, <1>6 DEF Split, Step, history
<1>8. c \in CallState /\ CallOK(c)
  BY <1>1, CallOf
<1>9. /\ TypeOK /\ PagesFinite /\ PagesFilled /\ StoredInLeaves /\ LeavesBegun /\ FirstLeaves
      /\ LeavesOK /\ RootsFilled /\ stored \in [ObjectID -> SUBSET Key]
      /\ dbobjects \in [ObjectID -> DOMAIN pages]
  BY DEF IInv, TypeOK
<1>10. c \in InsertCall /\ InsertOK(c)
  BY <1>7, <1>8, CallsApart DEF CallOK
<1>11. c.object \in ObjectID /\ c.key \in Key /\ c.tuple \in Tuple /\ p \in PageID
  BY <1>2, <1>10 DEF InsertCall
<1>12. /\ p \in DOMAIN pages
       /\ IF IsLeaf(p) THEN c.tuple.key = c.key ELSE CarriesSeparator(c)
       /\ IsLeaf(p) => Filled(p)
       /\ p # c.object => Filled(c.object)
       /\ c.key \in begun[c.object]
  BY <1>2, <1>7, <1>10 DEF InsertOK, PlaceOK
<1>13. page \in Page /\ (IsLeaf(p) <=> page.type = "Leaf") /\ page.items \in Seq(Tuple)
       /\ page.type \in {"Node", "Leaf"}
  BY <1>3, <1>9, <1>12 DEF TypeOK, IsLeaf, Page
<1>14. /\ q \in PageID /\ q \notin DOMAIN pages
       /\ \A x \in PageID : x \in DOMAIN pages \/ x = q <=> x \in 0 .. q
       /\ DOMAIN pages \subseteq PageID
  BY <1>4, <1>9, NewIDProperties
<1>15. DOMAIN Allocated(h.right) = 0 .. q
  BY <1>4 DEF Allocated, NewID
<1>16. \A x \in 0 .. q : Allocated(h.right)[x] = IF x \in DOMAIN pages THEN pages[x] ELSE h.right
  BY <1>4 DEF Allocated, NewID
<1>17. \A x \in DOMAIN pages : x \in 0 .. q
  BY <1>14
<1>18. q \in 0 .. q /\ p \in 0 .. q
  BY <1>12, <1>14, <1>17
<1>19. /\ DOMAIN pages' = 0 .. q
       /\ pages'[p] = h.left /\ pages'[q] = h.right
       /\ \A x \in DOMAIN pages : x # p => pages'[x] = pages[x]
  BY <1>7, <1>12, <1>14, <1>15, <1>16, <1>17, <1>18
<1>20. \A x \in DOMAIN pages' : x \in DOMAIN pages \/ x = q
  BY <1>14, <1>19
\* What both kinds of split have in common, and what they have not.
<1>21. /\ h.left \in Page /\ h.right \in Page /\ h.up \in Tuple
       /\ h.left.type = page.type /\ h.right.type = page.type
       /\ SplitItems(h.left.items, h.right.items, page, c.tuple)
       /\ IsLeaf(p) =>
             /\ h.left.right = q /\ h.right.right = page.right
             /\ c.tuple \in ToSet(h.left.items) \cup ToSet(h.right.items)
             /\ h.left.items # <<>> /\ h.right.items # <<>>
             /\ ~h.left.zeroed /\ ~h.right.zeroed
             /\ h.up.value = q
       /\ ~IsLeaf(p) =>
             /\ h.up \in ToSet(page.items) \cup {c.tuple}
             /\ h.left.child = page.child /\ h.right.child = h.up.value
  <2>1. CASE IsLeaf(p)
    <3>1. h = SplitLeaf(page, p, q, c.tuple) /\ page.items # <<>> /\ page.type = "Leaf"
      BY <2>1, <1>3, <1>5, <1>12, <1>13 DEF Filled
    <3>2. ~h.left.zeroed /\ ~h.right.zeroed
      BY <3>1 DEF SplitLeaf, LeafPage
    <3>3. /\ h.left \in Page /\ h.right \in Page /\ h.up \in Tuple
          /\ h.left.type = "Leaf" /\ h.left.right = q
          /\ h.right.type = "Leaf" /\ h.right.right = page.right
          /\ SplitItems(h.left.items, h.right.items, page, c.tuple)
          /\ c.tuple \in ToSet(h.left.items) \cup ToSet(h.right.items)
          /\ HasTuples(h.left) /\ HasTuples(h.right)
          /\ h.up.value = q
      <4>1. /\ page \in Page /\ c.tuple \in Tuple /\ p \in PageID /\ q \in PageID
            /\ HasTuples(page) /\ h = SplitLeaf(page, p, q, c.tuple)
        BY <3>1, <1>11, <1>13, <1>14 DEF HasTuples
      <4> QED
        BY <4>1, SplitLeafProperties
    <3>4. h.left.items # <<>> /\ h.right.items # <<>>
      BY <3>3 DEF HasTuples
    <3>5. h.left.type = page.type /\ h.right.type = page.type
      BY <3>1, <3>3
    <3> QED
      BY <2>1, <3>2, <3>3, <3>4, <3>5
  <2>2. CASE ~IsLeaf(p)
    <3>1. h = SplitNode(page, p, q, c.tuple) /\ page.type = "Node"
      BY <2>2, <1>5, <1>13
    <3>2. page \in Page /\ c.tuple \in Tuple /\ p \in PageID /\ q \in PageID
      BY <1>11, <1>13, <1>14
    <3>3. /\ h.left \in Page /\ h.right \in Page /\ h.up \in Tuple
          /\ h.left.type = "Node" /\ h.right.type = "Node"
          /\ SplitItems(h.left.items, h.right.items, page, c.tuple)
          /\ h.up \in ToSet(page.items) \cup {c.tuple}
          /\ h.left.child = page.child /\ h.right.child = h.up.value
      BY <3>1, <3>2, SplitNodeProperties
    <3> QED
      BY <2>2, <3>1, <3>3
  <2> QED
    BY <2>1, <2>2
<1>22. /\ h.left.items \in Seq(Tuple) /\ h.right.items \in Seq(Tuple)
       /\ KeysIn(page.items) \subseteq KeysIn(h.left.items) \cup KeysIn(h.right.items)
       /\ KeysIn(h.left.items) \cup KeysIn(h.right.items) \subseteq KeysIn(page.items) \cup {c.tuple.key}
       /\ IsLeaf(p) => c.tuple.key \in KeysIn(h.left.items) \cup KeysIn(h.right.items)
  <2>1. h.left.items \in Seq(Tuple) /\ h.right.items \in Seq(Tuple)
    BY <1>21 DEF SplitItems
  <2>2. /\ KeysIn(page.items) = {x.key : x \in ToSet(page.items)}
        /\ KeysIn(h.left.items) = {x.key : x \in ToSet(h.left.items)}
        /\ KeysIn(h.right.items) = {x.key : x \in ToSet(h.right.items)}
    BY <2>1, <1>13, KeysAreOfTuples
  <2>3. /\ ToSet(page.items) \subseteq ToSet(h.left.items) \cup ToSet(h.right.items)
        /\ ToSet(h.left.items) \cup ToSet(h.right.items) \subseteq ToSet(page.items) \cup {c.tuple}
        /\ IsLeaf(p) => c.tuple \in ToSet(h.left.items) \cup ToSet(h.right.items)
    BY <1>21 DEF SplitItems
  <2> QED
    BY <2>1, <2>2, <2>3
<1>23. \A x \in DOMAIN pages : /\ x \in DOMAIN pages'
                               /\ pages'[x].type = pages[x].type
                               /\ IsLeaf(x) <=> IsLeaf(x)'
                               /\ IsLeaf(x) /\ Filled(x) => Filled(x)'
  BY <1>3, <1>17, <1>19, <1>21 DEF IsLeaf, Filled
<1>24. /\ IsLeaf(q)' <=> IsLeaf(p)
       /\ IsLeaf(p)' <=> IsLeaf(p)
       /\ q \in DOMAIN pages' /\ p \in DOMAIN pages'
  BY <1>12, <1>13, <1>18, <1>19, <1>21 DEF IsLeaf
<1>25. \A k \in LeafKeys : k \in LeafKeys'
  <2> SUFFICES ASSUME NEW k \in LeafKeys PROVE k \in LeafKeys'
    OBVIOUS
  <2>1. PICK x \in DOMAIN pages : k \in Key /\ IsLeaf(x) /\ k \in KeysIn(pages[x].items)
    BY DEF LeafKeys
  <2>2. CASE x # p
    BY <2>1, <2>2, <1>19, <1>23 DEF LeafKeys
  <2>3. CASE x = p
    <3>1. k \in KeysIn(pages'[p].items) \/ k \in KeysIn(pages'[q].items)
      BY <2>1, <2>3, <1>3, <1>19, <1>22
    <3> QED
      BY <2>1, <2>3, <3>1, <1>24 DEF LeafKeys
  <2> QED
    BY <2>2, <2>3
<1>26. Grows
  BY <1>7, <1>23, <1>25 DEF Grows, Filled
<1>27. c.key \in LeafKeys'
  <2>1. CASE IsLeaf(p)
    <3>1. c.key \in KeysIn(pages'[p].items) \/ c.key \in KeysIn(pages'[q].items)
      BY <2>1, <1>12, <1>19, <1>22
    <3> QED
      BY <2>1, <3>1, <1>11, <1>24 DEF LeafKeys
  <2>2. CASE ~IsLeaf(p)
    BY <2>2, <1>12, <1>25 DEF CarriesSeparator
  <2> QED
    BY <2>1, <2>2
<1>28. \A k \in LeafKeys' : k \in LeafKeys \/ k = c.key
  <2> SUFFICES ASSUME NEW k \in LeafKeys' PROVE k \in LeafKeys \/ k = c.key
    OBVIOUS
  <2>1. PICK x \in DOMAIN pages' : k \in Key /\ IsLeaf(x)' /\ k \in KeysIn(pages'[x].items)
    BY DEF LeafKeys
  <2>2. CASE x \in DOMAIN pages /\ x # p
    BY <2>1, <2>2, <1>19, <1>23 DEF LeafKeys
  <2>3. CASE x = p \/ x = q
    <3>1. IsLeaf(p)
      BY <2>1, <2>3, <1>24
    <3>2. k \in KeysIn(page.items) \/ k = c.key
      BY <2>1, <2>3, <3>1, <1>12, <1>19, <1>22
    <3> QED
      BY <2>1, <3>1, <3>2, <1>3, <1>12 DEF LeafKeys
  <2> QED
    BY <2>2, <2>3, <1>20
<1>29. StoredInLeaves' /\ LeavesBegun'
  <2>1. StoredInLeaves'
    BY <1>7, <1>9, <1>25 DEF StoredInLeaves
  <2>2. LeavesBegun'
    BY <1>7, <1>9, <1>11, <1>12, <1>28 DEF LeavesBegun
  <2> QED
    BY <2>1, <2>2
<1>30. RootsFilled'
  <2> SUFFICES ASSUME NEW o \in ObjectID, dbobjects[o] # o PROVE Filled(o)'
    BY <1>7 DEF RootsFilled
  <2>1. Filled(o) /\ IsLeaf(o) /\ o \in DOMAIN pages
    BY <1>9 DEF RootsFilled, FirstLeaves
  <2> QED
    BY <2>1, <1>23
<1>31. LeavesOK'
  <2>1. ASSUME NEW x \in DOMAIN pages', IsLeaf(x)', NEW r, r = pages'[x].right
        PROVE  ~pages'[x].zeroed /\ (r = NULL_PTR \/ (r \in DOMAIN pages' /\ IsLeaf(r)'))
    <3>1. CASE x \in DOMAIN pages /\ x # p
      <4>1. IsLeaf(x) /\ pages'[x] = pages[x]
        BY <2>1, <3>1, <1>19, <1>23
      <4>2. ~pages[x].zeroed /\ (r = NULL_PTR \/ (r \in DOMAIN pages /\ IsLeaf(r)))
        BY <2>1, <3>1, <4>1, <1>9 DEF LeavesOK
      <4> QED
        BY <4>1, <4>2, <1>23
    <3>2. CASE x = p
      <4>1. IsLeaf(p)
        BY <2>1, <3>2, <1>24
      <4> QED
        BY <2>1, <3>2, <4>1, <1>19, <1>21, <1>24
    <3>3. CASE x = q
      <4>1. IsLeaf(p)
        BY <2>1, <3>3, <1>24
      <4>2. r = page.right /\ ~pages'[x].zeroed
        BY <2>1, <3>3, <4>1, <1>19, <1>21
      <4>3. r = NULL_PTR \/ (r \in DOMAIN pages /\ IsLeaf(r))
        BY <4>1, <4>2, <1>3, <1>9, <1>12 DEF LeavesOK
      <4> QED
        BY <4>2, <4>3, <1>23
    <3> QED
      BY <3>1, <3>2, <3>3, <1>20
  <2> QED
    BY <2>1 DEF LeavesOK
<1>32. PagesFilled'
  <2>1. ASSUME NEW x \in DOMAIN pages, x # p
        PROVE  LET n == Len(pages'[x].items) IN
               IF pages'[x].type = "Node" THEN n <= NodeCap
               ELSE n <= LeafCap /\ (n = 0 => x \in ObjectID /\ stored'[x] = {})
    <3>1. pages'[x] = pages[x] /\ stored' = stored
      BY <2>1, <1>7, <1>19
    <3>2. LET n == Len(pages[x].items) IN
          IF pages[x].type = "Node" THEN n <= NodeCap
          ELSE n <= LeafCap /\ (n = 0 => x \in ObjectID /\ stored[x] = {})
      BY <1>9 DEF PagesFilled
    <3> QED
      BY <3>1, <3>2
  <2>2. ASSUME NEW x \in {h.left, h.right}
        PROVE  IF x.type = "Node" THEN Len(x.items) <= NodeCap
               ELSE Len(x.items) <= LeafCap /\ Len(x.items) # 0
    <3>1. x.type = page.type /\ Len(x.items) <= Len(page.items) /\ x.items \in Seq(Tuple)
      BY <1>21, <1>22 DEF SplitItems
    <3>2. page.type = "Leaf" => x.items # <<>>
      BY <1>13, <1>21
    <3>3. PICK n \in Nat, m \in Nat : n = Len(x.items) /\ m = Len(page.items)
      BY <3>1, <1>13, LenProperties
    <3>4. IF page.type = "Node" THEN m <= NodeCap ELSE m <= LeafCap
      BY <3>3, <1>3, <1>9, <1>12 DEF PagesFilled
    <3>5. n <= m
      BY <3>1, <3>3
    <3>6. page.type # "Node" => n # 0
      BY <3>1, <3>2, <3>3, <1>13, EmptySeq
    <3>7. IF page.type = "Node" THEN n <= NodeCap ELSE n <= LeafCap /\ n # 0
      BY <3>4, <3>5, <3>6, TreeAssumption
    <3> QED
      BY <3>1, <3>3, <3>7, Zenon
  <2>3. ASSUME NEW x \in {p, q}
        PROVE  LET n == Len(pages'[x].items) IN
               IF pages'[x].type = "Node" THEN n <= NodeCap
               ELSE n <= LeafCap /\ (n = 0 => x \in ObjectID /\ stored'[x] = {})
    <3>1. pages'[x] \in {h.left, h.right}
      BY <1>19
    <3> QED
      BY <3>1, <2>2
  <2> QED
    BY <2>1, <2>3, <1>20 DEF PagesFilled
<1>33. ASSUME NEW x \in DOMAIN pages'
       PROVE  /\ pages'[x] \in Page
              /\ pages'[x].type = "Node" =>
                    \A y \in Children(pages'[x]) : y \in DOMAIN pages'
  <2>1. CASE x \in DOMAIN pages /\ x # p
    BY <2>1, <1>9, <1>19, <1>23 DEF TypeOK
  <2>2. CASE x = p \/ x = q
    <3>1. pages'[x] \in Page
      BY <2>2, <1>19, <1>21
    <3>2. ASSUME pages'[x].type = "Node", NEW y \in Children(pages'[x])
          PROVE  y \in DOMAIN pages
      <4>1. ~IsLeaf(p) /\ page.type = "Node"
        BY <2>2, <3>2, <1>13, <1>19, <1>21
      <4>2. \A z \in Children(page) : z \in DOMAIN pages
        BY <4>1, <1>3, <1>9, <1>12 DEF TypeOK
      <4>3. /\ Children(h.left) = {h.left.child} \cup {z.value : z \in ToSet(h.left.items)}
            /\ Children(h.right) = {h.right.child} \cup {z.value : z \in ToSet(h.right.items)}
            /\ Children(page) = {page.child} \cup {z.value : z \in ToSet(page.items)}
        BY <1>13, <1>21, ChildrenAreOfTuples
      <4>4. ToSet(h.left.items) \cup ToSet(h.right.items) \subseteq ToSet(page.items) \cup {c.tuple}
        BY <1>21 DEF SplitItems
      <4>5. c.tuple.value \in DOMAIN pages
        BY <4>1, <1>12 DEF CarriesSeparator
      <4>6. Children(h.left) \cup Children(h.right) \subseteq Children(page) \cup {c.tuple.value}
        BY <4>1, <4>3, <4>4, <1>21
      <4>7. y \in Children(h.left) \cup Children(h.right)
        BY <2>2, <3>2, <1>19
      <4> QED
        BY <4>2, <4>5, <4>6, <4>7
    <3> QED
      BY <3>1, <3>2, <1>23
  <2> QED
    BY <2>1, <2>2, <1>20
<1>34. s \in CallState /\ CallOK(s)'
  <2>1. /\ s \in InsertCall /\ s.at = "parent" /\ s.page = p /\ s.object = c.object
        /\ s.key = c.key /\ s.tuple = h.up /\ s.parents = c.parents
    BY <1>2, <1>6, <1>10, <1>21 DEF InsertCall
  <2>2. PlaceOK(s)'
    <3>1. \A i \in DOMAIN c.parents : c.parents[i] \in DOMAIN pages /\ ~IsLeaf(c.parents[i])
      BY <1>10 DEF InsertOK, PlaceOK
    <3> QED
      BY <2>1, <3>1, <1>23, <1>24 DEF PlaceOK
  <2>3. h.up.value \in DOMAIN pages'
    <3>1. CASE IsLeaf(p)
      BY <3>1, <1>21, <1>24
    <3>2. CASE ~IsLeaf(p)
      <4>1. h.up \in ToSet(page.items) \cup {c.tuple} /\ page.type = "Node"
        BY <3>2, <1>13, <1>21
      <4>2. \A z \in Children(page) : z \in DOMAIN pages
        BY <4>1, <1>3, <1>9, <1>12 DEF TypeOK
      <4>3. Children(page) = {page.child} \cup {z.value : z \in ToSet(page.items)}
        BY <1>13, ChildrenAreOfTuples
      <4>4. c.tuple.value \in DOMAIN pages
        BY <3>2, <1>12 DEF CarriesSeparator
      <4> QED
        BY <4>1, <4>2, <4>3, <4>4, <1>23
    <3> QED
      BY <3>1, <3>2
  <2>4. CarriesSeparator(s)'
    BY <2>1, <2>3, <1>27 DEF CarriesSeparator
  <2>5. Filled(c.object)'
    <3>1. CASE p = c.object
      <4>1. IsLeaf(p)
        BY <3>1, <1>9, <1>11 DEF FirstLeaves
      <4> QED
        BY <3>1, <4>1, <1>19, <1>21 DEF Filled
    <3>2. CASE p # c.object
      BY <3>2, <1>9, <1>11, <1>12, <1>23 DEF FirstLeaves
    <3> QED
      BY <3>1, <3>2
  <2>6. InsertOK(s)'
    BY <2>1, <2>2, <2>4, <2>5, <1>7, <1>12 DEF InsertOK
  <2>7. s \in CallState
    BY <2>1 DEF CallState
  <2> QED
    BY <2>1, <2>6, <2>7, CallsApart DEF CallOK
<1>35. dbobjects' \in [ObjectID -> DOMAIN pages'] /\ stored' \in [ObjectID -> SUBSET Key]
  BY <1>7, <1>9, <1>23
<1> QED
  BY <1>4, <1>7, <1>19, <1>26, <1>29, <1>30, <1>31, <1>32, <1>33, <1>34, <1>35, PageStep

LEMMA SplitStepKeeps ==
    ASSUME IInv, NEW t \in Threads, Split(t)
    PROVE  IInv'
<1>1. CASE aborted' = aborted /\ (pages' # pages \/ op' # op)
  BY <1>1, SplitKeeps
<1>2. CASE aborted' # aborted \/ (pages' = pages /\ op' = op)
  <2>1. pages' = pages /\ op' = op /\ aborted' \in BOOLEAN
    BY <1>2 DEF Split, IInv, TypeOK
  <2>2. UNCHANGED <<dbobjects, begun, stored>>
    BY DEF Split, history
  <2>3. TypeOK'
    BY <2>1, <2>2 DEF IInv, TypeOK, NewID
  <2>4. PagesFinite' /\ PagesFilled' /\ FirstLeaves' /\ LeavesOK' /\ RootsFilled'
    BY <2>1, <2>2 DEF IInv, PagesFinite, PagesFilled, FirstLeaves, LeavesOK, RootsFilled,
                      IsLeaf, Filled
  <2>5. LeafKeys' = LeafKeys
    BY <2>1 DEF LeafKeys, IsLeaf
  <2>6. StoredInLeaves' /\ LeavesBegun'
    BY <2>2, <2>5 DEF IInv, StoredInLeaves, LeavesBegun
  <2>7. Grows /\ FirstLeaves
    BY <2>1, <2>2, SamePagesGrow DEF IInv
  <2>8. CallsOK'
    <3> SUFFICES ASSUME NEW u \in Threads PROVE CallOK(op[u])'
      BY DEF CallsOK
    <3>1. PICK r : r = op[u]
      OBVIOUS
    <3>2. CallOK(r)'
      BY <2>7, <3>1, CallOf, CallPersists
    <3> QED
      BY <2>1, <3>1, <3>2
  <2> QED
    BY <2>3, <2>4, <2>6, <2>8 DEF IInv
<1> QED
  BY <1>1, <1>2

\* A page written with no tuples above the leaves: a new root, as allocated or
\* as initialised.
LEMMA RootPageKeeps ==
    ASSUME IInv, NEW t \in Threads, NEW s \in CallState, CallOK(s)',
           op' = [op EXCEPT ![t] = s],
           UNCHANGED <<stored, begun, aborted>>,
           NEW r \in PageID, NEW page \in Page, page.type = "Node", page.items = <<>>,
           page.child \in DOMAIN pages,
           r \in DOMAIN pages => ~IsLeaf(r),
           DOMAIN pages' = DOMAIN pages \/ DOMAIN pages' = 0 .. NewID,
           \A x \in DOMAIN pages' : x \in DOMAIN pages \/ x = r,
           \A x \in DOMAIN pages : x \in DOMAIN pages' /\ (x # r => pages'[x] = pages[x]),
           r \in DOMAIN pages', pages'[r] = page,
           dbobjects' \in [ObjectID -> DOMAIN pages'],
           \A o \in ObjectID : dbobjects'[o] # o => Filled(o)
    PROVE  IInv'
<1>1. /\ TypeOK /\ PagesFilled /\ StoredInLeaves /\ LeavesBegun /\ FirstLeaves /\ LeavesOK
      /\ stored \in [ObjectID -> SUBSET Key]
  BY DEF IInv, TypeOK
<1>2. ~IsLeaf(r)' /\ pages'[r].items = <<>>
  BY DEF IsLeaf
<1>3. \A x \in DOMAIN pages : /\ pages'[x].type = pages[x].type
                              /\ IsLeaf(x) <=> IsLeaf(x)'
                              /\ IsLeaf(x) => pages'[x] = pages[x]
  <2> SUFFICES ASSUME NEW x \in DOMAIN pages
               PROVE  /\ pages'[x].type = pages[x].type
                      /\ IsLeaf(x) <=> IsLeaf(x)'
                      /\ IsLeaf(x) => pages'[x] = pages[x]
    OBVIOUS
  <2>1. pages[x].type \in {"Node", "Leaf"}
    BY <1>1 DEF TypeOK, Page
  <2> QED
    BY <2>1, <1>2 DEF IsLeaf
<1>4. \A x \in DOMAIN pages' : IsLeaf(x)' => x \in DOMAIN pages /\ IsLeaf(x)
  BY <1>2, <1>3
<1>5. \A k : k \in LeafKeys' <=> k \in LeafKeys
  BY <1>3, <1>4 DEF LeafKeys
<1>6. Grows
  BY <1>3, <1>5 DEF Grows, Filled
<1>7. StoredInLeaves' /\ LeavesBegun'
  BY <1>1, <1>5 DEF StoredInLeaves, LeavesBegun
<1>8. LeavesOK'
  <2> SUFFICES ASSUME NEW x \in DOMAIN pages', IsLeaf(x)', NEW y, y = pages'[x].right
               PROVE  ~pages'[x].zeroed /\ (y = NULL_PTR \/ (y \in DOMAIN pages' /\ IsLeaf(y)'))
    BY DEF LeavesOK
  <2>1. x \in DOMAIN pages /\ IsLeaf(x) /\ pages'[x] = pages[x]
    BY <1>3, <1>4
  <2>2. ~pages[x].zeroed /\ (y = NULL_PTR \/ (y \in DOMAIN pages /\ IsLeaf(y)))
    BY <2>1, <1>1 DEF LeavesOK
  <2> QED
    BY <2>1, <2>2, <1>3
<1>9. RootsFilled'
  <2> SUFFICES ASSUME NEW o \in ObjectID, dbobjects'[o] # o PROVE Filled(o)'
    BY DEF RootsFilled
  <2>1. Filled(o) /\ o \in DOMAIN pages /\ IsLeaf(o)
    BY <1>1 DEF FirstLeaves
  <2> QED
    BY <2>1, <1>3 DEF Filled
<1>10. PagesFilled'
  <2>1. ASSUME NEW x \in DOMAIN pages, x # r
        PROVE  LET n == Len(pages'[x].items) IN
               IF pages'[x].type = "Node" THEN n <= NodeCap
               ELSE n <= LeafCap /\ (n = 0 => x \in ObjectID /\ stored'[x] = {})
    <3>1. pages'[x] = pages[x]
      BY <2>1
    <3>2. LET n == Len(pages[x].items) IN
          IF pages[x].type = "Node" THEN n <= NodeCap
          ELSE n <= LeafCap /\ (n = 0 => x \in ObjectID /\ stored[x] = {})
      BY <1>1 DEF PagesFilled
    <3> QED
      BY <3>1, <3>2
  <2>2. pages'[r].type = "Node" /\ Len(pages'[r].items) = 0 /\ 0 <= NodeCap
    BY <1>2, EmptySeq, TreeAssumption
  <2> QED
    BY <2>1, <2>2 DEF PagesFilled
<1>11. ASSUME NEW x \in DOMAIN pages'
       PROVE  /\ pages'[x] \in Page
              /\ pages'[x].type = "Node" =>
                    \A y \in Children(pages'[x]) : y \in DOMAIN pages'
  <2>1. CASE x \in DOMAIN pages /\ x # r
    BY <2>1, <1>1 DEF TypeOK
  <2>2. CASE x = r
    <3>1. Children(page) = {page.child}
      BY EmptySeq DEF Children
    <3> QED
      BY <2>2, <3>1
  <2> QED
    BY <2>1, <2>2
<1> QED
  BY <1>1, <1>6, <1>7, <1>8, <1>9, <1>10, <1>11, PageStep

LEMMA PublishRootKeeps ==
    ASSUME IInv, NEW t \in Threads, PublishRoot(t)
    PROVE  IInv'
<1>1. PICK c : c = op[t]
  OBVIOUS
<1>2. PICK r : r = NewID
  OBVIOUS
<1>3. PICK s : s = [at |-> "init", root |-> r, call |-> c]
  OBVIOUS
<1>4. /\ c.at = "parent" /\ UNCHANGED <<stored, begun, aborted>>
      /\ pages' = Allocated(ZeroPage)
      /\ dbobjects' = [dbobjects EXCEPT ![c.object] = r]
      /\ op' = [op EXCEPT ![t] = s]
  BY <1>1, <1>2, <1>3 DEF PublishRoot, Step, history
<1>5. c \in CallState /\ CallOK(c)
  BY <1>1, CallOf
<1>6. c \in InsertCall /\ InsertOK(c)
  BY <1>4, <1>5, CallsApart DEF CallOK
<1>7. /\ TypeOK /\ PagesFinite /\ FirstLeaves /\ RootsFilled
      /\ dbobjects \in [ObjectID -> DOMAIN pages]
  BY DEF IInv, TypeOK
<1>8. c.object \in ObjectID /\ Filled(c.object)
  BY <1>4, <1>6 DEF InsertCall, InsertOK
<1>9. /\ r \in PageID /\ r \notin DOMAIN pages /\ 0 \in DOMAIN pages
      /\ \A x \in PageID : x \in DOMAIN pages \/ x = r <=> x \in 0 .. r
      /\ DOMAIN pages \subseteq PageID
  BY <1>2, <1>7, NewIDProperties
<1>10. /\ DOMAIN pages' = 0 .. r
       /\ \A x \in 0 .. r : pages'[x] = IF x \in DOMAIN pages THEN pages[x] ELSE ZeroPage
  BY <1>2, <1>4 DEF Allocated, NewID
<1>11. r \in 0 .. r /\ \A x \in DOMAIN pages : x \in 0 .. r
  BY <1>9
<1>12. /\ \A x \in DOMAIN pages' : x \in DOMAIN pages \/ x = r
       /\ \A x \in DOMAIN pages : x \in DOMAIN pages' /\ pages'[x] = pages[x]
       /\ r \in DOMAIN pages' /\ pages'[r] = ZeroPage
  BY <1>9, <1>10, <1>11
<1>13. PICK page : page = ZeroPage
  OBVIOUS
<1>14. page \in Page /\ page.type = "Node" /\ page.items = <<>> /\ page.child \in DOMAIN pages
  <2>1. <<>> \in Seq(Tuple)
    BY EmptySeq
  <2> QED
    BY <2>1, <1>9, <1>13 DEF ZeroPage, Page, Pointer
<1>15. s \in CallState /\ CallOK(s)'
  <2>1. s \in RootCall /\ s.call = c /\ s.root = r
    BY <1>3, <1>6, <1>9 DEF RootCall
  <2>2. Grows
    <3>1. \A k \in LeafKeys : k \in LeafKeys'
      BY <1>12 DEF LeafKeys, IsLeaf
    <3> QED
      BY <3>1, <1>4, <1>12 DEF Grows, Filled
  <2>3. CallOK(c)'
    BY <2>2, <1>5, <1>7, CallPersists
  <2>4. InsertOK(c)'
    BY <2>3, <1>6 DEF CallOK
  <2>5. ~IsLeaf(r)'
    BY <1>12, <1>13, <1>14 DEF IsLeaf
  <2>6. c.parents = <<>>
    BY <1>1 DEF PublishRoot
  <2>7. RootOK(s)'
    BY <2>1, <2>4, <2>5, <2>6, <1>4, <1>12 DEF RootOK
  <2>8. s \in CallState
    BY <2>1 DEF CallState
  <2> QED
    BY <2>1, <2>7, <2>8, CallsApart DEF CallOK
<1>16. dbobjects' \in [ObjectID -> DOMAIN pages']
  BY <1>4, <1>7, <1>12
<1>17. \A o \in ObjectID : dbobjects'[o] # o => Filled(o)
  <2> SUFFICES ASSUME NEW o \in ObjectID, dbobjects'[o] # o PROVE Filled(o)
    OBVIOUS
  <2>1. CASE o = c.object
    BY <2>1, <1>8
  <2>2. CASE o # c.object
    BY <2>2, <1>4, <1>7 DEF RootsFilled
  <2> QED
    BY <2>1, <2>2
<1>18. DOMAIN pages' = 0 .. NewID /\ pages'[r] = page
  BY <1>2, <1>10, <1>12, <1>13
<1>19. /\ r \in DOMAIN pages => ~IsLeaf(r)
       /\ DOMAIN pages' = DOMAIN pages \/ DOMAIN pages' = 0 .. NewID
       /\ \A x \in DOMAIN pages : x \in DOMAIN pages' /\ (x # r => pages'[x] = pages[x])
  BY <1>9, <1>12, <1>18
<1>20. /\ op' = [op EXCEPT ![t] = s] /\ UNCHANGED <<stored, begun, aborted>>
       /\ \A x \in DOMAIN pages' : x \in DOMAIN pages \/ x = r
       /\ r \in PageID /\ r \in DOMAIN pages'
  BY <1>4, <1>9, <1>12
<1> QED
  BY <1>14, <1>15, <1>16, <1>17, <1>18, <1>19, <1>20, RootPageKeeps

LEMMA InitRootKeeps ==
    ASSUME IInv, NEW t \in Threads, InitRoot(t)
    PROVE  IInv'
<1>1. PICK d : d = op[t]
  OBVIOUS
<1>2. PICK c : c = d.call
  OBVIOUS
<1>3. PICK r : r = d.root
  OBVIOUS
<1>4. PICK s : s = [c EXCEPT !.at = "insert", !.page = r]
  OBVIOUS
<1>5. PICK page : page = NodePage(<<>>, NULL_PTR, NULL_PTR, c.page)
  OBVIOUS
<1>6. /\ d.at = "init" /\ UNCHANGED <<dbobjects, stored, begun, aborted>>
      /\ pages' = [pages EXCEPT ![r] = page]
      /\ op' = [op EXCEPT ![t] = s]
  BY <1>1, <1>2, <1>3, <1>4, <1>5 DEF InitRoot, Step, history
<1>7. d \in CallState /\ CallOK(d)
  BY <1>1, CallOf
<1>8. d \in RootCall /\ RootOK(d)
  BY <1>6, <1>7, CallsApart DEF CallOK
<1>9. /\ c \in InsertCall /\ InsertOK(c) /\ c.at = "parent"
      /\ r \in DOMAIN pages /\ ~IsLeaf(r) /\ r \in PageID
  BY <1>2, <1>3, <1>8 DEF RootCall, RootOK
<1>10. /\ FirstLeaves /\ RootsFilled /\ TypeOK /\ dbobjects \in [ObjectID -> DOMAIN pages]
  BY DEF IInv, TypeOK
<1>11. c.page \in DOMAIN pages /\ c.page \in PageID
  BY <1>9 DEF InsertOK, PlaceOK, InsertCall
<1>12. page \in Page /\ page.type = "Node" /\ page.items = <<>> /\ page.child \in DOMAIN pages
  <2>1. <<>> \in Seq(Tuple)
    BY EmptySeq
  <2> QED
    BY <2>1, <1>5, <1>11 DEF NodePage, Page, Pointer
<1>13. /\ DOMAIN pages' = DOMAIN pages /\ pages'[r] = page
       /\ \A x \in DOMAIN pages : x # r => pages'[x] = pages[x]
  BY <1>6, <1>9
<1>14. pages[r].type = "Node"
  BY <1>9, <1>10 DEF TypeOK, Page, IsLeaf
<1>15. Grows
  <2>1. \A x \in DOMAIN pages : IsLeaf(x) => pages'[x] = pages[x]
    BY <1>9, <1>13
  <2>2. \A k \in LeafKeys : k \in LeafKeys'
    BY <2>1, <1>13 DEF LeafKeys, IsLeaf
  <2> QED
    BY <2>1, <2>2, <1>6, <1>12, <1>13, <1>14 DEF Grows, Filled
<1>16. s \in CallState /\ CallOK(s)'
  <2>1. /\ s \in InsertCall /\ s.at = "insert" /\ s.page = r /\ s.object = c.object
        /\ s.key = c.key /\ s.tuple = c.tuple /\ s.parents = c.parents
    BY <1>4, <1>9 DEF InsertCall
  <2>2. PlaceOK(s)
    BY <2>1, <1>9 DEF InsertOK, PlaceOK
  <2>3. CarriesSeparator(s) /\ Filled(s.object) /\ s.key \in begun[s.object]
    BY <2>1, <1>9 DEF InsertOK, CarriesSeparator
  <2>4. InsertOK(s)
    BY <2>1, <2>2, <2>3, <1>9 DEF InsertOK
  <2>5. s \in CallState
    BY <2>1 DEF CallState
  <2>6. CallOK(s)
    BY <2>1, <2>4, <2>5, CallsApart DEF CallOK
  <2> QED
    BY <2>5, <2>6, <1>10, <1>15, CallPersists
<1>17. /\ dbobjects' \in [ObjectID -> DOMAIN pages']
       /\ \A o \in ObjectID : dbobjects'[o] # o => Filled(o)
  BY <1>6, <1>10, <1>13 DEF RootsFilled
<1> QED
  BY <1>6, <1>9, <1>12, <1>13, <1>16, <1>17, RootPageKeeps

-----------------------------------------------------------------------------
(* The theorems. *)

LEMMA InitIInv == Init => IInv
<1> SUFFICES ASSUME Init PROVE IInv
  OBVIOUS
<1>1. /\ DOMAIN pages = ObjectID
      /\ \A p \in ObjectID : pages[p] = LeafPage(<<>>, NULL_PTR, NULL_PTR)
      /\ dbobjects = [o \in ObjectID |-> o]
      /\ op = [t \in Threads |-> Idle]
      /\ begun = [o \in ObjectID |-> {}] /\ stored = [o \in ObjectID |-> {}]
      /\ aborted = FALSE
  BY DEF Init
<1>2. IsFiniteSet(ObjectID) /\ Cardinality(ObjectID) = Objects
  <2>1. /\ IsFiniteSet(0 .. (Objects - 1))
        /\ Cardinality(0 .. (Objects - 1)) = IF 0 > Objects - 1 THEN 0 ELSE (Objects - 1) - 0 + 1
    BY TreeAssumption, FS_Interval
  <2> QED
    BY <2>1, TreeAssumption DEF ObjectID
<1>3. NewID = Objects
  BY <1>1, <1>2 DEF NewID
<1>4. PICK page : page = LeafPage(<<>>, NULL_PTR, NULL_PTR)
  OBVIOUS
<1>5. /\ page \in Page /\ page.type = "Leaf" /\ page.items = <<>> /\ page.right = NULL_PTR
      /\ ~page.zeroed /\ Len(page.items) = 0 /\ KeysIn(page.items) = {}
  <2>1. <<>> \in Seq(Tuple) /\ Len(<<>>) = 0 /\ KeysIn(<<>>) = {}
    BY EmptySeq, KeysAreOfTuples
  <2> QED
    BY <2>1, <1>4 DEF LeafPage, Page, Pointer
<1>6. \A p \in DOMAIN pages : pages[p] = page
  BY <1>1, <1>4
<1>7. TypeOK
  <2>1. DOMAIN pages = 0 .. (NewID - 1)
    BY <1>1, <1>3 DEF ObjectID
  <2>2. \A p \in DOMAIN pages :
           /\ pages[p] \in Page
           /\ pages[p].type = "Node" => \A c \in Children(pages[p]) : c \in DOMAIN pages
    BY <1>5, <1>6
  <2> QED
    BY <2>1, <2>2, <1>1 DEF TypeOK
<1>8. PagesFinite
  BY <1>1, <1>2 DEF PagesFinite
<1>9. PagesFilled
  BY <1>1, <1>5, <1>6, TreeAssumption DEF PagesFilled
<1>10. \A k : k \notin LeafKeys
  BY <1>5, <1>6 DEF LeafKeys
<1>11. StoredInLeaves /\ LeavesBegun
  BY <1>1, <1>10 DEF StoredInLeaves, LeavesBegun
<1>12. FirstLeaves /\ LeavesOK /\ RootsFilled
  BY <1>1, <1>5, <1>6 DEF FirstLeaves, LeavesOK, RootsFilled, IsLeaf
<1>13. CallsOK
  <2> SUFFICES ASSUME NEW t \in Threads PROVE CallOK(op[t])
    BY DEF CallsOK
  <2>1. CallOK(Idle)
    BY NoCall
  <2> QED
    BY <2>1, <1>1
<1> QED
  BY <1>7, <1>8, <1>9, <1>11, <1>12, <1>13 DEF IInv

LEMMA StutterKeeps == IInv /\ UNCHANGED vars => IInv'
<1> SUFFICES ASSUME IInv, UNCHANGED vars PROVE IInv'
  OBVIOUS
<1>1. UNCHANGED <<pages, dbobjects, op, begun, stored, aborted>>
  BY DEF vars, history
<1>2. TypeOK' /\ PagesFinite' /\ PagesFilled'
  BY <1>1 DEF IInv, TypeOK, PagesFinite, PagesFilled, NewID
<1>3. FirstLeaves' /\ LeavesOK' /\ RootsFilled'
  BY <1>1 DEF IInv, FirstLeaves, LeavesOK, RootsFilled, IsLeaf, Filled
<1>4. LeafKeys' = LeafKeys
  BY <1>1 DEF LeafKeys, IsLeaf
<1>5. StoredInLeaves' /\ LeavesBegun'
  BY <1>1, <1>4 DEF IInv, StoredInLeaves, LeavesBegun
<1>6. Grows /\ FirstLeaves
  BY <1>1, SamePagesGrow DEF IInv
<1>7. CallsOK'
  <2> SUFFICES ASSUME NEW u \in Threads PROVE CallOK(op[u])'
    BY DEF CallsOK
  <2>1. PICK r : r = op[u]
    OBVIOUS
  <2>2. CallOK(r)'
    BY <1>6, <2>1, CallOf, CallPersists
  <2> QED
    BY <1>1, <2>1, <2>2
<1> QED
  BY <1>2, <1>3, <1>5, <1>7 DEF IInv

LEMMA NextKeeps == IInv /\ [Next]_vars => IInv'
<1> SUFFICES ASSUME IInv, [Next]_vars PROVE IInv'
  OBVIOUS
<1>1. ASSUME NEW t \in Inserters, NEW o \in ObjectID, NEW k \in Key, BeginInsert(t, o, k)
      PROVE  IInv'
  BY <1>1, BeginInsertKeeps DEF Threads
<1>2. ASSUME NEW t \in Threads, Descend(t) PROVE IInv'
  BY <1>2, DescendKeeps
<1>3. ASSUME NEW t \in Inserters, InsertStep(t) PROVE IInv'
  <2>1. t \in Threads
    BY DEF Threads
  <2> QED
    BY <2>1, <1>2, <1>3, TryInsertKeeps, SplitStepKeeps, PopParentKeeps, PublishRootKeeps,
       InitRootKeeps DEF InsertStep
<1>4. ASSUME NEW t \in Scanners, NEW o \in ObjectID, NEW a \in Key, NEW b \in Key,
             BeginScan(t, o, a, b)
      PROVE  IInv'
  BY <1>4, BeginScanKeeps DEF Threads
<1>5. ASSUME NEW t \in Scanners, ScanStep(t) PROVE IInv'
  <2>1. t \in Threads
    BY DEF Threads
  <2> QED
    BY <2>1, <1>2, <1>5, ScanStepKeeps DEF ScanStep
<1>6. CASE UNCHANGED vars
  BY <1>6, StutterKeeps
<1>7. CASE Rest
  BY <1>7, StutterKeeps DEF Rest
<1> QED
  BY <1>1, <1>3, <1>4, <1>5, <1>6, <1>7 DEF Next

\* The invariant holds in every state: what calls read under a lock they have
\* released remains true of the pages they come back to (153-249, 303-351).
THEOREM Invariant == Spec => []IInv
<1> QED
  BY InitIInv, NextKeeps, PTL DEF Spec

\* The pages, the root pointers and the threads' calls have their types in every
\* state, and no inner node has a child that is not allocated (196-249, 303-351).
THEOREM TypeCorrect == Spec => []TypeOK
<1>1. IInv => TypeOK
  BY DEF IInv
<1> QED
  BY <1>1, Invariant, PTL

\* A split neither overfills a page nor empties a leaf (218-249), for any number
\* of threads, trees and keys and any capacity of the pages.
THEOREM SplitsFill == Spec => []PagesFilled
<1>1. IInv => PagesFilled
  BY DEF IInv
<1> QED
  BY <1>1, Invariant, PTL

\* A key whose insertion returned is in a leaf, and a leaf holds only keys whose
\* insertion began, whatever insertions and splits overlap (153-249).
THEOREM NoKeyLost == Spec => [](StoredInLeaves /\ LeavesBegun)
<1>1. IInv => StoredInLeaves /\ LeavesBegun
  BY DEF IInv
<1> QED
  BY <1>1, Invariant, PTL
=============================================================================
