---------------------------- MODULE BTreeKeysProofs ----------------------------
(***************************************************************************)
(* Where the keys of the tree are: every page is sorted, the leaves of an  *)
(* object form one chain, and in a single tree the chain holds every key    *)
(* whose insertion returned, once when it is inserted once.  With several   *)
(* objects a root that is published before it is initialised leads a search *)
(* to page 0, which is a leaf of another object.                            *)
(***************************************************************************)
EXTENDS BTreeProofs, WellFoundedInduction

-----------------------------------------------------------------------------
(* Sorted pages. *)

\* A set of naturals has a least element.
LEMMA Least ==
    ASSUME NEW I \in SUBSET Nat, I # {}
    PROVE  \E x \in I : \A y \in I : x <= y
<1> DEFINE R == {ss \in Nat \X Nat : ss[1] < ss[2]}
<1>0. R = OpToRel(<, Nat)
  BY DEF OpToRel
<1>1. IsWellFoundedOn(R, Nat)
  BY <1>0, NatLessThanWellFounded
<1> HIDE DEF R
<1>2. PICK x \in I : \A y \in I : ~(<<y, x>> \in R)
  BY <1>1, WFMin
<1>3. \A y \in I : x <= y
  <2> TAKE y \in I
  <2>1. <<y, x>> \notin R
    BY <1>2
  <2>2. x \in Nat /\ y \in Nat
    OBVIOUS
  <2> QED
    BY <2>1, <2>2 DEF R
<1> QED
  BY <1>3

\* What the tuples of a page are.
LEMMA TuplesOf ==
    ASSUME NEW items \in Seq(Tuple)
    PROVE  /\ Len(items) \in Nat /\ DOMAIN items = 1 .. Len(items)
           /\ \A i \in DOMAIN items : /\ items[i] \in Tuple /\ items[i].key \in Key
                                      /\ items[i].key \in Nat
                                      /\ items[i].key \in KeysIn(items)
           /\ \A k \in KeysIn(items) : \E i \in DOMAIN items : items[i].key = k
<1>1. /\ Len(items) \in Nat /\ DOMAIN items = 1 .. Len(items)
      /\ \A i \in DOMAIN items : items[i] \in Tuple
  BY LenProperties, ElementOfSeq
<1>2. \A x \in Tuple : x.key \in Key /\ x.key \in Nat
  BY TreeAssumption DEF Tuple
<1> QED
  BY <1>1, <1>2 DEF KeysIn

\* The keys of a sorted page that are below some bound are those of its first
\* tuples, as many as there are such keys.
LEMMA CountBelow ==
    ASSUME NEW items \in Seq(Tuple), Sorted(items), NEW T \in SUBSET KeysIn(items),
           \A a \in T, b \in KeysIn(items) : b < a => b \in T
    PROVE  \A i \in DOMAIN items : items[i].key \in T <=> i <= Cardinality(T)
<1>1. /\ Len(items) \in Nat /\ DOMAIN items = 1 .. Len(items)
      /\ \A i \in DOMAIN items : /\ items[i].key \in Nat /\ items[i].key \in KeysIn(items)
      /\ \A k \in KeysIn(items) : \E i \in DOMAIN items : items[i].key = k
  BY TuplesOf
<1>2. PICK n \in Nat : n = Len(items) /\ DOMAIN items = 1 .. n
  BY <1>1
<1> DEFINE Out == {i \in 1 .. n + 1 : i = n + 1 \/ items[i].key \notin T}
<1>3. PICK x \in Out : \A y \in Out : x <= y
  <2>1. n + 1 \in Out /\ Out \in SUBSET Nat
    BY <1>2
  <2> HIDE DEF Out
  <2> QED
    BY <2>1, Least
<1>4. x \in 1 .. n + 1
  BY <1>3
<1>5. \A i \in 1 .. n : items[i].key \in T <=> i < x
  <2> TAKE i \in 1 .. n
  <2>1. CASE i < x
    <3>1. i \notin Out
      BY <2>1, <1>3, <1>4
    <3> QED
      BY <3>1, <2>1
  <2>2. CASE i = x
    <3>1. items[x].key \notin T
      BY <1>3, <2>2
    <3> QED
      BY <3>1, <2>2, <1>4
  <2>3. CASE i > x
    <3>1. x \in 1 .. n /\ x \in DOMAIN items /\ i \in DOMAIN items
      BY <2>3, <1>2, <1>4
    <3>2. items[x].key \notin T /\ items[x].key < items[i].key /\ items[x].key \in KeysIn(items)
      BY <3>1, <1>1, <1>3, <2>3 DEF Sorted
    <3>3. items[i].key \notin T
      BY <3>2
    <3> QED
      BY <3>3, <2>3, <1>4
  <2> QED
    BY <2>1, <2>2, <2>3, <1>4
<1>6. Cardinality(T) = x - 1
  <2> DEFINE f == [i \in 1 .. x - 1 |-> items[i].key]
  <2>1. \A i, j \in 1 .. n : items[i].key = items[j].key => i = j
    <3> SUFFICES ASSUME NEW i \in 1 .. n, NEW j \in 1 .. n, i # j
                 PROVE  items[i].key # items[j].key
      OBVIOUS
    <3>1. items[i].key < items[j].key \/ items[j].key < items[i].key
      BY <1>2 DEF Sorted
    <3> QED
      BY <3>1, <1>1, <1>2
  <2>2. \A i \in 1 .. x - 1 : i \in 1 .. n /\ items[i].key \in T
    BY <1>4, <1>5
  <2>3. \A k \in T : \E i \in 1 .. x - 1 : items[i].key = k
    <3> TAKE k \in T
    <3>1. PICK i \in 1 .. n : items[i].key = k
      BY <1>1, <1>2
    <3>2. i \in 1 .. x - 1
      BY <3>1, <1>4, <1>5
    <3> QED
      BY <3>1, <3>2
  <2>4. f \in Bijection(1 .. x - 1, T)
    <3>1. f \in [1 .. x - 1 -> T]
      BY <2>2
    <3>2. f \in Injection(1 .. x - 1, T)
      BY <3>1, <2>1, <2>2 DEF Injection, IsInjective
    <3>3. f \in Surjection(1 .. x - 1, T)
      BY <3>1, <2>3 DEF Surjection
    <3> QED
      BY <3>2, <3>3 DEF Bijection
  <2>5. IsFiniteSet(1 .. x - 1) /\ Cardinality(1 .. x - 1) = x - 1
    <3>1. /\ IsFiniteSet(1 .. x - 1)
          /\ Cardinality(1 .. x - 1) = IF 1 > x - 1 THEN 0 ELSE (x - 1) - 1 + 1
      BY <1>4, FS_Interval
    <3> QED
      BY <3>1, <1>4
  <2> HIDE DEF f
  <2>6. ExistsBijection(1 .. x - 1, T)
    BY <2>4 DEF ExistsBijection
  <2> QED
    BY <2>5, <2>6, FS_Bijection
<1> QED
  BY <1>2, <1>4, <1>5, <1>6

\* The searches split a sorted page where the key belongs.
LEMMA PartitionSplits ==
    ASSUME NEW items \in Seq(Tuple), Sorted(items), NEW k \in Nat
    PROVE  /\ \A i \in DOMAIN items : items[i].key < k <=> i <= PartitionLower(items, k)
           /\ \A i \in DOMAIN items : items[i].key <= k <=> i <= PartitionUpper(items, k)
<1>1. \A i \in DOMAIN items : items[i].key \in KeysIn(items)
  BY TuplesOf
<1>2. \A j \in KeysIn(items) : j \in Nat
  BY KeysAreOfTuples, TreeAssumption
<1>3. \A i \in DOMAIN items :
         items[i].key \in {j \in KeysIn(items) : j < k}
         <=> i <= Cardinality({j \in KeysIn(items) : j < k})
  <2> DEFINE T == {j \in KeysIn(items) : j < k}
  <2>1. \A a \in T, b \in KeysIn(items) : b < a => b \in T
    BY <1>2
  <2>2. T \in SUBSET KeysIn(items)
    OBVIOUS
  <2> HIDE DEF T
  <2>3. \A i \in DOMAIN items : items[i].key \in T <=> i <= Cardinality(T)
    BY <2>1, <2>2, CountBelow
  <2> QED
    BY <2>3 DEF T
<1>4. \A i \in DOMAIN items :
         items[i].key \in {j \in KeysIn(items) : j <= k}
         <=> i <= Cardinality({j \in KeysIn(items) : j <= k})
  <2> DEFINE T == {j \in KeysIn(items) : j <= k}
  <2>1. \A a \in T, b \in KeysIn(items) : b < a => b \in T
    BY <1>2
  <2>2. T \in SUBSET KeysIn(items)
    OBVIOUS
  <2> HIDE DEF T
  <2>3. \A i \in DOMAIN items : items[i].key \in T <=> i <= Cardinality(T)
    BY <2>1, <2>2, CountBelow
  <2> QED
    BY <2>3 DEF T
<1> QED
  BY <1>1, <1>3, <1>4 DEF PartitionLower, PartitionUpper

\* The tuples of a page once one is inserted, by position.
LEMMA InsertAtElements ==
    ASSUME NEW S, NEW s \in Seq(S), NEW k \in 1 .. Len(s) + 1, NEW e \in S
    PROVE  LET d == InsertAt(s, k, e) IN
           /\ d \in Seq(S) /\ Len(d) = Len(s) + 1
           /\ \A i \in 1 .. k - 1 : d[i] = s[i]
           /\ d[k] = e
           /\ \A i \in k .. Len(s) : d[i + 1] = s[i]
<1>0. PICK c \in Int : c = k - 1
  BY LenProperties
<1> DEFINE d == InsertAt(s, k, e)
<1>1. PICK n \in Nat : n = Len(s) /\ DOMAIN s = 1 .. n /\ c \in 0 .. n /\ k = c + 1
  BY <1>0, LenProperties
<1>2. PICK a : a = SubSeq(s, 1, c)
  OBVIOUS
<1>3. PICK b : b = SubSeq(s, c + 1, n)
  OBVIOUS
<1>4. \A i \in 1 .. n : s[i] \in S
  BY <1>1, ElementOfSeq
<1>5. a \in Seq(S) /\ Len(a) = c /\ \A i \in 1 .. c : a[i] = s[i]
  <2>1. \A i \in 1 .. c : s[i] \in S
    BY <1>1, <1>4
  <2>2. /\ a \in Seq(S) /\ Len(a) = IF 1 <= c THEN c - 1 + 1 ELSE 0
        /\ \A i \in 1 .. c - 1 + 1 : a[i] = s[1 + i - 1]
    BY <2>1, <1>2, SubSeqProperties
  <2> QED
    BY <2>2, <1>1
<1>6. b \in Seq(S) /\ Len(b) = n - c /\ \A i \in 1 .. n - c : b[i] = s[c + i]
  <2>1. \A i \in c + 1 .. n : s[i] \in S
    BY <1>1, <1>4
  <2>2. /\ b \in Seq(S) /\ Len(b) = IF c + 1 <= n THEN n - (c + 1) + 1 ELSE 0
        /\ \A i \in 1 .. n - (c + 1) + 1 : b[i] = s[c + 1 + i - 1]
    BY <2>1, <1>1, <1>3, SubSeqProperties
  <2> QED
    BY <2>2, <1>1
<1>7. d = (a \o <<e>>) \o b
  <2>1. k - 1 = c
    BY <1>1
  <2> QED
    BY <2>1, <1>1, <1>2, <1>3 DEF InsertAt
<1> HIDE DEF d
<1>8. PICK f : f = a \o <<e>>
  OBVIOUS
<1>9. /\ f \in Seq(S) /\ Len(f) = c + 1 /\ f[c + 1] = e
      /\ \A i \in 1 .. c : f[i] = s[i]
  <2>1. <<e>> \in Seq(S) /\ Len(<<e>>) = 1 /\ <<e>>[1] = e
    OBVIOUS
  <2>2. PICK u : u = <<e>>
    OBVIOUS
  <2>3. u \in Seq(S) /\ Len(u) = 1 /\ u[1] = e /\ f = a \o u
    BY <2>1, <2>2, <1>8
  <2>4. /\ f \in Seq(S) /\ Len(f) = Len(a) + Len(u)
        /\ \A i \in 1 .. Len(a) + Len(u) : f[i] = IF i <= Len(a) THEN a[i] ELSE u[i - Len(a)]
    BY <2>3, <1>5, ConcatProperties
  <2>5. /\ f \in Seq(S) /\ Len(f) = c + 1
        /\ \A i \in 1 .. c + 1 : f[i] = IF i <= c THEN a[i] ELSE u[i - c]
    BY <2>3, <2>4, <1>5
  <2>6. \A i \in 1 .. c : f[i] = s[i]
    BY <2>5, <1>5
  <2>7. f[c + 1] = u[1]
    BY <2>5, <1>1
  <2> QED
    BY <2>3, <2>5, <2>6, <2>7
<1>10. /\ d \in Seq(S) /\ Len(d) = n + 1
       /\ \A i \in 1 .. n + 1 : d[i] = IF i <= c + 1 THEN f[i] ELSE b[i - (c + 1)]
  <2>1. /\ d \in Seq(S) /\ Len(d) = Len(f) + Len(b)
        /\ \A i \in 1 .. Len(f) + Len(b) : d[i] = IF i <= Len(f) THEN f[i] ELSE b[i - Len(f)]
    <3>1. d = f \o b
      BY <1>7, <1>8
    <3>2. /\ f \o b \in Seq(S) /\ Len(f \o b) = Len(f) + Len(b)
          /\ \A i \in 1 .. Len(f) + Len(b) : (f \o b)[i] = IF i <= Len(f) THEN f[i] ELSE b[i - Len(f)]
      <4>1. f \in Seq(S) /\ b \in Seq(S)
        BY <1>6, <1>9
      <4> QED
        BY <4>1, ConcatProperties
    <3> QED
      BY <3>1, <3>2
  <2>2. c + 1 + (n - c) = n + 1
    BY <1>1
  <2> QED
    BY <2>1, <2>2, <1>6, <1>9
<1>11. \A i \in 1 .. c : d[i] = s[i]
  BY <1>1, <1>9, <1>10
<1>12. d[c + 1] = e
  BY <1>1, <1>9, <1>10
<1>13. \A i \in c + 1 .. n : d[i + 1] = s[i]
  <2> TAKE i \in c + 1 .. n
  <2>1. d[i + 1] = b[i - c]
    BY <1>1, <1>10
  <2>2. i - c \in 1 .. n - c /\ c + (i - c) = i
    BY <1>1
  <2> QED
    BY <2>1, <2>2, <1>6
<1> QED
  <2>1. /\ d \in Seq(S) /\ Len(d) = Len(s) + 1
        /\ \A i \in 1 .. k - 1 : d[i] = s[i]
        /\ d[k] = e
        /\ \A i \in k .. Len(s) : d[i + 1] = s[i]
    BY <1>1, <1>10, <1>11, <1>12, <1>13
  <2> QED
    BY <2>1 DEF d

\* SlottedPage::insert keeps a page sorted, and the first tuple first when the
\* new key is above it.
LEMMA InsertedSorted ==
    ASSUME NEW items \in Seq(Tuple), Sorted(items), NEW tuple \in Tuple,
           tuple.key \notin KeysIn(items), NEW d, d = Inserted(items, tuple)
    PROVE  /\ d \in Seq(Tuple) /\ Sorted(d) /\ Len(d) = Len(items) + 1
           /\ ToSet(d) = ToSet(items) \cup {tuple}
           /\ KeysIn(d) = KeysIn(items) \cup {tuple.key}
           /\ Len(items) > 0 /\ items[1].key < tuple.key => d[1] = items[1]
<1>1. /\ Len(items) \in Nat /\ DOMAIN items = 1 .. Len(items)
      /\ \A i \in DOMAIN items : items[i].key \in Nat /\ items[i].key \in KeysIn(items)
  BY TuplesOf
<1>2. PICK n \in Nat : n = Len(items) /\ DOMAIN items = 1 .. n
  BY <1>1
<1>3. tuple.key \in Nat
  BY TreeAssumption DEF Tuple
<1>4. PICK c : c = PartitionLower(items, tuple.key)
  OBVIOUS
<1>5. c \in 0 .. Len(items) /\ c \in 0 .. n
  BY <1>2, <1>4, PartitionBounds
<1>6. \A i \in 1 .. n : items[i].key < tuple.key <=> i <= c
  BY <1>2, <1>3, <1>4, PartitionSplits
<1>7. d = InsertAt(items, c + 1, tuple)
  BY <1>4 DEF Inserted
<1>8. /\ d \in Seq(Tuple) /\ Len(d) = n + 1
      /\ \A i \in 1 .. c : d[i] = items[i]
      /\ d[c + 1] = tuple
      /\ \A i \in c + 1 .. n : d[i + 1] = items[i]
  <2>1. PICK k : k = c + 1
    OBVIOUS
  <2>2. k \in 1 .. Len(items) + 1 /\ d = InsertAt(items, k, tuple)
    BY <2>1, <1>2, <1>5, <1>7
  <2>3. LET x == InsertAt(items, k, tuple) IN
        /\ x \in Seq(Tuple) /\ Len(x) = Len(items) + 1
        /\ \A i \in 1 .. k - 1 : x[i] = items[i]
        /\ x[k] = tuple
        /\ \A i \in k .. Len(items) : x[i + 1] = items[i]
    BY <2>2, InsertAtElements
  <2>4. k - 1 = c
    BY <2>1, <1>5
  <2> QED
    BY <2>1, <2>2, <2>3, <2>4, <1>2
<1>9. DOMAIN d = 1 .. n + 1
  BY <1>8, LenProperties
<1>10. \A i \in 1 .. n : i > c => tuple.key < items[i].key
  <2> TAKE i \in 1 .. n
  <2>1. items[i].key # tuple.key /\ items[i].key \in Nat
    BY <1>1, <1>2
  <2> QED
    BY <2>1, <1>3, <1>5, <1>6
<1>11. Sorted(d)
  <2> SUFFICES ASSUME NEW i \in 1 .. n + 1, NEW j \in 1 .. n + 1, i < j
               PROVE  d[i].key < d[j].key
    BY <1>9 DEF Sorted
  <2>1. CASE j <= c
    <3>1. i \in 1 .. c /\ j \in 1 .. c /\ i \in 1 .. n /\ j \in 1 .. n
      BY <2>1, <1>5
    <3> QED
      BY <3>1, <1>2, <1>8 DEF Sorted
  <2>2. CASE j = c + 1
    <3>1. i \in 1 .. c /\ i \in 1 .. n /\ i <= c
      BY <2>2, <1>5
    <3> QED
      BY <3>1, <2>2, <1>6, <1>8
  <2>3. CASE j > c + 1
    <3>1. j - 1 \in c + 1 .. n /\ j - 1 \in 1 .. n /\ j - 1 > c /\ (j - 1) + 1 = j
      BY <2>3, <1>5
    <3>2. d[j] = items[j - 1]
      BY <3>1, <1>8
    <3>3. CASE i <= c
      <4>1. i \in 1 .. c /\ i \in 1 .. n /\ i < j - 1
        BY <3>3, <3>1, <1>5
      <4>2. d[i] = items[i]
        BY <4>1, <1>8
      <4>3. items[i].key < items[j - 1].key
        BY <4>1, <3>1, <1>2 DEF Sorted
      <4> QED
        BY <4>2, <4>3, <3>2
    <3>4. CASE i = c + 1
      BY <3>1, <3>2, <3>4, <1>8, <1>10
    <3>5. CASE i > c + 1
      <4>1. i - 1 \in c + 1 .. n /\ i - 1 \in 1 .. n /\ (i - 1) + 1 = i /\ i - 1 < j - 1
        BY <3>5, <1>5
      <4>2. d[i] = items[i - 1]
        BY <4>1, <1>8
      <4> QED
        BY <4>1, <4>2, <3>1, <3>2, <1>2 DEF Sorted
    <3> QED
      BY <3>3, <3>4, <3>5, <1>5
  <2> QED
    BY <2>1, <2>2, <2>3, <1>5
<1>12. ToSet(d) = ToSet(items) \cup {tuple}
  BY InsertedProperties
<1>13. KeysIn(d) = KeysIn(items) \cup {tuple.key}
  <2>1. KeysIn(d) = {x.key : x \in ToSet(d)} /\ KeysIn(items) = {x.key : x \in ToSet(items)}
    BY <1>8, KeysAreOfTuples
  <2> QED
    BY <2>1, <1>12
<1>14. ASSUME n > 0, items[1].key < tuple.key PROVE d[1] = items[1]
  <2>1. 1 \in 1 .. n /\ 1 <= c
    BY <1>2, <1>6, <1>14
  <2> QED
    BY <2>1, <1>5, <1>8
<1> QED
  BY <1>2, <1>8, <1>11, <1>12, <1>13, <1>14

\* The parts of a page cut after c tuples, by position.
LEMMA CutElements ==
    ASSUME NEW S, NEW s \in Seq(S), NEW c \in 0 .. Len(s)
    PROVE  /\ \A i \in 1 .. c : SubSeq(s, 1, c)[i] = s[i]
           /\ \A i \in 1 .. Len(s) - c : SubSeq(s, c + 1, Len(s))[i] = s[c + i]
<1>1. Len(s) \in Nat /\ \A i \in 1 .. Len(s) : s[i] \in S
  BY LenProperties, ElementOfSeq
<1>2. \A i \in 1 .. c : SubSeq(s, 1, c)[i] = s[i]
  <2>1. \A i \in 1 .. c : s[i] \in S
    BY <1>1
  <2>2. \A i \in 1 .. c - 1 + 1 : SubSeq(s, 1, c)[i] = s[1 + i - 1]
    BY <2>1, SubSeqProperties
  <2> QED
    BY <2>2
<1>3. \A i \in 1 .. Len(s) - c : SubSeq(s, c + 1, Len(s))[i] = s[c + i]
  <2>1. \A i \in c + 1 .. Len(s) : s[i] \in S
    BY <1>1
  <2>2. \A i \in 1 .. Len(s) - (c + 1) + 1 :
           SubSeq(s, c + 1, Len(s))[i] = s[c + 1 + i - 1]
    BY <2>1, <1>1, SubSeqProperties
  <2> QED
    BY <2>2, <1>1
<1> QED
  BY <1>2, <1>3

\* split_half of a sorted page parts it at the middle key.
LEMMA SplitHalfSorted ==
    ASSUME NEW items \in Seq(Tuple), Sorted(items), NEW tuple \in Tuple,
           NEW h, h = SplitHalf(items, tuple)
    PROVE  /\ Sorted(h.kept) /\ Sorted(h.moved)
           /\ tuple.key \notin KeysIn(items) =>
                 /\ \A a \in KeysIn(h.kept) : a < h.middle.key
                 /\ \A b \in KeysIn(h.moved) : h.middle.key <= b
                 /\ h.middle = tuple \/ h.middle \in ToSet(h.moved)
                 /\ Len(items) > 0 /\ items[1].key < tuple.key =>
                       Len(h.kept) > 0 /\ h.kept[1] = items[1]
<1> DEFINE N   == Len(items)
           Mid == (N + 1) \div 2
           Loc == PartitionUpper(items, tuple.key)
           Cut == IF Loc < Mid THEN Mid - 1 ELSE Mid
<1>1. PICK n \in Nat : n = Len(items) /\ DOMAIN items = 1 .. n
  BY TuplesOf
<1>2. \A i \in 1 .. n : /\ items[i].key \in Nat /\ items[i].key \in KeysIn(items)
                        /\ items[i] \in Tuple
  BY <1>1, TuplesOf
<1>3. tuple.key \in Nat
  BY TreeAssumption DEF Tuple
<1>4. PICK loc : loc = Loc
  OBVIOUS
<1>5. loc \in 0 .. n /\ \A i \in 1 .. n : items[i].key <= tuple.key <=> i <= loc
  BY <1>1, <1>3, <1>4, PartitionBounds, PartitionSplits
<1>6. PICK mid \in Nat : mid = Mid /\ 2 * mid <= n + 1 /\ n <= 2 * mid
  BY <1>1
<1>7. PICK cut : cut = Cut
  OBVIOUS
<1>8. /\ h.kept = SubSeq(items, 1, cut) /\ h.moved = SubSeq(items, cut + 1, Len(items))
      /\ h.middle = IF loc = mid THEN tuple ELSE items[cut + 1]
  BY <1>4, <1>6, <1>7 DEF SplitHalf
<1>9. cut = IF loc < mid THEN mid - 1 ELSE mid
  BY <1>4, <1>6, <1>7
<1> HIDE DEF N, Mid, Loc, Cut
<1>10. cut \in 0 .. n /\ cut \in 0 .. Len(items) /\ (loc # mid => cut + 1 \in 1 .. n)
  BY <1>1, <1>5, <1>6, <1>9
<1>11. PICK kept : kept = h.kept
  OBVIOUS
<1>12. PICK moved : moved = h.moved
  OBVIOUS
<1>13. /\ kept \in Seq(Tuple) /\ Len(kept) = cut /\ DOMAIN kept = 1 .. cut
       /\ moved \in Seq(Tuple) /\ Len(moved) = n - cut /\ DOMAIN moved = 1 .. n - cut
  <2>1. /\ kept \in Seq(Tuple) /\ Len(kept) = cut
        /\ moved \in Seq(Tuple) /\ Len(moved) = Len(items) - cut
    BY <1>8, <1>10, <1>11, <1>12, CutProperties
  <2> QED
    BY <2>1, <1>1, LenProperties
<1>14. /\ \A i \in 1 .. cut : kept[i] = items[i]
       /\ \A i \in 1 .. n - cut : moved[i] = items[cut + i]
  <2>1. /\ \A i \in 1 .. cut : SubSeq(items, 1, cut)[i] = items[i]
        /\ \A i \in 1 .. Len(items) - cut : SubSeq(items, cut + 1, Len(items))[i] = items[cut + i]
    BY <1>10, CutElements
  <2> QED
    BY <2>1, <1>1, <1>8, <1>11, <1>12
<1>15. Sorted(kept)
  <2> SUFFICES ASSUME NEW i \in 1 .. cut, NEW j \in 1 .. cut, i < j
               PROVE  kept[i].key < kept[j].key
    BY <1>13 DEF Sorted
  <2>1. i \in 1 .. n /\ j \in 1 .. n
    BY <1>10
  <2> QED
    BY <2>1, <1>1, <1>14 DEF Sorted
<1>16. Sorted(moved)
  <2> SUFFICES ASSUME NEW i \in 1 .. n - cut, NEW j \in 1 .. n - cut, i < j
               PROVE  moved[i].key < moved[j].key
    BY <1>13 DEF Sorted
  <2>1. cut + i \in 1 .. n /\ cut + j \in 1 .. n /\ cut + i < cut + j
    BY <1>10
  <2>2. moved[i] = items[cut + i] /\ moved[j] = items[cut + j]
    BY <1>14
  <2> QED
    BY <2>1, <2>2, <1>1 DEF Sorted
<1>17. ASSUME tuple.key \notin KeysIn(items)
       PROVE  /\ \A a \in KeysIn(kept) : a < h.middle.key
              /\ \A b \in KeysIn(moved) : h.middle.key <= b
              /\ h.middle = tuple \/ h.middle \in ToSet(moved)
              /\ n > 0 /\ items[1].key < tuple.key => cut > 0 /\ kept[1] = items[1]
  <2>1. /\ \A a \in KeysIn(kept) : \E i \in 1 .. cut : a = items[i].key
        /\ \A b \in KeysIn(moved) : \E i \in cut + 1 .. n : b = items[i].key
    <3>1. ASSUME NEW a \in KeysIn(kept) PROVE \E i \in 1 .. cut : a = items[i].key
      BY <1>13, <1>14 DEF KeysIn
    <3>2. ASSUME NEW b \in KeysIn(moved) PROVE \E i \in cut + 1 .. n : b = items[i].key
      <4>1. PICK i \in 1 .. n - cut : b = moved[i].key
        BY <1>13 DEF KeysIn
      <4>2. cut + i \in cut + 1 .. n /\ b = items[cut + i].key
        BY <4>1, <1>10, <1>14
      <4> QED
        BY <4>2
    <3> QED
      BY <3>1, <3>2
  <2>2. \A i \in 1 .. n : /\ i <= loc => items[i].key < tuple.key
                          /\ i > loc => tuple.key < items[i].key
    <3> TAKE i \in 1 .. n
    <3>1. items[i].key # tuple.key
      BY <1>2, <1>17
    <3>2. PICK a \in Nat, b \in Nat : a = items[i].key /\ b = tuple.key
      BY <1>2, <1>3
    <3>3. (a <= b <=> i <= loc) /\ a # b
      BY <3>1, <3>2, <1>5
    <3>4. (i <= loc => a < b) /\ (i > loc => b < a)
      BY <3>3, <1>5
    <3> QED
      BY <3>2, <3>4
  <2>3. CASE loc = mid
    <3>1. h.middle = tuple /\ cut = loc
      BY <2>3, <1>8, <1>9
    <3>2. \A i \in 1 .. cut : items[i].key < tuple.key
      BY <3>1, <2>2, <1>10
    <3>3. \A i \in cut + 1 .. n : tuple.key <= items[i].key
      <4> TAKE i \in cut + 1 .. n
      <4>1. tuple.key < items[i].key /\ items[i].key \in Nat
        BY <3>1, <2>2, <1>2, <1>10
      <4> QED
        BY <4>1, <1>3
    <3>4. n > 0 => 1 \in 1 .. n /\ mid > 0
      BY <1>6
    <3>5. n > 0 => cut > 0 /\ 1 \in 1 .. cut
      BY <3>1, <3>4, <2>3, <1>10
    <3> QED
      BY <3>1, <3>2, <3>3, <3>5, <2>1, <1>14
  <2>4. CASE loc # mid
    <3>1. h.middle = items[cut + 1] /\ cut + 1 \in 1 .. n
      BY <2>4, <1>8, <1>10
    <3>2. \A i \in 1 .. cut : items[i].key < h.middle.key
      <4> TAKE i \in 1 .. cut
      <4>1. i \in 1 .. n /\ i < cut + 1
        BY <1>10
      <4> QED
        BY <4>1, <3>1, <1>1 DEF Sorted
    <3>3. \A i \in cut + 1 .. n : h.middle.key <= items[i].key
      <4> TAKE i \in cut + 1 .. n
      <4>1. i \in 1 .. n /\ (i = cut + 1 \/ cut + 1 < i)
        BY <1>10
      <4>2. i = cut + 1 \/ items[cut + 1].key < items[i].key
        BY <4>1, <3>1, <1>1 DEF Sorted
      <4>3. items[cut + 1].key \in Nat /\ items[i].key \in Nat
        BY <4>1, <3>1, <1>2
      <4> QED
        BY <4>2, <4>3, <3>1
    <3>4. h.middle \in ToSet(moved)
      <4>1. 1 \in 1 .. n - cut
        BY <3>1, <1>10
      <4>2. moved[1] = items[cut + 1]
        BY <4>1, <1>14
      <4> QED
        BY <4>1, <4>2, <3>1, <1>13 DEF ToSet
    <3>5. ASSUME n > 0, items[1].key < tuple.key PROVE cut > 0 /\ kept[1] = items[1]
      <4>1. 1 \in 1 .. n /\ ~(tuple.key < items[1].key)
        BY <3>5, <1>2, <1>3
      <4>2. loc >= 1
        BY <4>1, <2>2, <1>5
      <4>3. cut > 0 /\ 1 \in 1 .. cut
        BY <4>2, <2>4, <1>5, <1>6, <1>9
      <4> QED
        BY <4>3, <1>14
    <3> QED
      BY <3>2, <3>3, <3>4, <3>5, <2>1
  <2> QED
    BY <2>3, <2>4
<1> QED
  BY <1>1, <1>11, <1>12, <1>13, <1>15, <1>16, <1>17

\* The keys of the halves are those of the page and the new one.
SplitKeys(s, items, key) ==
    KeysIn(s.left.items) \cup KeysIn(s.right.items) = KeysIn(items) \cup {key}

\* The keys of the halves, before the new tuple goes to one of them, are those of
\* the page.
LEMMA SplitHalfKeys ==
    ASSUME NEW items \in Seq(Tuple), NEW tuple \in Tuple, NEW h, h = SplitHalf(items, tuple)
    PROVE  KeysIn(h.kept) \cup KeysIn(h.moved) = KeysIn(items)
<1>1. /\ h.kept \in Seq(Tuple) /\ h.moved \in Seq(Tuple)
      /\ ToSet(items) = ToSet(h.kept) \cup ToSet(h.moved)
  BY SplitHalfProperties
<1>2. /\ KeysIn(items) = {x.key : x \in ToSet(items)}
      /\ KeysIn(h.kept) = {x.key : x \in ToSet(h.kept)}
      /\ KeysIn(h.moved) = {x.key : x \in ToSet(h.moved)}
  BY <1>1, KeysAreOfTuples
<1> QED
  BY <1>1, <1>2

\* split_and_insert of a sorted leaf that has not the key: the halves are sorted,
\* the keys of the left one are below those of the right one, the separator is
\* the first key of the right one, and a first key below the new one stays first.
LEMMA SplitLeafSorted ==
    ASSUME NEW page \in Page, Sorted(page.items), HasTuples(page), NEW tuple \in Tuple,
           tuple.key \notin KeysIn(page.items), NEW p \in PageID, NEW q \in PageID,
           NEW s, s = SplitLeaf(page, p, q, tuple)
    PROVE  /\ Sorted(s.left.items) /\ Sorted(s.right.items)
           /\ \A a \in KeysIn(s.left.items), b \in KeysIn(s.right.items) : a < b
           /\ SplitKeys(s, page.items, tuple.key)
           /\ s.up.key = s.right.items[1].key
           /\ page.items[1].key < tuple.key => s.left.items[1] = page.items[1]
<1>1. page.items \in Seq(Tuple)
  BY DEF Page
<1>2. PICK h : h = SplitHalf(page.items, tuple)
  OBVIOUS
<1>3. /\ h.kept \in Seq(Tuple) /\ h.moved \in Seq(Tuple)
      /\ h.middle \in ToSet(page.items) \cup {tuple}
      /\ ToSet(page.items) = ToSet(h.kept) \cup ToSet(h.moved)
      /\ tuple.key < h.middle.key => Len(h.moved) > 0
  BY <1>1, <1>2, SplitHalfProperties
<1>4. PICK kept \in Seq(Tuple), moved \in Seq(Tuple), middle \in Tuple :
         kept = h.kept /\ moved = h.moved /\ middle = h.middle
  <2>1. h.middle \in Tuple
    BY <1>1, <1>3, ElementOfSeq, LenProperties DEF ToSet
  <2> QED
    BY <2>1, <1>3
<1>5. /\ Sorted(kept) /\ Sorted(moved)
      /\ \A a \in KeysIn(kept) : a < middle.key
      /\ \A b \in KeysIn(moved) : middle.key <= b
      /\ middle = tuple \/ middle \in ToSet(moved)
      /\ Len(page.items) > 0 /\ page.items[1].key < tuple.key =>
            Len(kept) > 0 /\ kept[1] = page.items[1]
  <2>1. /\ Sorted(h.kept) /\ Sorted(h.moved)
        /\ tuple.key \notin KeysIn(page.items) =>
              /\ \A a \in KeysIn(h.kept) : a < h.middle.key
              /\ \A b \in KeysIn(h.moved) : h.middle.key <= b
              /\ h.middle = tuple \/ h.middle \in ToSet(h.moved)
              /\ Len(page.items) > 0 /\ page.items[1].key < tuple.key =>
                    Len(h.kept) > 0 /\ h.kept[1] = page.items[1]
    BY <1>1, <1>2, SplitHalfSorted
  <2> QED
    BY <2>1, <1>4
<1>6. KeysIn(kept) \cup KeysIn(moved) = KeysIn(page.items)
  BY <1>1, <1>2, <1>4, SplitHalfKeys
<1>7. /\ tuple.key \in Nat /\ middle.key \in Nat
      /\ \A k \in KeysIn(kept) : k \in Nat
      /\ \A k \in KeysIn(moved) : k \in Nat
  <2>1. tuple.key \in Nat /\ middle.key \in Nat
    BY TreeAssumption DEF Tuple
  <2>2. KeysIn(kept) \subseteq Key /\ KeysIn(moved) \subseteq Key
    BY <1>4, KeysAreOfTuples
  <2> QED
    BY <2>1, <2>2, TreeAssumption
<1>8. Len(page.items) > 0
  BY <1>1, EmptySeq DEF HasTuples
<1>9. s.up.key = middle.key
  BY <1>2, <1>4 DEF SplitLeaf, Upstream
<1>10. middle \in ToSet(moved) => middle.key \in KeysIn(moved)
  <2>1. KeysIn(moved) = {x.key : x \in ToSet(moved)}
    BY <1>4, KeysAreOfTuples
  <2> QED
    BY <2>1
\* The separator is the first key of a sorted half that has it and none below.
<1>11. ASSUME NEW right \in Seq(Tuple), Sorted(right), middle.key \in KeysIn(right),
              \A b \in KeysIn(right) : middle.key <= b
       PROVE  right[1].key = middle.key
  <2>1. PICK n \in Nat : n = Len(right) /\ DOMAIN right = 1 .. n
    BY TuplesOf
  <2>2. \A i \in 1 .. n : right[i].key \in Nat /\ right[i].key \in KeysIn(right)
    BY <2>1, TuplesOf
  <2>3. PICK i \in 1 .. n : right[i].key = middle.key
    BY <1>11, <2>1 DEF KeysIn
  <2>4. 1 \in 1 .. n /\ (i = 1 \/ right[1].key < right[i].key)
    BY <1>11, <2>1 DEF Sorted
  <2>5. middle.key <= right[1].key /\ right[1].key \in Nat
    BY <1>11, <2>2, <2>4
  <2> QED
    BY <2>3, <2>4, <2>5, <1>7
<1>12. CASE tuple.key < middle.key
  <2>1. PICK left : left = Inserted(kept, tuple)
    OBVIOUS
  <2>2. s.left.items = left /\ s.right.items = moved
    BY <1>2, <1>4, <1>12, <2>1 DEF SplitLeaf, GoesLeft, LeafPage
  <2>3. tuple.key \notin KeysIn(kept)
    BY <1>6
  <2>4. /\ Sorted(left) /\ KeysIn(left) = KeysIn(kept) \cup {tuple.key}
        /\ Len(kept) > 0 /\ kept[1].key < tuple.key => left[1] = kept[1]
    BY <2>1, <2>3, <1>4, <1>5, InsertedSorted
  <2>5. middle # tuple
    BY <1>12, <1>7
  <2>6. moved[1].key = middle.key
    BY <2>5, <1>4, <1>5, <1>10, <1>11
  <2>7. \A a \in KeysIn(left), b \in KeysIn(moved) : a < b
    <3> TAKE a \in KeysIn(left), b \in KeysIn(moved)
    <3>1. a < middle.key /\ a \in Nat /\ b \in Nat /\ middle.key <= b
      BY <2>4, <1>5, <1>7, <1>12
    <3> QED
      BY <3>1, <1>7
  <2>8. KeysIn(left) \cup KeysIn(moved) = KeysIn(page.items) \cup {tuple.key}
    BY <2>4, <1>6
  <2>9. page.items[1].key < tuple.key => left[1] = page.items[1]
    BY <2>4, <1>5, <1>8
  <2>10. SplitKeys(s, page.items, tuple.key)
    BY <2>2, <2>8 DEF SplitKeys
  <2> QED
    BY <2>2, <2>4, <2>6, <2>7, <2>9, <2>10, <1>5, <1>9
<1>13. CASE ~(tuple.key < middle.key)
  <2>1. PICK right : right = Inserted(moved, tuple)
    OBVIOUS
  <2>2. s.left.items = kept /\ s.right.items = right
    BY <1>2, <1>4, <1>13, <2>1 DEF SplitLeaf, GoesLeft, LeafPage
  <2>3. tuple.key \notin KeysIn(moved)
    BY <1>6
  <2>4. right \in Seq(Tuple) /\ Sorted(right) /\ KeysIn(right) = KeysIn(moved) \cup {tuple.key}
    BY <2>1, <2>3, <1>4, <1>5, InsertedSorted
  <2>5. middle.key \in KeysIn(right) /\ middle.key <= tuple.key
    BY <2>4, <1>5, <1>7, <1>10, <1>13
  <2>6. \A b \in KeysIn(right) : middle.key <= b
    BY <2>4, <2>5, <1>5
  <2>7. right[1].key = middle.key
    BY <2>4, <2>5, <2>6, <1>11
  <2>8. \A a \in KeysIn(kept), b \in KeysIn(right) : a < b
    <3> TAKE a \in KeysIn(kept), b \in KeysIn(right)
    <3>1. a < middle.key /\ a \in Nat /\ b \in Nat /\ middle.key <= b
      BY <2>4, <2>6, <1>5, <1>7
    <3> QED
      BY <3>1, <1>7
  <2>9. KeysIn(kept) \cup KeysIn(right) = KeysIn(page.items) \cup {tuple.key}
    BY <2>4, <1>6
  <2>10. SplitKeys(s, page.items, tuple.key)
    BY <2>2, <2>9 DEF SplitKeys
  <2> QED
    BY <2>2, <2>4, <2>7, <2>8, <2>10, <1>5, <1>8, <1>9
<1> QED
  BY <1>12, <1>13

\* split_and_insert of a sorted leaf that does not panic: the halves are sorted,
\* even when the leaf has the key and the other half gets it too.
LEMMA LeafHalvesSorted ==
    ASSUME NEW page \in Page, Sorted(page.items), NEW tuple \in Tuple, page.type = "Leaf",
           NEW p \in PageID, NEW q \in PageID, ~SplitPanics(page, tuple),
           NEW s, s = SplitLeaf(page, p, q, tuple)
    PROVE  Sorted(s.left.items) /\ Sorted(s.right.items)
<1>1. page.items \in Seq(Tuple)
  BY DEF Page
<1>2. PICK h : h = SplitHalf(page.items, tuple)
  OBVIOUS
<1>3. /\ h.kept \in Seq(Tuple) /\ h.moved \in Seq(Tuple)
      /\ h.middle \in ToSet(page.items) \cup {tuple}
  BY <1>1, <1>2, SplitHalfProperties
<1>4. Sorted(h.kept) /\ Sorted(h.moved)
  BY <1>1, <1>2, SplitHalfSorted
<1>5. tuple.key \in Nat /\ h.middle.key \in Nat
  <2>1. h.middle \in Tuple
    BY <1>1, <1>3, ElementOfSeq, LenProperties DEF ToSet
  <2> QED
    BY <2>1, TreeAssumption DEF Tuple
<1>6. CASE tuple.key < h.middle.key
  <2>1. tuple.key \notin KeysIn(h.kept)
    BY <1>2, <1>6 DEF SplitPanics
  <2>2. s.left.items = Inserted(h.kept, tuple) /\ s.right.items = h.moved
    BY <1>2, <1>6 DEF SplitLeaf, GoesLeft, LeafPage
  <2> QED
    BY <2>1, <2>2, <1>3, <1>4, InsertedSorted
<1>7. CASE ~(tuple.key < h.middle.key)
  <2>1. tuple.key = h.middle.key \/ tuple.key > h.middle.key
    BY <1>5, <1>7
  <2>2. tuple.key \notin KeysIn(h.moved)
    BY <2>1, <1>2 DEF SplitPanics
  <2>3. s.left.items = h.kept /\ s.right.items = Inserted(h.moved, tuple)
    BY <1>2, <1>7 DEF SplitLeaf, GoesLeft, LeafPage
  <2> QED
    BY <2>2, <2>3, <1>3, <1>4, InsertedSorted
<1> QED
  BY <1>6, <1>7

\* split_and_insert of a sorted inner node: the halves are sorted, and the
\* separator that goes up is not in the left one.
LEMMA SplitNodeSorted ==
    ASSUME NEW page \in Page, Sorted(page.items), NEW tuple \in Tuple,
           NEW p \in PageID, NEW q \in PageID, page.type = "Node",
           ~SplitPanics(page, tuple), NEW s, s = SplitNode(page, p, q, tuple)
    PROVE  /\ Sorted(s.left.items) /\ Sorted(s.right.items)
           /\ tuple.key \notin KeysIn(page.items) =>
                 /\ s.up.key \notin KeysIn(s.left.items)
                 /\ ToSet(s.left.items) \subseteq ToSet(page.items) \cup {tuple}
                 /\ s.up \in ToSet(page.items) \cup {tuple}
<1>1. page.items \in Seq(Tuple)
  BY DEF Page
<1>2. PICK h : h = SplitHalf(page.items, tuple)
  OBVIOUS
<1>3. /\ h.kept \in Seq(Tuple) /\ h.moved \in Seq(Tuple)
      /\ h.middle \in ToSet(page.items) \cup {tuple}
      /\ ToSet(page.items) = ToSet(h.kept) \cup ToSet(h.moved)
  BY <1>1, <1>2, SplitHalfProperties
<1>4. PICK kept \in Seq(Tuple), moved \in Seq(Tuple), middle \in Tuple :
         kept = h.kept /\ moved = h.moved /\ middle = h.middle
  <2>1. h.middle \in Tuple
    BY <1>1, <1>3, ElementOfSeq, LenProperties DEF ToSet
  <2> QED
    BY <2>1, <1>3
<1>5. /\ Sorted(kept) /\ Sorted(moved)
      /\ tuple.key \notin KeysIn(page.items) => \A a \in KeysIn(kept) : a < middle.key
  <2>1. /\ Sorted(h.kept) /\ Sorted(h.moved)
        /\ tuple.key \notin KeysIn(page.items) =>
              /\ \A a \in KeysIn(h.kept) : a < h.middle.key
              /\ \A b \in KeysIn(h.moved) : h.middle.key <= b
              /\ h.middle = tuple \/ h.middle \in ToSet(h.moved)
              /\ Len(page.items) > 0 /\ page.items[1].key < tuple.key =>
                    Len(h.kept) > 0 /\ h.kept[1] = page.items[1]
    BY <1>1, <1>2, SplitHalfSorted
  <2> QED
    BY <2>1, <1>4
<1>7. tuple.key \in Nat /\ middle.key \in Nat /\ \A k \in KeysIn(kept) : k \in Nat
  <2>1. tuple.key \in Nat /\ middle.key \in Nat
    BY TreeAssumption DEF Tuple
  <2>2. KeysIn(kept) \subseteq Key
    BY <1>4, KeysAreOfTuples
  <2> QED
    BY <2>1, <2>2, TreeAssumption
<1>8. /\ tuple.key < middle.key => tuple.key \notin KeysIn(kept)
      /\ tuple.key > middle.key => tuple.key \notin KeysIn(moved)
  BY <1>2, <1>4 DEF SplitPanics
<1>9. s.up = middle
  BY <1>2, <1>4 DEF SplitNode
<1>10. PICK left : left = IF tuple.key < middle.key THEN Inserted(kept, tuple) ELSE kept
  OBVIOUS
<1>11. PICK right : right = IF tuple.key > middle.key THEN Inserted(moved, tuple) ELSE moved
  OBVIOUS
<1>12. s.left.items = left /\ s.right.items = right
  BY <1>2, <1>4, <1>10, <1>11 DEF SplitNode, NodePage
<1>13. CASE tuple.key < middle.key
  <2>1. left = Inserted(kept, tuple) /\ right = moved
    BY <1>7, <1>10, <1>11, <1>13
  <2>2. tuple.key \notin KeysIn(kept)
    BY <1>8, <1>13
  <2>3. /\ Sorted(left) /\ KeysIn(left) = KeysIn(kept) \cup {tuple.key}
        /\ ToSet(left) = ToSet(kept) \cup {tuple}
    BY <2>1, <2>2, <1>4, <1>5, InsertedSorted
  <2>4. tuple.key \notin KeysIn(page.items) => middle.key \notin KeysIn(left)
    BY <2>3, <1>5, <1>7, <1>13
  <2> QED
    BY <2>1, <2>3, <2>4, <1>3, <1>4, <1>5, <1>9, <1>12
<1>14. CASE ~(tuple.key < middle.key)
  <2>1. left = kept
    BY <1>10, <1>14
  <2>2. Sorted(right)
    <3>1. CASE tuple.key > middle.key
      <4>1. tuple.key \notin KeysIn(moved)
        BY <3>1, <1>8
      <4>2. right = Inserted(moved, tuple)
        BY <3>1, <1>11
      <4> QED
        BY <4>1, <4>2, <1>4, <1>5, InsertedSorted
    <3>2. CASE ~(tuple.key > middle.key)
      BY <3>2, <1>5, <1>11
    <3> QED
      BY <3>1, <3>2
  <2>3. tuple.key \notin KeysIn(page.items) => middle.key \notin KeysIn(kept)
    BY <1>5, <1>7
  <2> QED
    BY <2>1, <2>2, <2>3, <1>3, <1>4, <1>5, <1>9, <1>12
<1> QED
  BY <1>13, <1>14

-----------------------------------------------------------------------------
(* What a step does to the pages. *)

\* A tuple is put into page p, whose keys do not have its key.
PutIn(p, tuple) ==
    /\ p \in DOMAIN pages /\ tuple \in Tuple
    /\ tuple.key \notin KeysIn(pages[p].items)
    /\ DOMAIN pages' = DOMAIN pages
    /\ pages'[p] = [pages[p] EXCEPT !.items = Inserted(@, tuple)]
    /\ \A x \in DOMAIN pages : x # p => pages'[x] = pages[x]

\* A page is added.
Added(page) ==
    /\ DOMAIN pages' = DOMAIN pages \cup {NewID} /\ NewID' = NewID + 1
    /\ pages'[NewID] = page

\* Page p is split, the new tuple going to one of the halves or up.
Halved(p, tuple, s) ==
    /\ p \in DOMAIN pages /\ tuple \in Tuple
    /\ IsLeaf(p) => Filled(p)
    /\ ~SplitPanics(pages[p], tuple)
    /\ s = IF IsLeaf(p) THEN SplitLeaf(pages[p], p, NewID, tuple)
                        ELSE SplitNode(pages[p], p, NewID, tuple)
    /\ Added(s.right) /\ pages'[p] = s.left
    /\ \A x \in DOMAIN pages : x # p => pages'[x] = pages[x]

\* A root is allocated.
RootAdded ==
    /\ Added(ZeroPage)
    /\ \A x \in DOMAIN pages : pages'[x] = pages[x]

\* A root is initialised, whatever was put into it before.
RootMade(r, child) ==
    /\ r \in DOMAIN pages /\ ~IsLeaf(r) /\ child \in DOMAIN pages
    /\ DOMAIN pages' = DOMAIN pages
    /\ pages'[r] = NodePage(<<>>, NULL_PTR, NULL_PTR, child)
    /\ \A x \in DOMAIN pages : x # r => pages'[x] = pages[x]

\* The attempt of insert_recurs.
LEMMA TryInsertDoes ==
    ASSUME IInv, NEW t \in Threads, TryInsert(t), NEW c, c = op[t]
    PROVE  /\ c \in InsertCall /\ InsertOK(c) /\ c.at = "insert"
           /\ UNCHANGED <<dbobjects, begun, aborted>>
           /\ \/ /\ c.tuple.key \in KeysIn(pages[c.page].items)
                 /\ op' = [op EXCEPT ![t] = Panicked] /\ UNCHANGED pages
              \/ PutIn(c.page, c.tuple) /\ op' = [op EXCEPT ![t] = Idle]
              \/ /\ c.tuple.key \notin KeysIn(pages[c.page].items)
                 /\ op' = [op EXCEPT ![t] = [c EXCEPT !.at = "split"]] /\ UNCHANGED pages
<1>1. c.at = "insert" /\ UNCHANGED <<dbobjects, begun, aborted>>
  BY DEF TryInsert
<1>2. c \in CallState /\ CallOK(c)
  BY CallOf
<1>3. c \in InsertCall /\ InsertOK(c)
  BY <1>1, <1>2, CallsApart DEF CallOK
<1>4. c.page \in DOMAIN pages /\ c.tuple \in Tuple
  BY <1>3 DEF InsertCall, InsertOK, PlaceOK
<1>5. ASSUME c.tuple.key \notin KeysIn(pages[c.page].items),
             pages' = [pages EXCEPT ![c.page].items = Inserted(@, c.tuple)]
      PROVE  PutIn(c.page, c.tuple)
  BY <1>4, <1>5 DEF PutIn
<1> QED
  BY <1>1, <1>3, <1>5 DEF TryInsert, Step

\* A page is added by new_page.
LEMMA AllocatedDoes ==
    ASSUME IInv, NEW page,
           NEW P, P = Allocated(page)
    PROVE  /\ NewID \in Nat /\ NewID \notin DOMAIN pages /\ DOMAIN pages \subseteq PageID
           /\ DOMAIN P = DOMAIN pages \cup {NewID}
           /\ DOMAIN P = 0 .. NewID
           /\ P[NewID] = page
           /\ \A x \in DOMAIN pages : P[x] = pages[x]
<1>1. TypeOK /\ PagesFinite
  BY DEF IInv
<1>2. PICK q : q = NewID
  OBVIOUS
<1>3. /\ q \in Nat /\ DOMAIN pages = 0 .. q - 1 /\ q \notin DOMAIN pages
      /\ DOMAIN pages \subseteq PageID
  BY <1>1, <1>2, NewIDProperties
<1>4. /\ DOMAIN P = 0 .. q
      /\ \A x \in 0 .. q : P[x] = IF x \in DOMAIN pages THEN pages[x] ELSE page
  BY <1>2 DEF Allocated, NewID
<1>5. 0 .. q = (0 .. q - 1) \cup {q} /\ q \in 0 .. q
  BY <1>3
<1> QED
  BY <1>2, <1>3, <1>4, <1>5

\* One page more is one number more.
LEMMA AddedCounts ==
    ASSUME IInv, DOMAIN pages' = 0 .. NewID
    PROVE  NewID' = NewID + 1
<1>1. TypeOK /\ PagesFinite
  BY DEF IInv
<1>2. PICK n \in Nat : n = NewID
  BY <1>1, NewIDProperties
<1>3. IsFiniteSet(0 .. n) /\ Cardinality(0 .. n) = n + 1
  <2>1. IsFiniteSet(0 .. n) /\ Cardinality(0 .. n) = IF 0 > n THEN 0 ELSE n - 0 + 1
    BY FS_Interval
  <2> QED
    BY <2>1
<1>4. NewID' = Cardinality(DOMAIN pages')
  BY DEF NewID
<1> QED
  BY <1>2, <1>3, <1>4

\* A call after its split, and one that has initialised the new root.
AfterSplit(c, up) == [c EXCEPT !.at = "parent", !.tuple = up]
InNewRoot(c, r) == [c EXCEPT !.at = "insert", !.page = r]

\* split_and_insert.
LEMMA SplitDoes ==
    ASSUME IInv, NEW t \in Threads, Split(t), NEW c, c = op[t]
    PROVE  /\ c \in InsertCall /\ InsertOK(c) /\ c.at = "split"
           /\ UNCHANGED <<dbobjects, begun>>
           /\ \/ SplitPanics(pages[c.page], c.tuple) /\ UNCHANGED <<pages, op>>
              \/ /\ aborted' = aborted
                 /\ \E s : /\ Halved(c.page, c.tuple, s)
                           /\ op' = [op EXCEPT ![t] = AfterSplit(c, s.up)]
<1>1. c.at = "split" /\ UNCHANGED <<dbobjects, begun>>
  BY DEF Split, history
<1>2. c \in CallState /\ CallOK(c) /\ TypeOK
  BY CallOf DEF IInv
<1>3. c \in InsertCall /\ InsertOK(c)
  BY <1>1, <1>2, CallsApart DEF CallOK
<1>4. /\ c.page \in DOMAIN pages /\ c.tuple \in Tuple
      /\ IsLeaf(c.page) => Filled(c.page)
  BY <1>1, <1>3 DEF InsertCall, InsertOK, PlaceOK
<1>5. CASE SplitPanics(pages[c.page], c.tuple)
  BY <1>1, <1>3, <1>5 DEF Split
<1>6. CASE ~SplitPanics(pages[c.page], c.tuple)
  <2>1. PICK s : s = IF pages[c.page].type = "Leaf"
                     THEN SplitLeaf(pages[c.page], c.page, NewID, c.tuple)
                     ELSE SplitNode(pages[c.page], c.page, NewID, c.tuple)
    OBVIOUS
  <2>2. PICK P : P = Allocated(s.right)
    OBVIOUS
  <2>3. /\ pages' = [P EXCEPT ![c.page] = s.left]
        /\ op' = [op EXCEPT ![t] = AfterSplit(c, s.up)]
        /\ aborted' = aborted
    BY <2>1, <2>2, <1>6 DEF Split, Step, AfterSplit
  <2>4. /\ NewID \in Nat /\ NewID \notin DOMAIN pages
        /\ DOMAIN P = DOMAIN pages \cup {NewID}
        /\ DOMAIN P = 0 .. NewID
        /\ P[NewID] = s.right
        /\ \A x \in DOMAIN pages : P[x] = pages[x]
    BY <2>2, AllocatedDoes
  <2>5. DOMAIN pages' = 0 .. NewID
    BY <2>3, <2>4
  <2>6. NewID' = NewID + 1
    BY <2>5, AddedCounts
  <2>7. /\ DOMAIN pages' = DOMAIN pages \cup {NewID}
        /\ pages'[NewID] = s.right /\ pages'[c.page] = s.left
        /\ \A x \in DOMAIN pages : x # c.page => pages'[x] = pages[x]
    BY <2>3, <2>4, <1>4
  <2>8. Halved(c.page, c.tuple, s)
    BY <2>1, <2>6, <2>7, <1>4, <1>6 DEF Halved, Added, IsLeaf
  <2> QED
    BY <2>3, <2>8, <1>1, <1>3
<1> QED
  BY <1>5, <1>6

\* get_parent of a call that split the root.
LEMMA PublishRootDoes ==
    ASSUME IInv, NEW t \in Threads, PublishRoot(t), NEW c, c = op[t]
    PROVE  /\ c \in InsertCall /\ InsertOK(c) /\ c.at = "parent" /\ c.parents = <<>>
           /\ UNCHANGED <<begun, aborted>>
           /\ RootAdded
           /\ dbobjects' = [dbobjects EXCEPT ![c.object] = NewID]
           /\ op' = [op EXCEPT ![t] = [at |-> "init", root |-> NewID, call |-> c]]
<1>1. /\ c.at = "parent" /\ c.parents = <<>> /\ UNCHANGED <<begun, aborted>>
      /\ dbobjects' = [dbobjects EXCEPT ![c.object] = NewID]
      /\ op' = [op EXCEPT ![t] = [at |-> "init", root |-> NewID, call |-> c]]
      /\ pages' = Allocated(ZeroPage)
  BY DEF PublishRoot, Step, history
<1>2. c \in CallState /\ CallOK(c)
  BY CallOf
<1>3. c \in InsertCall /\ InsertOK(c)
  BY <1>1, <1>2, CallsApart DEF CallOK
<1>4. PICK page : page = ZeroPage
  OBVIOUS
<1>5. pages' = Allocated(page)
  BY <1>1, <1>4
<1>6. /\ DOMAIN pages' = DOMAIN pages \cup {NewID}
      /\ DOMAIN pages' = 0 .. NewID
      /\ pages'[NewID] = page
      /\ \A x \in DOMAIN pages : pages'[x] = pages[x]
  <2>1. PICK P : P = pages' /\ P = Allocated(page)
    BY <1>5
  <2>2. DOMAIN P = DOMAIN pages \cup {NewID} /\ DOMAIN P = 0 .. NewID
    BY <2>1, AllocatedDoes
  <2>3. P[NewID] = page /\ \A x \in DOMAIN pages : P[x] = pages[x]
    BY <2>1, AllocatedDoes
  <2> QED
    BY <2>1, <2>2, <2>3
<1>7. NewID' = NewID + 1
  BY <1>6, AddedCounts
<1> QED
  BY <1>1, <1>3, <1>4, <1>6, <1>7 DEF RootAdded, Added

LEMMA InitRootDoes ==
    ASSUME IInv, NEW t \in Threads, InitRoot(t), NEW c, c = op[t].call,
           NEW r, r = op[t].root
    PROVE  /\ op[t] \in RootCall /\ RootOK(op[t])
           /\ c \in InsertCall /\ InsertOK(c) /\ c.at = "parent"
           /\ UNCHANGED <<dbobjects, begun, aborted>>
           /\ RootMade(r, c.page)
           /\ op' = [op EXCEPT ![t] = InNewRoot(c, r)]
<1>1. PICK d : d = op[t]
  OBVIOUS
<1>2. /\ d.at = "init" /\ UNCHANGED <<dbobjects, begun, aborted>>
      /\ pages' = [pages EXCEPT ![r] = NodePage(<<>>, NULL_PTR, NULL_PTR, c.page)]
      /\ op' = [op EXCEPT ![t] = InNewRoot(c, r)]
  BY <1>1 DEF InitRoot, Step, history, InNewRoot
<1>3. d \in CallState /\ CallOK(d)
  BY <1>1, CallOf
<1>4. d \in RootCall /\ RootOK(d)
  BY <1>2, <1>3, CallsApart DEF CallOK
<1>5. /\ c \in InsertCall /\ InsertOK(c) /\ c.at = "parent"
      /\ r \in DOMAIN pages /\ ~IsLeaf(r)
  BY <1>1, <1>4 DEF RootCall, RootOK
<1>6. c.page \in DOMAIN pages
  BY <1>5 DEF InsertOK, PlaceOK
<1>7. RootMade(r, c.page)
  BY <1>2, <1>5, <1>6 DEF RootMade
<1> QED
  BY <1>1, <1>2, <1>4, <1>5, <1>7

\* What a step does to the pages: nothing, or one of these.
PagesStep ==
    \/ pages' = pages
    \/ \E p, tuple : PutIn(p, tuple)
    \/ \E p, tuple, s : Halved(p, tuple, s)
    \/ RootAdded
    \/ \E r, child : RootMade(r, child)

LEMMA PagesChange ==
    ASSUME IInv, [Next]_vars
    PROVE  PagesStep
<1>1. CASE UNCHANGED vars
  BY <1>1 DEF vars, PagesStep
<1>2. CASE Rest
  BY <1>2 DEF Rest, vars, PagesStep
<1>3. ASSUME NEW t \in Inserters, NEW o \in ObjectID, NEW k \in Key, BeginInsert(t, o, k)
      PROVE  PagesStep
  BY <1>3 DEF BeginInsert, PagesStep
<1>4. ASSUME NEW t \in Scanners, NEW o \in ObjectID, NEW a \in Key, NEW b \in Key,
             BeginScan(t, o, a, b)
      PROVE  PagesStep
  BY <1>4 DEF BeginScan, PagesStep
<1>5. ASSUME NEW t \in Scanners, ScanStep(t) PROVE PagesStep
  BY <1>5 DEF ScanStep, Descend, Position, Advance, Fetch, EndScan, PagesStep
<1>6. ASSUME NEW t \in Inserters, InsertStep(t) PROVE PagesStep
  <2>0. t \in Threads
    BY DEF Threads
  <2>1. CASE Descend(t) \/ PopParent(t)
    BY <2>1 DEF Descend, PopParent, PagesStep
  <2>2. CASE TryInsert(t)
    BY <2>0, <2>2, TryInsertDoes DEF PagesStep
  <2>3. CASE Split(t)
    BY <2>0, <2>3, SplitDoes DEF PagesStep
  <2>4. CASE PublishRoot(t)
    BY <2>0, <2>4, PublishRootDoes DEF PagesStep
  <2>5. CASE InitRoot(t)
    BY <2>0, <2>5, InitRootDoes DEF PagesStep
  <2> QED
    BY <1>6, <2>1, <2>2, <2>3, <2>4, <2>5 DEF InsertStep
<1> QED
  BY <1>1, <1>2, <1>3, <1>4, <1>5, <1>6 DEF Next

LEMMA StepSorts ==
    ASSUME IInv, PagesStep, PagesSorted
    PROVE  PagesSorted'
<1>1. \A p \in DOMAIN pages : /\ pages[p] \in Page /\ pages[p].items \in Seq(Tuple)
                              /\ Sorted(pages[p].items) /\ p \in PageID
  BY NewIDProperties DEF IInv, TypeOK, PagesSorted, Page
<1>2. NewID \in PageID
  BY NewIDProperties DEF IInv, PageID
<1>3. CASE pages' = pages
  BY <1>3 DEF PagesSorted
<1>4. ASSUME NEW p, NEW tuple, PutIn(p, tuple) PROVE PagesSorted'
  <2>1. Sorted(Inserted(pages[p].items, tuple))
    BY <1>1, <1>4, InsertedSorted DEF PutIn
  <2>2. pages'[p].items = Inserted(pages[p].items, tuple)
    BY <1>1, <1>4 DEF PutIn, Page
  <2> QED
    BY <2>1, <2>2, <1>1, <1>4 DEF PagesSorted, PutIn
<1>5. ASSUME NEW p, NEW tuple, NEW s, Halved(p, tuple, s) PROVE PagesSorted'
  <2>1. Sorted(s.left.items) /\ Sorted(s.right.items)
    <3>0. PICK page \in Page, q \in PageID : page = pages[p] /\ q = NewID
      BY <1>1, <1>2, <1>5 DEF Halved
    <3>3. /\ Sorted(page.items) /\ p \in PageID /\ tuple \in Tuple
          /\ ~SplitPanics(page, tuple)
      BY <3>0, <1>1, <1>5 DEF Halved
    <3>1. CASE IsLeaf(p)
      <4>1. page.type = "Leaf" /\ s = SplitLeaf(page, p, q, tuple)
        BY <3>0, <1>5, <3>1 DEF Halved, IsLeaf
      <4> QED
        BY <4>1, <3>0, <3>3, LeafHalvesSorted
    <3>2. CASE ~IsLeaf(p)
      <4>1. page.type = "Node" /\ s = SplitNode(page, p, q, tuple)
        BY <3>0, <1>5, <3>2 DEF Halved, IsLeaf, Page
      <4> QED
        BY <4>1, <3>3, SplitNodeSorted
    <3> QED
      BY <3>1, <3>2
  <2> QED
    BY <2>1, <1>1, <1>5 DEF PagesSorted, Halved, Added
<1>6. Sorted(<<>>)
  BY DEF Sorted
<1>7. CASE RootAdded
  BY <1>1, <1>6, <1>7 DEF PagesSorted, RootAdded, Added, ZeroPage
<1>8. ASSUME NEW r, NEW child, RootMade(r, child) PROVE PagesSorted'
  BY <1>1, <1>6, <1>8 DEF PagesSorted, RootMade, NodePage
<1> QED
  BY <1>3, <1>4, <1>5, <1>7, <1>8 DEF PagesStep

\* Two invariants of the specification, one with the help of the other.
LEMMA InitSorts == Init => PagesSorted
BY DEF Init, PagesSorted, Sorted, LeafPage

\* The tuples of every page are in key order, as the searches of a page take
\* them to be: insertions and splits put every tuple where the order has it
\* (search.rs 14-90, 218-249).
THEOREM PagesInOrder == Spec => []PagesSorted
<1>1. PagesSorted /\ IInv /\ [Next]_vars => PagesSorted'
  BY PagesChange, StepSorts
<1> QED
  BY <1>1, InitSorts, Invariant, PTL DEF Spec

-----------------------------------------------------------------------------
(* The chain of leaves: every leaf has a rank in the chain of its object. *)

\* Leaf p of an object with len leaves: where its sibling pointers lead.
Linked(p, own, idx, len) ==
    /\ own[p] \in ObjectID /\ idx[p] \in 1 .. len[own[p]]
    /\ idx[p] = len[own[p]] => pages[p].right = NULL_PTR
    /\ idx[p] # len[own[p]] =>
          \E r \in DOMAIN pages : /\ pages[p].right = r /\ IsLeaf(r)
                                  /\ own[r] = own[p] /\ idx[r] = idx[p] + 1
    /\ pages[p].left # NULL_PTR =>
          \E l \in DOMAIN pages : /\ pages[p].left = l /\ IsLeaf(l)
                                  /\ own[l] = own[p] /\ idx[l] < idx[p]

Ranked(own, idx, len) ==
    /\ own \in [PageID -> Nat] /\ idx \in [PageID -> Nat] /\ len \in [ObjectID -> Nat]
    /\ \A o \in ObjectID : own[o] = o /\ idx[o] = 1 /\ len[o] \in 1 .. NewID
    /\ \A p \in DOMAIN pages : IsLeaf(p) => Linked(p, own, idx, len)
    /\ \A p, q \in DOMAIN pages :
          IsLeaf(p) /\ IsLeaf(q) /\ own[p] = own[q] /\ idx[p] = idx[q] => p = q

Ranks == \E own, idx, len : Ranked(own, idx, len)

\* A step that keeps the siblings of the leaves keeps their ranks.
LEMMA SameRanks ==
    ASSUME IInv, NEW own, NEW idx, NEW len, Ranked(own, idx, len),
           DOMAIN pages \subseteq DOMAIN pages', NewID' \in Nat, NewID' >= NewID,
           \A p \in DOMAIN pages : /\ IsLeaf(p)' <=> IsLeaf(p)
                                   /\ IsLeaf(p) => /\ pages'[p].left = pages[p].left
                                                   /\ pages'[p].right = pages[p].right,
           \A p \in DOMAIN pages' : IsLeaf(p)' => p \in DOMAIN pages
    PROVE  Ranked(own, idx, len)'
<1>1. NewID \in Nat
  BY NewIDProperties DEF IInv
<1>2. \A o \in ObjectID : len[o] \in 1 .. NewID'
  <2> TAKE o \in ObjectID
  <2>1. len[o] \in 1 .. NewID
    BY DEF Ranked
  <2>2. PICK n \in Nat, m \in Nat : n = NewID /\ m = NewID'
    BY <1>1
  <2> QED
    BY <2>1, <2>2
<1>3. \A p \in DOMAIN pages' : IsLeaf(p)' => Linked(p, own, idx, len)'
  <2> SUFFICES ASSUME NEW p \in DOMAIN pages', IsLeaf(p)' PROVE Linked(p, own, idx, len)'
    OBVIOUS
  <2>1. p \in DOMAIN pages /\ IsLeaf(p) /\ Linked(p, own, idx, len)
    BY DEF Ranked
  <2> QED
    BY <2>1 DEF Linked
<1>4. \A p, q \in DOMAIN pages' :
         IsLeaf(p)' /\ IsLeaf(q)' /\ own[p] = own[q] /\ idx[p] = idx[q] => p = q
  BY DEF Ranked
<1>5. /\ own \in [PageID -> Nat] /\ idx \in [PageID -> Nat] /\ len \in [ObjectID -> Nat]
      /\ \A o \in ObjectID : own[o] = o /\ idx[o] = 1
  BY DEF Ranked
<1> QED
  BY <1>2, <1>3, <1>4, <1>5 DEF Ranked

\* A leaf that is split gets its right half as next leaf.
LEMMA SplitRanks ==
    ASSUME IInv, NEW own, NEW idx, NEW len, Ranked(own, idx, len),
           NEW p, NEW tuple, NEW s, Halved(p, tuple, s), IsLeaf(p)
    PROVE  Ranks'
<1>1. PICK q \in PageID : q = NewID
  BY NewIDProperties DEF IInv, PageID
<1>2. /\ q \notin DOMAIN pages /\ DOMAIN pages \subseteq PageID
      /\ p \in DOMAIN pages /\ DOMAIN pages' = DOMAIN pages \cup {q} /\ NewID' = q + 1
      /\ s = SplitLeaf(pages[p], p, q, tuple)
      /\ pages'[q] = s.right /\ pages'[p] = s.left
      /\ \A x \in DOMAIN pages : x # p => pages'[x] = pages[x]
  BY <1>1, NewIDProperties DEF IInv, Halved, Added
<1>3. /\ pages'[p].type = "Leaf" /\ pages'[p].left = pages[p].left /\ pages'[p].right = q
      /\ pages'[q].type = "Leaf" /\ pages'[q].left = p /\ pages'[q].right = pages[p].right
  BY <1>2 DEF SplitLeaf, LeafPage
<1>4. \A x \in DOMAIN pages : IsLeaf(x)' <=> IsLeaf(x)
  BY <1>2, <1>3 DEF IsLeaf
<1>5. /\ own \in [PageID -> Nat] /\ idx \in [PageID -> Nat] /\ len \in [ObjectID -> Nat]
      /\ \A o \in ObjectID : own[o] = o /\ idx[o] = 1 /\ len[o] \in 1 .. q
      /\ \A x \in DOMAIN pages : IsLeaf(x) => Linked(x, own, idx, len)
      /\ \A x, y \in DOMAIN pages :
            IsLeaf(x) /\ IsLeaf(y) /\ own[x] = own[y] /\ idx[x] = idx[y] => x = y
  BY <1>1 DEF Ranked
<1>6. \A o \in ObjectID : o \in DOMAIN pages /\ IsLeaf(o)
  BY DEF IInv, FirstLeaves
<1>7. PICK b \in ObjectID, n \in Nat : b = own[p] /\ n = idx[p]
  BY <1>2, <1>5 DEF Linked
<1> DEFINE own2 == [x \in PageID |-> IF x = q THEN b ELSE own[x]]
           after(x) == own[x] = b /\ idx[x] > n
           idx2 == [x \in PageID |-> IF x = q THEN n + 1
                                     ELSE IF after(x) THEN idx[x] + 1 ELSE idx[x]]
           len2 == [o \in ObjectID |-> IF o = b THEN len[o] + 1 ELSE len[o]]
<1>8. /\ own2 \in [PageID -> Nat] /\ idx2 \in [PageID -> Nat] /\ len2 \in [ObjectID -> Nat]
  <2>1. own2 \in [PageID -> Nat]
    BY <1>5, <1>7 DEF ObjectID
  <2>2. idx2 \in [PageID -> Nat]
    <3>1. \A x \in PageID : idx[x] \in Nat /\ idx[x] + 1 \in Nat /\ n + 1 \in Nat
      BY <1>5
    <3> QED
      BY <3>1
  <2>3. len2 \in [ObjectID -> Nat]
    <3>1. \A o \in ObjectID : len[o] \in Nat /\ len[o] + 1 \in Nat
      BY <1>5
    <3> QED
      BY <3>1
  <2> QED
    BY <2>1, <2>2, <2>3
<1>9. /\ own2[q] = b /\ idx2[q] = n + 1 /\ len2[b] = len[b] + 1
      /\ \A x \in DOMAIN pages : /\ own2[x] = own[x]
                                 /\ idx2[x] = IF after(x) THEN idx[x] + 1 ELSE idx[x]
                                 /\ idx[x] \in Nat
      /\ \A o \in ObjectID : o # b => len2[o] = len[o]
  BY <1>2, <1>5, <1>7
<1>10. n \in 1 .. len[b] /\ len[b] \in Nat /\ ~after(p)
  BY <1>2, <1>5, <1>7 DEF Linked
<1> HIDE DEF own2, idx2, len2
<1>11. \A o \in ObjectID : own2[o] = o /\ idx2[o] = 1 /\ len2[o] \in 1 .. NewID'
  <2> TAKE o \in ObjectID
  <2>1. own2[o] = o /\ idx2[o] = 1
    BY <1>5, <1>6, <1>9, <1>10
  <2>2. len[o] \in 1 .. q /\ (len2[o] = len[o] \/ len2[o] = len[o] + 1)
    BY <1>5, <1>9
  <2>3. len2[o] \in 1 .. q + 1
    BY <2>2 DEF PageID
  <2> QED
    BY <2>1, <2>3, <1>2
<1>12. \A x, y \in DOMAIN pages' :
          IsLeaf(x)' /\ IsLeaf(y)' /\ own2[x] = own2[y] /\ idx2[x] = idx2[y] => x = y
  <2>1. ASSUME NEW x \in DOMAIN pages, NEW y \in DOMAIN pages,
               IsLeaf(x), IsLeaf(y), own2[x] = own2[y], idx2[x] = idx2[y]
        PROVE  x = y
    <3>1. own[x] = own[y] /\ idx[x] \in Nat /\ idx[y] \in Nat
      BY <1>9, <2>1
    <3>2. idx[x] = idx[y]
      BY <3>1, <2>1, <1>9
    <3> QED
      BY <3>1, <3>2, <2>1, <1>5
  <2>2. ASSUME NEW x \in DOMAIN pages, IsLeaf(x), own2[x] = own2[q]
        PROVE  idx2[x] # idx2[q]
    BY <2>2, <1>9
  <2> QED
    BY <2>1, <2>2, <1>2, <1>4
<1>13. Linked(p, own2, idx2, len2)'
  <2>1. own2[p] = b /\ idx2[p] = n /\ own2[q] = own2[p] /\ idx2[q] = idx2[p] + 1
    BY <1>2, <1>7, <1>9, <1>10
  <2>2. n \in 1 .. len2[b] /\ n # len2[b]
    BY <1>9, <1>10
  <2>3. pages'[p].right = q /\ IsLeaf(q)' /\ q \in DOMAIN pages'
    BY <1>2, <1>3 DEF IsLeaf
  <2>4. pages[p].left # NULL_PTR =>
           \E l \in DOMAIN pages : /\ pages[p].left = l /\ IsLeaf(l)
                                   /\ own[l] = b /\ idx[l] < n
    BY <1>2, <1>5, <1>7 DEF Linked
  <2>5. pages'[p].left # NULL_PTR =>
           \E l \in DOMAIN pages' : /\ pages'[p].left = l /\ IsLeaf(l)'
                                    /\ own2[l] = b /\ idx2[l] < n
    BY <2>4, <1>2, <1>3, <1>4, <1>9
  <2> QED
    BY <2>1, <2>2, <2>3, <2>5 DEF Linked
<1>14. Linked(q, own2, idx2, len2)'
  <2>1. own2[p] = b /\ idx2[p] = n /\ IsLeaf(p)' /\ p \in DOMAIN pages' /\ n < idx2[q]
    BY <1>2, <1>4, <1>7, <1>9, <1>10
  <2>2. idx2[q] \in 1 .. len2[b] /\ (idx2[q] = len2[b] <=> n = len[b])
    BY <1>9, <1>10
  <2>3. n = len[b] => pages'[q].right = NULL_PTR
    BY <1>2, <1>3, <1>5, <1>7 DEF Linked
  <2>4. n # len[b] => \E r \in DOMAIN pages : /\ pages[p].right = r /\ IsLeaf(r)
                                              /\ own[r] = b /\ idx[r] = n + 1
    BY <1>2, <1>5, <1>7 DEF Linked
  <2>5. n # len[b] => \E r \in DOMAIN pages' : /\ pages'[q].right = r /\ IsLeaf(r)'
                                               /\ own2[r] = b /\ idx2[r] = idx2[q] + 1
    BY <2>4, <1>2, <1>3, <1>4, <1>9
  <2>6. own2[q] = b /\ pages'[q].left = p
    BY <1>3, <1>9
  <2> QED
    BY <2>1, <2>2, <2>3, <2>5, <2>6 DEF Linked
<1>15. ASSUME NEW x \in DOMAIN pages, x # p, IsLeaf(x) PROVE Linked(x, own2, idx2, len2)'
  <2>1. PICK a \in ObjectID, m \in Nat : a = own[x] /\ m = idx[x]
    BY <1>5, <1>9, <1>15 DEF Linked
  <2>2. /\ m \in 1 .. len[a] /\ len[a] \in Nat
        /\ m = len[a] => pages[x].right = NULL_PTR
        /\ m # len[a] => \E r \in DOMAIN pages : /\ pages[x].right = r /\ IsLeaf(r)
                                                 /\ own[r] = a /\ idx[r] = m + 1
        /\ pages[x].left # NULL_PTR =>
              \E l \in DOMAIN pages : /\ pages[x].left = l /\ IsLeaf(l)
                                      /\ own[l] = a /\ idx[l] < m
    BY <2>1, <1>5, <1>15 DEF Linked
  <2>3. a = b => m # n
    BY <2>1, <1>2, <1>5, <1>7, <1>15
  <2>4. PICK m2 \in Nat : m2 = idx2[x] /\ m2 = IF a = b /\ m > n THEN m + 1 ELSE m
    BY <2>1, <1>9
  <2>5. own2[x] = a /\ m2 \in 1 .. len2[a] /\ (m2 = len2[a] <=> m = len[a])
    BY <2>1, <2>2, <2>3, <2>4, <1>9, <1>10
  <2>6. pages'[x] = pages[x] /\ IsLeaf(x)'
    BY <1>2, <1>4, <1>15
  <2>7. m # len[a] => \E r \in DOMAIN pages' : /\ pages'[x].right = r /\ IsLeaf(r)'
                                               /\ own2[r] = a /\ idx2[r] = m2 + 1
    <3> SUFFICES ASSUME m # len[a]
                 PROVE  \E r \in DOMAIN pages' : /\ pages'[x].right = r /\ IsLeaf(r)'
                                                 /\ own2[r] = a /\ idx2[r] = m2 + 1
      OBVIOUS
    <3>1. PICK r \in DOMAIN pages : /\ pages[x].right = r /\ IsLeaf(r)
                                    /\ own[r] = a /\ idx[r] = m + 1
      BY <2>2
    <3>2. idx2[r] = m2 + 1 /\ own2[r] = a
      BY <3>1, <2>3, <2>4, <1>9
    <3> QED
      BY <3>1, <3>2, <2>6, <1>2, <1>4
  <2>8. pages[x].left # NULL_PTR =>
           \E l \in DOMAIN pages' : /\ pages'[x].left = l /\ IsLeaf(l)'
                                    /\ own2[l] = a /\ idx2[l] < m2
    <3> SUFFICES ASSUME pages[x].left # NULL_PTR
                 PROVE  \E l \in DOMAIN pages' : /\ pages'[x].left = l /\ IsLeaf(l)'
                                                 /\ own2[l] = a /\ idx2[l] < m2
      OBVIOUS
    <3>1. PICK l \in DOMAIN pages : /\ pages[x].left = l /\ IsLeaf(l)
                                    /\ own[l] = a /\ idx[l] < m
      BY <2>2
    <3>2. idx2[l] < m2 /\ own2[l] = a
      BY <3>1, <2>4, <1>9
    <3> QED
      BY <3>1, <3>2, <2>6, <1>2, <1>4
  <2> QED
    BY <2>2, <2>4, <2>5, <2>6, <2>7, <2>8 DEF Linked
<1>16. \A x \in DOMAIN pages' : IsLeaf(x)' => Linked(x, own2, idx2, len2)'
  BY <1>2, <1>4, <1>13, <1>14, <1>15
<1>17. Ranked(own2, idx2, len2)'
  BY <1>8, <1>11, <1>12, <1>16 DEF Ranked
<1> QED
  BY <1>17 DEF Ranks

\* What a change of one page that is no split of a leaf does to the leaves.
LEMMA StepRanks ==
    ASSUME IInv, PagesStep, Ranks
    PROVE  Ranks'
<1>1. PICK own, idx, len : Ranked(own, idx, len)
  BY DEF Ranks
<1>2. /\ NewID \in Nat /\ NewID \notin DOMAIN pages
      /\ \A p \in DOMAIN pages : pages[p] \in Page
  BY NewIDProperties DEF IInv, TypeOK
<1>3. SUFFICES ASSUME ~\E p, tuple, s : Halved(p, tuple, s) /\ IsLeaf(p)
               PROVE  Ranked(own, idx, len)'
  BY <1>1, SplitRanks DEF Ranks
<1>4. CASE pages' = pages
  <2>1. NewID' = NewID /\ \A p : IsLeaf(p)' <=> IsLeaf(p)
    BY <1>4 DEF NewID, IsLeaf
  <2> QED
    BY <2>1, <1>1, <1>2, <1>4, SameRanks
<1>5. ASSUME DOMAIN pages' = DOMAIN pages, NEW p \in DOMAIN pages,
             \A x \in DOMAIN pages : x # p => pages'[x] = pages[x],
             pages'[p].type = pages[p].type,
             IsLeaf(p) => pages'[p].left = pages[p].left /\ pages'[p].right = pages[p].right
      PROVE  Ranked(own, idx, len)'
  <2>1. NewID' = NewID
    BY <1>5 DEF NewID
  <2>2. \A x \in DOMAIN pages : /\ IsLeaf(x)' <=> IsLeaf(x)
                                /\ IsLeaf(x) => /\ pages'[x].left = pages[x].left
                                                /\ pages'[x].right = pages[x].right
    BY <1>5 DEF IsLeaf
  <2> QED
    BY <2>1, <2>2, <1>1, <1>2, <1>5, SameRanks
<1>6. ASSUME NEW page, Added(page), page.type # "Leaf",
             \A x \in DOMAIN pages : /\ pages'[x].type = pages[x].type
                                     /\ IsLeaf(x) => pages'[x] = pages[x]
      PROVE  Ranked(own, idx, len)'
  <2>1. /\ DOMAIN pages \subseteq DOMAIN pages' /\ NewID' \in Nat /\ NewID' >= NewID
    BY <1>2, <1>6 DEF Added
  <2>2. \A x \in DOMAIN pages : /\ IsLeaf(x)' <=> IsLeaf(x)
                                /\ IsLeaf(x) => /\ pages'[x].left = pages[x].left
                                                /\ pages'[x].right = pages[x].right
    BY <1>6 DEF IsLeaf
  <2>3. \A x \in DOMAIN pages' : IsLeaf(x)' => x \in DOMAIN pages
    BY <1>6 DEF IsLeaf, Added
  <2> QED
    BY <2>1, <2>2, <2>3, <1>1, SameRanks
<1>7. ASSUME NEW p, NEW tuple, PutIn(p, tuple) PROVE Ranked(own, idx, len)'
  <2>1. /\ pages'[p].type = pages[p].type
        /\ pages'[p].left = pages[p].left /\ pages'[p].right = pages[p].right
    BY <1>2, <1>7 DEF PutIn, Page
  <2> QED
    BY <2>1, <1>5, <1>7 DEF PutIn
<1>8. ASSUME NEW p, NEW tuple, NEW s, Halved(p, tuple, s) PROVE Ranked(own, idx, len)'
  <2>1. ~IsLeaf(p)
    BY <1>3, <1>8
  <2>2. /\ s.left.type = "Node" /\ s.right.type = "Node"
    BY <2>1, <1>8 DEF Halved, SplitNode, NodePage
  <2>3. pages[p].type = "Node"
    BY <2>1, <1>2, <1>8 DEF IsLeaf, Halved, Page
  <2>4. \A x \in DOMAIN pages : /\ pages'[x].type = pages[x].type
                                /\ IsLeaf(x) => pages'[x] = pages[x]
    BY <2>1, <2>2, <2>3, <1>8 DEF Halved
  <2> QED
    BY <2>2, <2>4, <1>6, <1>8 DEF Halved
<1>9. CASE RootAdded
  <2>1. PICK page : page = ZeroPage
    OBVIOUS
  <2>2. page.type = "Node"
    BY <2>1 DEF ZeroPage
  <2>3. Added(page) /\ \A x \in DOMAIN pages : pages'[x] = pages[x]
    BY <2>1, <1>9 DEF RootAdded
  <2> QED
    BY <2>2, <2>3, <1>6
<1>10. ASSUME NEW r, NEW child, RootMade(r, child) PROVE Ranked(own, idx, len)'
  <2>1. r \in DOMAIN pages /\ ~IsLeaf(r) /\ pages[r].type = "Node" /\ pages'[r].type = "Node"
    BY <1>2, <1>10 DEF RootMade, NodePage, IsLeaf, Page
  <2> QED
    BY <2>1, <1>5, <1>10 DEF RootMade
<1> QED
  BY <1>4, <1>7, <1>8, <1>9, <1>10 DEF PagesStep

LEMMA InitRanks == Init => Ranks
<1> SUFFICES ASSUME Init PROVE Ranks
  OBVIOUS
<1>1. /\ DOMAIN pages = ObjectID
      /\ \A p \in ObjectID : pages[p] = LeafPage(<<>>, NULL_PTR, NULL_PTR)
  BY DEF Init
<1>2. \A p \in ObjectID : pages[p].left = NULL_PTR /\ pages[p].right = NULL_PTR
  BY <1>1 DEF LeafPage
<1>3. NewID \in Nat /\ 0 \in DOMAIN pages /\ DOMAIN pages = 0 .. NewID - 1
  BY InitIInv, NewIDProperties DEF IInv
<1>4. PICK n \in Nat : n = NewID /\ 1 <= n
  BY <1>3
<1> DEFINE own == [p \in PageID |-> p]
           idx == [p \in PageID |-> 1]
           len == [o \in ObjectID |-> 1]
<1>5. ObjectID \subseteq Nat /\ PageID = Nat
  BY DEF ObjectID, PageID
<1>6. /\ own \in [PageID -> Nat] /\ idx \in [PageID -> Nat] /\ len \in [ObjectID -> Nat]
      /\ \A o \in ObjectID : own[o] = o /\ idx[o] = 1 /\ len[o] = 1 /\ len[o] \in 1 .. NewID
  BY <1>4, <1>5
<1> HIDE DEF own, idx, len
<1>7. \A p \in DOMAIN pages : Linked(p, own, idx, len)
  BY <1>1, <1>2, <1>6 DEF Linked
<1>8. Ranked(own, idx, len)
  BY <1>1, <1>6, <1>7 DEF Ranked
<1> QED
  BY <1>8 DEF Ranks

\* The leaves of every object form one chain: from its first leaf the right
\* pointers go through all of its leaves, whatever splits overlapped, and a left
\* pointer leads back along it (218-249).
THEOREM LeavesFormChains == Spec => []Ranks
<1>1. Ranks /\ IInv /\ [Next]_vars => Ranks'
  BY PagesChange, StepRanks
<1> QED
  BY <1>1, InitRanks, Invariant, PTL DEF Spec

-----------------------------------------------------------------------------
(* Recursion on a number of steps. *)

\* A function that takes n to what step n makes of its value at n - 1.
Iteration(g, N, first, f) ==
    /\ DOMAIN g = 0 .. N /\ g[0] = first
    /\ \A n \in 1 .. N : g[n] = f[n][g[n - 1]]

LEMMA Iterates ==
    ASSUME NEW D, NEW first \in D, NEW f, \A n \in Nat : f[n] \in [D -> D],
           NEW N \in Nat
    PROVE  \E g \in [0 .. N -> D] : Iteration(g, N, first, f)
<1> DEFINE Fails(n) == ~\E g \in [0 .. n -> D] : Iteration(g, n, first, f)
           I == {n \in Nat : Fails(n)}
<1>1. SUFFICES ASSUME I # {} PROVE FALSE
  OBVIOUS
<1>2. PICK n \in I : \A y \in I : n <= y
  <2> HIDE DEF I
  <2>1. I \in SUBSET Nat
    BY DEF I
  <2> QED
    BY <2>1, <1>1, Least
<1>3. n \in Nat /\ Fails(n)
  BY DEF I
<1>4. n # 0
  <2>1. PICK g : g = [i \in 0 .. 0 |-> first]
    OBVIOUS
  <2>2. g \in [0 .. 0 -> D] /\ Iteration(g, 0, first, f)
    BY <2>1 DEF Iteration
  <2>3. ~Fails(0)
    BY <2>2
  <2> QED
    BY <2>3, <1>3
<1>5. PICK m \in Nat : n = m + 1
  BY <1>3, <1>4
<1>6. ~Fails(m)
  BY <1>2, <1>5 DEF I
<1>7. PICK g \in [0 .. m -> D] : Iteration(g, m, first, f)
  BY <1>6
<1>8. PICK h : h = [i \in 0 .. n |-> IF i = n THEN f[n][g[m]] ELSE g[i]]
  OBVIOUS
<1>9. \A i \in 0 .. m : h[i] = g[i] /\ g[i] \in D
  BY <1>5, <1>8
<1>10. h[n] = f[n][g[m]] /\ f[n][g[m]] \in D
  BY <1>5, <1>8, <1>9
<1>11. h \in [0 .. n -> D]
  BY <1>5, <1>8, <1>9, <1>10
<1>12. Iteration(h, n, first, f)
  <2>1. g[0] = first /\ \A i \in 1 .. m : g[i] = f[i][g[i - 1]]
    BY <1>7 DEF Iteration
  <2>2. h[0] = first /\ DOMAIN h = 0 .. n
    <3>1. 0 \in 0 .. m
      OBVIOUS
    <3> QED
      BY <3>1, <2>1, <1>8, <1>9
  <2>3. ASSUME NEW i \in 1 .. n PROVE h[i] = f[i][h[i - 1]]
    <3>1. CASE i = n
      BY <3>1, <1>5, <1>9, <1>10
    <3>2. CASE i # n
      <4>1. i \in 1 .. m /\ i - 1 \in 0 .. m /\ i \in 0 .. m
        BY <3>2, <1>5
      <4> QED
        BY <4>1, <2>1, <1>9
    <3> QED
      BY <3>1, <3>2
  <2> QED
    BY <2>2, <2>3 DEF Iteration
<1> QED
  BY <1>3, <1>11, <1>12

\* The recursive function in Chain.
Walks(p, walk) ==
    walk = [n \in 0 .. NewID |->
               IF n = 0 THEN <<p>>
               ELSE LET c    == walk[n - 1]
                        next == pages[Last(c)].right
                    IN  IF next = NULL_PTR THEN c ELSE Append(c, next)]

LEMMA ChainWalks ==
    ASSUME NEW p, \E walk : Walks(p, walk)
    PROVE  \E walk : Walks(p, walk) /\ Chain(p) = walk[NewID]
<1> DEFINE w == CHOOSE walk : Walks(p, walk)
<1>1. Walks(p, w)
  OBVIOUS
<1>2. Chain(p) = w[NewID]
  BY DEF Chain, Walks
<1> QED
  BY <1>1, <1>2

\* Leaves of consecutive ranks, from that of leaf p.
InRow(c, p, own, idx) ==
    /\ c \in Seq(PageID) /\ Len(c) >= 1 /\ c[1] = p
    /\ \A i \in 1 .. Len(c) : /\ c[i] \in DOMAIN pages /\ IsLeaf(c[i])
                              /\ own[c[i]] = own[p] /\ idx[c[i]] = idx[p] + (i - 1)

\* One step of the walk: it ends at the last leaf of the object.
LEMMA RowGoesOn ==
    ASSUME IInv, NEW own, NEW idx, NEW len, Ranked(own, idx, len),
           NEW p \in DOMAIN pages, IsLeaf(p), NEW c, InRow(c, p, own, idx),
           NEW next, next = pages[Last(c)].right
    PROVE  /\ own[p] \in ObjectID /\ idx[p] \in Nat /\ len[own[p]] \in Nat
           /\ Len(c) + idx[p] - 1 <= len[own[p]]
           /\ next = NULL_PTR => Len(c) + idx[p] - 1 = len[own[p]]
           /\ next # NULL_PTR => /\ InRow(Append(c, next), p, own, idx)
                                 /\ Len(Append(c, next)) = Len(c) + 1
<1>1. PICK n \in Nat : n = Len(c) /\ n >= 1
  BY LenProperties DEF InRow
<1>2. PICK x \in DOMAIN pages : x = Last(c) /\ x = c[n]
  BY <1>1 DEF InRow, Last
<1>3. IsLeaf(x) /\ own[x] = own[p] /\ idx[x] = idx[p] + (n - 1)
  BY <1>1, <1>2 DEF InRow
<1>4. PICK b \in ObjectID, i \in Nat : b = own[p] /\ i = idx[p] /\ len[b] \in Nat
  BY DEF Ranked, Linked
<1>5. /\ i + (n - 1) \in 1 .. len[b]
      /\ i + (n - 1) = len[b] => next = NULL_PTR
      /\ i + (n - 1) # len[b] => \E r \in DOMAIN pages : /\ next = r /\ IsLeaf(r)
                                                         /\ own[r] = b /\ idx[r] = i + (n - 1) + 1
  BY <1>2, <1>3, <1>4 DEF Ranked, Linked
<1>6. n + i - 1 <= len[b]
  BY <1>4, <1>5
<1>7. NULL_PTR \notin DOMAIN pages
  BY TreeAssumption, NewIDProperties DEF IInv
<1>8. next = NULL_PTR => n + i - 1 = len[b]
  BY <1>4, <1>5, <1>7
<1>9. ASSUME next # NULL_PTR
      PROVE  InRow(Append(c, next), p, own, idx) /\ Len(Append(c, next)) = n + 1
  <2>1. next \in DOMAIN pages /\ IsLeaf(next) /\ own[next] = b /\ idx[next] = i + (n - 1) + 1
    BY <1>5, <1>9
  <2>2. next \in PageID
    BY <2>1, NewIDProperties DEF IInv
  <2>3. c \in Seq(PageID) /\ Len(c) = n
    BY <1>1 DEF InRow
  <2>4. PICK d : d = Append(c, next)
    OBVIOUS
  <2>5. /\ d \in Seq(PageID) /\ Len(d) = n + 1 /\ d[n + 1] = next
        /\ \A j \in 1 .. n : d[j] = c[j]
    BY <2>2, <2>3, <2>4, AppendProperties
  <2>6. \A j \in 1 .. n + 1 : /\ d[j] \in DOMAIN pages /\ IsLeaf(d[j])
                              /\ own[d[j]] = b /\ idx[d[j]] = i + (j - 1)
    <3> TAKE j \in 1 .. n + 1
    <3>1. CASE j = n + 1
      BY <3>1, <2>1, <2>5
    <3>2. CASE j # n + 1
      <4>1. j \in 1 .. n
        BY <3>2
      <4> QED
        BY <4>1, <2>5, <1>1, <1>4 DEF InRow
    <3> QED
      BY <3>1, <3>2
  <2>7. d[1] = p
    BY <2>5, <1>1 DEF InRow
  <2>8. InRow(d, p, own, idx)
    BY <2>5, <2>6, <2>7, <1>4 DEF InRow
  <2> QED
    BY <2>4, <2>5, <2>8
<1> QED
  BY <1>1, <1>4, <1>6, <1>8, <1>9

\* Chain(p) is the row of all leaves from p to the last of its object.
LEMMA RankedChain ==
    ASSUME IInv, NEW own, NEW idx, NEW len, Ranked(own, idx, len),
           NEW p \in DOMAIN pages, IsLeaf(p)
    PROVE  InRow(Chain(p), p, own, idx) /\ Len(Chain(p)) + idx[p] - 1 = len[own[p]]
<1>1. PICK N \in Nat : N = NewID /\ N >= 1
  BY NewIDProperties DEF IInv
<1>2. PICK b \in ObjectID, k \in Nat, l \in Nat :
         b = own[p] /\ k = idx[p] /\ l = len[b] /\ l <= N /\ k >= 1
  BY <1>1 DEF Ranked, Linked
<1> DEFINE D == {c \in Seq(PageID) : InRow(c, p, own, idx)}
           Next1(c) == pages[Last(c)].right
           F == [c \in D |-> IF Next1(c) = NULL_PTR THEN c ELSE Append(c, Next1(c))]
           f == [n \in Nat |-> F]
<1>3. \A c \in D : /\ Len(c) \in Nat /\ Len(c) + k - 1 <= l
                   /\ F[c] \in D
                   /\ Next1(c) = NULL_PTR => F[c] = c /\ Len(c) + k - 1 = l
                   /\ Next1(c) # NULL_PTR => Len(F[c]) = Len(c) + 1
  <2> TAKE c \in D
  <2>1. PICK next : next = Next1(c)
    OBVIOUS
  <2>2. /\ Len(c) + idx[p] - 1 <= len[own[p]]
        /\ next = NULL_PTR => Len(c) + idx[p] - 1 = len[own[p]]
        /\ next # NULL_PTR => /\ InRow(Append(c, next), p, own, idx)
                              /\ Len(Append(c, next)) = Len(c) + 1
    BY <2>1, RowGoesOn
  <2>3. Len(c) \in Nat
    BY LenProperties
  <2>4. next # NULL_PTR => Append(c, next) \in D
    BY <2>2 DEF InRow
  <2>5. F[c] = IF next = NULL_PTR THEN c ELSE Append(c, next)
    BY <2>1
  <2> QED
    BY <2>1, <2>2, <2>3, <2>4, <2>5, <1>2
<1>4. <<p>> \in D /\ Len(<<p>>) = 1
  <2>1. p \in PageID
    BY NewIDProperties DEF IInv
  <2>2. <<p>> \in Seq(PageID) /\ Len(<<p>>) = 1 /\ <<p>>[1] = p
    BY <2>1
  <2> QED
    BY <2>2, <1>2 DEF InRow
<1>5. F \in [D -> D] /\ \A n \in Nat : f[n] \in [D -> D]
  BY <1>3
<1>6. \A c \in D : F[c] = IF Next1(c) = NULL_PTR THEN c ELSE Append(c, Next1(c))
  OBVIOUS
<1>7. PICK g \in [0 .. N -> D] : Iteration(g, N, <<p>>, f)
  <2> HIDE DEF D, f, F
  <2> QED
    BY <1>4, <1>5, Iterates
<1> HIDE DEF D, F
<1>8. \A n \in 1 .. N : g[n] = F[g[n - 1]] /\ g[n - 1] \in D
  <2> TAKE n \in 1 .. N
  <2>1. n - 1 \in 0 .. N /\ n \in Nat
    BY <1>1
  <2> QED
    BY <2>1, <1>7 DEF Iteration
<1>9. Walks(p, g)
  <2>1. ASSUME NEW n \in 0 .. N
        PROVE  g[n] = IF n = 0 THEN <<p>>
                      ELSE LET c    == g[n - 1]
                               next == pages[Last(c)].right
                           IN  IF next = NULL_PTR THEN c ELSE Append(c, next)
    <3>1. CASE n = 0
      BY <3>1, <1>7 DEF Iteration
    <3>2. CASE n # 0
      <4>1. n \in 1 .. N
        BY <3>2
      <4>2. g[n] = F[g[n - 1]] /\ g[n - 1] \in D
        BY <4>1, <1>8
      <4> QED
        BY <3>2, <4>2, <1>6
    <3> QED
      BY <3>1, <3>2
  <2>2. g \in [0 .. N -> D]
    BY <1>7
  <2> QED
    BY <2>1, <2>2, <1>1 DEF Walks
<1>10. PICK w : Walks(p, w) /\ Chain(p) = w[N]
  <2>1. \E walk : Walks(p, walk)
    BY <1>9
  <2> QED
    BY <2>1, <1>1, ChainWalks
<1>11. \A n \in 0 .. N : w[n] = IF n = 0 THEN <<p>>
                                ELSE IF Next1(w[n - 1]) = NULL_PTR THEN w[n - 1]
                                     ELSE Append(w[n - 1], Next1(w[n - 1]))
  BY <1>1, <1>10 DEF Walks
<1> DEFINE Good(n) == w[n] \in D /\ (Len(w[n]) = n + 1 \/ Len(w[n]) + k - 1 = l)
           I == {n \in 0 .. N : ~Good(n)}
<1>12. I = {}
  <2>1. SUFFICES ASSUME I # {} PROVE FALSE
    OBVIOUS
  <2>2. PICK n \in I : \A y \in I : n <= y
    <3>1. I \in SUBSET Nat
      OBVIOUS
    <3> HIDE DEF I
    <3> QED
      BY <2>1, <3>1, Least
  <2>3. Good(0)
    BY <1>4, <1>11
  <2>4. n \in 1 .. N /\ ~Good(n)
    <3> HIDE DEF Good
    <3>1. n \in 0 .. N /\ ~Good(n)
      OBVIOUS
    <3>2. n # 0
      BY <2>3, <3>1
    <3> QED
      BY <3>1, <3>2
  <2>5. PICK m \in 0 .. N : n = m + 1 /\ m < n
    BY <2>4
  <2>6. Good(m)
    BY <2>2, <2>5
  <2>7. w[n] = IF Next1(w[m]) = NULL_PTR THEN w[m] ELSE Append(w[m], Next1(w[m]))
    BY <2>4, <2>5, <1>11
  <2>8. PICK c \in D : c = w[m]
    BY <2>6
  <2>9. w[n] = F[c]
    BY <2>7, <2>8, <1>6
  <2>10. PICK j \in Nat : j = Len(c) /\ j + k - 1 <= l
    BY <1>3
  <2>11. F[c] \in D /\ Len(F[c]) \in Nat /\ Len(F[c]) + k - 1 <= l
    BY <1>3
  <2>12. CASE Next1(c) = NULL_PTR
    BY <2>4, <2>9, <2>11, <2>12, <1>3
  <2>13. CASE Next1(c) # NULL_PTR
    <3>1. Len(F[c]) = j + 1 /\ (j = m + 1 \/ j + k - 1 = l)
      BY <2>6, <2>8, <2>10, <2>13, <1>3
    <3>2. j + 1 + k - 1 <= l
      BY <3>1, <2>11
    <3>3. j = m + 1
      BY <3>1, <3>2, <1>2
    <3> QED
      BY <3>1, <3>3, <2>4, <2>5, <2>9, <2>11
  <2> QED
    BY <2>12, <2>13
<1>13. Good(N)
  BY <1>12
<1>14. Len(w[N]) \in Nat /\ Len(w[N]) + k - 1 <= l
  BY <1>13, <1>3
<1>15. Len(w[N]) + k - 1 = l
  BY <1>13, <1>14, <1>2
<1> QED
  BY <1>10, <1>13, <1>15, <1>2 DEF D

\* A leaf is in the chain of every leaf of its object that is not after it.
LEMMA InChain ==
    ASSUME IInv, NEW own, NEW idx, NEW len, Ranked(own, idx, len),
           NEW p \in DOMAIN pages, IsLeaf(p), NEW q \in DOMAIN pages, IsLeaf(q),
           own[q] = own[p], idx[p] <= idx[q]
    PROVE  /\ idx[q] - idx[p] + 1 \in 1 .. Len(Chain(p))
           /\ Chain(p)[idx[q] - idx[p] + 1] = q
<1>1. PICK b \in ObjectID, k \in Nat, j \in Nat, l \in Nat :
         /\ b = own[p] /\ k = idx[p] /\ j = idx[q] /\ l = len[b]
         /\ k <= j /\ j <= l
  BY DEF Ranked, Linked
<1>2. PICK c : c = Chain(p)
  OBVIOUS
<1>3. InRow(c, p, own, idx) /\ Len(c) + k - 1 = l
  BY <1>1, <1>2, RankedChain
<1>4. PICK n \in Nat : n = Len(c)
  BY <1>3, LenProperties DEF InRow
<1>5. PICK i \in 1 .. n : i = j - k + 1
  <2>1. n + k - 1 = l
    BY <1>3, <1>4
  <2>2. j - k + 1 \in 1 .. n
    BY <1>1, <2>1
  <2> QED
    BY <2>2
<1>6. c[i] \in DOMAIN pages /\ IsLeaf(c[i]) /\ own[c[i]] = b /\ idx[c[i]] = k + (i - 1)
  BY <1>1, <1>3, <1>4 DEF InRow
<1>7. k + (i - 1) = j
  BY <1>1, <1>5
<1>8. c[i] = q
  BY <1>1, <1>6, <1>7 DEF Ranked
<1> QED
  BY <1>1, <1>2, <1>4, <1>5, <1>8

\* Left pointers lead back because positions go down along them.
LEMMA LeftLeads ==
    ASSUME IInv, Ranks
    PROVE  LeftIsBefore
<1> SUFFICES ASSUME NEW p \in DOMAIN pages, IsLeaf(p), pages[p].left # NULL_PTR
             PROVE  pages[p].left # p /\ p \in ToSet(Chain(pages[p].left))
  BY DEF LeftIsBefore, IsLeaf
<1>1. PICK own, idx, len : Ranked(own, idx, len)
  BY DEF Ranks
<1>2. PICK l \in DOMAIN pages : /\ pages[p].left = l /\ IsLeaf(l)
                                /\ own[l] = own[p] /\ idx[l] < idx[p]
  BY <1>1 DEF Ranked, Linked
<1>3. idx[l] \in Nat /\ idx[p] \in Nat
  BY <1>1, <1>2, NewIDProperties DEF Ranked, IInv
<1>4. l # p /\ idx[l] <= idx[p]
  BY <1>2, <1>3
<1>5. PICK i \in 1 .. Len(Chain(l)) : Chain(l)[i] = p
  BY <1>1, <1>2, <1>4, InChain
<1>6. Chain(l) \in Seq(PageID)
  BY <1>1, <1>2, RankedChain DEF InRow
<1>7. p \in ToSet(Chain(l))
  BY <1>5, <1>6, LenProperties DEF ToSet
<1> QED
  BY <1>2, <1>4, <1>7

\* The left sibling pointer of a leaf leads to a leaf before it in the chain,
\* whatever splits overlapped (224-230, 242-246), for any number of threads,
\* trees and keys.
THEOREM LeftPointers == Spec => []LeftIsBefore
<1>1. ASSUME IInv, Ranks PROVE LeftIsBefore
  BY <1>1, LeftLeads
<1> QED
  BY <1>1, Invariant, LeavesFormChains, PTL

-----------------------------------------------------------------------------
(* Sequences of sequences, joined. *)

\* Every element of a sequence is related to those after it.
Ordered(s, R) == \A a, b \in DOMAIN s : a < b => <<s[a], s[b]>> \in R

LEMMA ConcatOrdered ==
    ASSUME NEW S, NEW s \in Seq(S), NEW t \in Seq(S), NEW R, Ordered(s, R), Ordered(t, R),
           \A x \in ToSet(s), y \in ToSet(t) : <<x, y>> \in R
    PROVE  Ordered(s \o t, R)
<1>1. PICK m \in Nat, n \in Nat : /\ m = Len(s) /\ DOMAIN s = 1 .. m
                                  /\ n = Len(t) /\ DOMAIN t = 1 .. n
  BY LenProperties
<1>2. PICK d : d = s \o t
  OBVIOUS
<1>3. /\ DOMAIN d = 1 .. (m + n)
      /\ \A i \in 1 .. (m + n) : d[i] = IF i <= m THEN s[i] ELSE t[i - m]
  <2>1. /\ s \o t \in Seq(S) /\ Len(s \o t) = Len(s) + Len(t)
        /\ \A i \in 1 .. Len(s) + Len(t) :
              (s \o t)[i] = IF i <= Len(s) THEN s[i] ELSE t[i - Len(s)]
    BY ConcatProperties
  <2>2. d \in Seq(S) /\ Len(d) = m + n
    BY <2>1, <1>1, <1>2
  <2>3. DOMAIN d = 1 .. Len(d)
    BY <2>2, LenProperties
  <2> QED
    BY <2>1, <2>2, <2>3, <1>1, <1>2
<1>4. ASSUME NEW a \in 1 .. (m + n), NEW b \in 1 .. (m + n), a < b
      PROVE  <<d[a], d[b]>> \in R
  <2>1. CASE b <= m
    <3>1. a \in 1 .. m /\ b \in 1 .. m /\ d[a] = s[a] /\ d[b] = s[b]
      BY <2>1, <1>3, <1>4
    <3> QED
      BY <3>1, <1>1, <1>4 DEF Ordered
  <2>2. CASE a <= m /\ b > m
    <3>1. PICK i \in 1 .. m, j \in 1 .. n : i = a /\ j = b - m /\ d[a] = s[i] /\ d[b] = t[j]
      BY <2>2, <1>3
    <3> QED
      BY <3>1, <1>1 DEF ToSet
  <2>3. CASE a > m
    <3>1. PICK i \in 1 .. n, j \in 1 .. n :
             i = a - m /\ j = b - m /\ d[a] = t[i] /\ d[b] = t[j] /\ i < j
      BY <2>3, <1>3, <1>4
    <3> QED
      BY <3>1, <1>1 DEF Ordered
  <2> QED
    BY <2>1, <2>2, <2>3
<1> QED
  BY <1>2, <1>3, <1>4 DEF Ordered

\* The recursive function in FlattenSeq.
Flattens(seqs, flatten) ==
    flatten = [i \in 1 .. Len(seqs) |-> IF i = 1 THEN seqs[i] ELSE flatten[i - 1] \o seqs[i]]

LEMMA FlattenSeqIs ==
    ASSUME NEW seqs, Len(seqs) # 0, \E flatten : Flattens(seqs, flatten)
    PROVE  \E flatten : Flattens(seqs, flatten) /\ FlattenSeq(seqs) = flatten[Len(seqs)]
<1> DEFINE w == CHOOSE flatten : Flattens(seqs, flatten)
<1>1. Flattens(seqs, w)
  OBVIOUS
<1>2. FlattenSeq(seqs) = w[Len(seqs)]
  BY DEF FlattenSeq, Flattens
<1> QED
  BY <1>1, <1>2

\* FlattenSeq holds the elements of the sequences, in an order that they keep
\* within each sequence and from each sequence to the later ones.
LEMMA FlattenSeqProperties ==
    ASSUME NEW S, NEW seqs \in Seq(Seq(S)), Len(seqs) # 0, NEW R,
           \A i \in DOMAIN seqs : Ordered(seqs[i], R),
           \A i, j \in DOMAIN seqs : i < j =>
              \A x \in ToSet(seqs[i]), y \in ToSet(seqs[j]) : <<x, y>> \in R
    PROVE  /\ FlattenSeq(seqs) \in Seq(S)
           /\ \A x : x \in ToSet(FlattenSeq(seqs)) <=> \E i \in DOMAIN seqs : x \in ToSet(seqs[i])
           /\ Ordered(FlattenSeq(seqs), R)
<1>1. PICK n \in Nat : n = Len(seqs) /\ n >= 1 /\ DOMAIN seqs = 1 .. n
  BY LenProperties
<1>2. \A i \in 1 .. n : seqs[i] \in Seq(S)
  BY <1>1, ElementOfSeq
<1> DEFINE D == Seq(S)
           f == [k \in Nat |-> [c \in D |-> IF k + 1 \in 1 .. n THEN c \o seqs[k + 1] ELSE c]]
<1>3. \A k \in Nat : f[k] \in [D -> D]
  <2>1. ASSUME NEW k \in Nat, NEW c \in D
        PROVE  (IF k + 1 \in 1 .. n THEN c \o seqs[k + 1] ELSE c) \in D
    <3>1. CASE k + 1 \in 1 .. n
      <4>1. PICK d \in Seq(S) : d = seqs[k + 1]
        BY <3>1, <1>2
      <4>2. c \o d \in Seq(S)
        BY ConcatProperties
      <4> QED
        BY <3>1, <4>1, <4>2
    <3> QED
      BY <3>1
  <2> QED
    BY <2>1
<1>4. PICK N \in Nat : N + 1 = n
  <2>1. n - 1 \in Nat /\ (n - 1) + 1 = n
    BY <1>1
  <2> QED
    BY <2>1
<1>5. PICK g \in [0 .. N -> D] : Iteration(g, N, seqs[1], f)
  <2>1. seqs[1] \in D
    BY <1>1, <1>2
  <2> HIDE DEF D, f
  <2> QED
    BY <2>1, <1>3, Iterates
<1>6. \A k \in 1 .. N : g[k] = g[k - 1] \o seqs[k + 1]
  <2> TAKE k \in 1 .. N
  <2>1. k - 1 \in 0 .. N /\ k \in Nat /\ k + 1 \in 1 .. n
    BY <1>4
  <2>2. g[k - 1] \in D
    BY <2>1
  <2>3. g[k] = f[k][g[k - 1]]
    BY <1>5 DEF Iteration
  <2> QED
    BY <2>1, <2>2, <2>3
<1> HIDE DEF D, f
<1>7. Flattens(seqs, [i \in 1 .. n |-> g[i - 1]])
  <2>1. PICK h : h = [i \in 1 .. n |-> g[i - 1]]
    OBVIOUS
  <2>2. ASSUME NEW i \in 1 .. n
        PROVE  h[i] = IF i = 1 THEN seqs[i] ELSE h[i - 1] \o seqs[i]
    <3>1. CASE i = 1
      <4>1. h[1] = g[0]
        BY <2>1, <3>1
      <4> QED
        BY <3>1, <4>1, <1>5 DEF Iteration
    <3>2. CASE i # 1
      <4>1. PICK k \in 1 .. N : i = k + 1 /\ k \in 1 .. n /\ i - 1 = k
        BY <3>2, <1>4
      <4>2. h[i] = g[k] /\ h[k] = g[k - 1]
        BY <4>1, <2>1
      <4>3. g[k] = g[k - 1] \o seqs[k + 1]
        BY <1>6
      <4> QED
        BY <3>2, <4>1, <4>2, <4>3
    <3> QED
      BY <3>1, <3>2
  <2>3. h = [i \in 1 .. n |-> IF i = 1 THEN seqs[i] ELSE h[i - 1] \o seqs[i]]
    BY <2>1, <2>2
  <2> QED
    BY <2>1, <2>3, <1>1 DEF Flattens
<1>8. PICK w : Flattens(seqs, w) /\ FlattenSeq(seqs) = w[n]
  <2>1. \E flatten : Flattens(seqs, flatten)
    BY <1>7
  <2>2. \E flatten : Flattens(seqs, flatten) /\ FlattenSeq(seqs) = flatten[Len(seqs)]
    BY <2>1, FlattenSeqIs
  <2> QED
    BY <2>2, <1>1
<1>9. \A i \in 1 .. n : w[i] = IF i = 1 THEN seqs[i] ELSE w[i - 1] \o seqs[i]
  BY <1>1, <1>8 DEF Flattens
<1> DEFINE Good(i) == /\ w[i] \in Seq(S)
                      /\ \A x : x \in ToSet(w[i]) <=> \E j \in 1 .. i : x \in ToSet(seqs[j])
                      /\ Ordered(w[i], R)
           I == {i \in 1 .. n : ~Good(i)}
<1>10. Good(1)
  <2>1. w[1] = seqs[1]
    BY <1>1, <1>9
  <2>2. w[1] \in Seq(S) /\ Ordered(w[1], R)
    BY <2>1, <1>1, <1>2
  <2>3. \A x : x \in ToSet(w[1]) <=> \E j \in 1 .. 1 : x \in ToSet(seqs[j])
    BY <2>1
  <2> QED
    BY <2>2, <2>3
<1>11. ASSUME NEW m \in 1 .. n, m + 1 \in 1 .. n, Good(m) PROVE Good(m + 1)
  <2>1. PICK s \in Seq(S), t \in Seq(S), i \in 1 .. n : s = w[m] /\ t = seqs[i] /\ i = m + 1
    BY <1>2, <1>11
  <2>2. w[i] = s \o t
    <3>1. i # 1 /\ i - 1 = m
      BY <2>1
    <3>2. w[i] = w[i - 1] \o seqs[i]
      BY <3>1, <1>9
    <3> QED
      BY <3>1, <3>2, <2>1
  <2>3. ToSet(s \o t) = ToSet(s) \cup ToSet(t) /\ s \o t \in Seq(S)
    BY ConcatToSet, ConcatProperties
  <2>4. \A x : x \in ToSet(s) <=> \E j \in 1 .. m : x \in ToSet(seqs[j])
    BY <2>1, <1>11
  <2>5. \A x : x \in ToSet(s \o t) <=> \E j \in 1 .. i : x \in ToSet(seqs[j])
    <3>1. 1 .. i = (1 .. m) \cup {i}
      BY <2>1
    <3> QED
      BY <3>1, <2>1, <2>3, <2>4
  <2>6. \A x \in ToSet(s), y \in ToSet(t) : <<x, y>> \in R
    <3> TAKE x \in ToSet(s), y \in ToSet(t)
    <3>1. PICK j \in 1 .. m : x \in ToSet(seqs[j])
      BY <2>4
    <3>2. j \in DOMAIN seqs /\ i \in DOMAIN seqs /\ j < i
      BY <2>1, <1>1
    <3> QED
      BY <3>1, <3>2, <2>1
  <2>7. Ordered(s, R) /\ Ordered(t, R)
    BY <2>1, <1>1, <1>11
  <2>8. Ordered(s \o t, R)
    BY <2>6, <2>7, ConcatOrdered
  <2> QED
    BY <2>1, <2>2, <2>3, <2>5, <2>8
<1>12. I = {}
  <2> HIDE DEF Good
  <2>1. SUFFICES ASSUME I # {} PROVE FALSE
    OBVIOUS
  <2>2. PICK i \in I : \A y \in I : i <= y
    <3>1. I \in SUBSET Nat
      OBVIOUS
    <3> HIDE DEF I
    <3> QED
      BY <2>1, <3>1, Least
  <2>3. i \in 1 .. n /\ ~Good(i) /\ i # 1
    BY <1>10
  <2>4. PICK m \in 1 .. n : i = m + 1 /\ m < i
    BY <2>3
  <2>5. Good(m)
    BY <2>2, <2>4
  <2> QED
    BY <2>3, <2>4, <2>5, <1>11
<1>13. Good(n)
  <2> HIDE DEF Good
  <2>1. n \in 1 .. n
    BY <1>1
  <2> QED
    BY <2>1, <1>12
<1> QED
  BY <1>1, <1>8, <1>13

\* The keys of a page, in its order.
KeySeq(items) == [j \in DOMAIN items |-> items[j].key]

LEMMA KeySeqProperties ==
    ASSUME NEW items \in Seq(Tuple), Sorted(items), NEW R,
           \A a, b \in Key : a < b => <<a, b>> \in R
    PROVE  /\ KeySeq(items) \in Seq(Key) /\ ToSet(KeySeq(items)) = KeysIn(items)
           /\ Ordered(KeySeq(items), R)
<1>1. PICK n \in Nat : n = Len(items) /\ DOMAIN items = 1 .. n
  BY TuplesOf
<1>2. \A i \in 1 .. n : items[i].key \in Key
  BY <1>1, TuplesOf
<1>3. PICK s : s = KeySeq(items)
  OBVIOUS
<1>4. DOMAIN s = 1 .. n /\ \A i \in 1 .. n : s[i] = items[i].key
  BY <1>1, <1>3 DEF KeySeq
<1>5. s = [i \in 1 .. n |-> items[i].key]
  BY <1>1, <1>3 DEF KeySeq
<1>6. s \in [1 .. n -> Key]
  BY <1>2, <1>5
<1>7. s \in Seq(Key)
  BY <1>6, SeqDef
<1>8. ToSet(s) = KeysIn(items)
  BY <1>1, <1>4 DEF ToSet, KeysIn
<1>9. Ordered(s, R)
  BY <1>1, <1>2, <1>4 DEF Ordered, Sorted
<1> QED
  BY <1>3, <1>7, <1>8, <1>9

KeysOrdered(R) == \A a, b \in Key : a < b => <<a, b>> \in R
LeavesOrdered(o, own, idx, R) ==
    \A p, q \in DOMAIN pages :
       IsLeaf(p) /\ IsLeaf(q) /\ own[p] = o /\ own[q] = o /\ idx[p] < idx[q] =>
          \A a \in KeysIn(pages[p].items), b \in KeysIn(pages[q].items) : <<a, b>> \in R

\* The keys of a chain are those of the leaves of its object, in an order that
\* the keys of a page have and the leaves have from each to the later ones.
LEMMA ChainKeysProperties ==
    ASSUME IInv, PagesSorted, NEW own, NEW idx, NEW len, Ranked(own, idx, len),
           NEW o \in ObjectID, NEW R, KeysOrdered(R), LeavesOrdered(o, own, idx, R)
    PROVE  /\ ChainKeys(o) \in Seq(Key)
           /\ \A k : k \in ToSet(ChainKeys(o)) <=>
                        \E p \in DOMAIN pages : /\ IsLeaf(p) /\ own[p] = o
                                                /\ k \in KeysIn(pages[p].items)
           /\ Ordered(ChainKeys(o), R)
<1>1. o \in DOMAIN pages /\ IsLeaf(o) /\ own[o] = o /\ idx[o] = 1
  BY DEF IInv, FirstLeaves, Ranked
<1>2. PICK c : c = Chain(o)
  OBVIOUS
<1>3. InRow(c, o, own, idx)
  BY <1>1, <1>2, RankedChain
<1>4. PICK n \in Nat : n = Len(c) /\ n >= 1 /\ DOMAIN c = 1 .. n
  BY <1>3, LenProperties DEF InRow
<1>5. \A i \in 1 .. n : /\ c[i] \in DOMAIN pages /\ IsLeaf(c[i])
                        /\ own[c[i]] = o /\ idx[c[i]] = i
  BY <1>1, <1>3, <1>4 DEF InRow
<1>6. PICK seqs : seqs = [i \in DOMAIN c |-> KeySeq(pages[c[i]].items)]
  OBVIOUS
<1>7. ChainKeys(o) = FlattenSeq(seqs)
  BY <1>2, <1>6 DEF ChainKeys, KeySeq
<1>8. \A i \in 1 .. n : /\ seqs[i] \in Seq(Key) /\ Ordered(seqs[i], R)
                        /\ ToSet(seqs[i]) = KeysIn(pages[c[i]].items)
  <2> TAKE i \in 1 .. n
  <2>1. PICK items : items = pages[c[i]].items
    OBVIOUS
  <2>2. items \in Seq(Tuple) /\ Sorted(items)
    BY <2>1, <1>5 DEF IInv, TypeOK, Page, PagesSorted
  <2>3. seqs[i] = KeySeq(items)
    BY <2>1, <1>4, <1>6
  <2>4. \A a, b \in Key : a < b => <<a, b>> \in R
    BY DEF KeysOrdered
  <2> QED
    BY <2>1, <2>2, <2>3, <2>4, KeySeqProperties
<1>9. seqs \in Seq(Seq(Key)) /\ Len(seqs) = n /\ DOMAIN seqs = 1 .. n
  <2>1. seqs \in [1 .. n -> Seq(Key)]
    BY <1>4, <1>6, <1>8
  <2>2. seqs \in Seq(Seq(Key))
    BY <2>1, SeqDef
  <2> QED
    BY <2>1, <2>2, LenProperties
<1>10. \A i, j \in DOMAIN seqs : i < j =>
          \A x \in ToSet(seqs[i]), y \in ToSet(seqs[j]) : <<x, y>> \in R
  <2> SUFFICES ASSUME NEW i \in 1 .. n, NEW j \in 1 .. n, i < j
               PROVE  \A x \in ToSet(seqs[i]), y \in ToSet(seqs[j]) : <<x, y>> \in R
    BY <1>9
  <2>1. PICK p \in DOMAIN pages, q \in DOMAIN pages :
           /\ p = c[i] /\ IsLeaf(p) /\ own[p] = o /\ q = c[j] /\ IsLeaf(q) /\ own[q] = o
           /\ idx[p] < idx[q]
    BY <1>5
  <2>2. \A a \in KeysIn(pages[p].items), b \in KeysIn(pages[q].items) : <<a, b>> \in R
    BY <2>1 DEF LeavesOrdered
  <2> QED
    BY <2>1, <2>2, <1>8
<1>11. /\ FlattenSeq(seqs) \in Seq(Key)
       /\ \A x : x \in ToSet(FlattenSeq(seqs)) <=> \E i \in DOMAIN seqs : x \in ToSet(seqs[i])
       /\ Ordered(FlattenSeq(seqs), R)
  <2>1. Len(seqs) # 0 /\ \A i \in DOMAIN seqs : Ordered(seqs[i], R)
    BY <1>4, <1>8, <1>9
  <2> QED
    BY <2>1, <1>9, <1>10, FlattenSeqProperties
<1>12. ASSUME NEW p \in DOMAIN pages, IsLeaf(p), own[p] = o
       PROVE  \E i \in 1 .. n : c[i] = p
  <2>1. idx[p] \in Nat /\ 1 <= idx[p]
    BY <1>12 DEF Ranked, Linked
  <2> QED
    BY <2>1, <1>1, <1>2, <1>4, <1>12, InChain
<1>13. \A k : k \in ToSet(ChainKeys(o)) <=>
                 \E p \in DOMAIN pages : /\ IsLeaf(p) /\ own[p] = o
                                         /\ k \in KeysIn(pages[p].items)
  <2> TAKE k
  <2>1. k \in ToSet(ChainKeys(o)) <=> \E i \in 1 .. n : k \in KeysIn(pages[c[i]].items)
    BY <1>7, <1>8, <1>9, <1>11
  <2> QED
    BY <2>1, <1>5, <1>12
<1> QED
  BY <1>7, <1>11, <1>13

\* Of a single tree, all leaves are in one chain.
LEMMA OneTree ==
    ASSUME Objects = 1, IInv, PagesSorted, NEW own, NEW idx, NEW len, Ranked(own, idx, len)
    PROVE  /\ ObjectID = {0}
           /\ \A p \in DOMAIN pages : IsLeaf(p) => own[p] = 0
           /\ ToSet(ChainKeys(0)) = LeafKeys
<1>1. ObjectID = {0}
  BY DEF ObjectID
<1>2. \A p \in DOMAIN pages : IsLeaf(p) => own[p] = 0
  BY <1>1 DEF Ranked, Linked
<1>3. \A k : k \in ToSet(ChainKeys(0)) <=>
                \E p \in DOMAIN pages : /\ IsLeaf(p) /\ own[p] = 0
                                        /\ k \in KeysIn(pages[p].items)
  <2>1. PICK R : R = Key \X Key
    OBVIOUS
  <2>2. \A a, b \in Key : <<a, b>> \in R
    BY <2>1
  <2>3. \A p \in DOMAIN pages : KeysIn(pages[p].items) \subseteq Key
    BY KeysAreOfTuples DEF IInv, TypeOK, Page
  <2>4. \A p, q \in DOMAIN pages :
           \A a \in KeysIn(pages[p].items), b \in KeysIn(pages[q].items) : <<a, b>> \in R
    BY <2>2, <2>3
  <2>5. PICK o \in ObjectID : o = 0
    BY <1>1
  <2>6. \A k : k \in ToSet(ChainKeys(o)) <=>
                 \E p \in DOMAIN pages : /\ IsLeaf(p) /\ own[p] = o
                                         /\ k \in KeysIn(pages[p].items)
    <3>1. \A a, b \in Key : a < b => <<a, b>> \in R
      BY <2>2
    <3>2. \A p, q \in DOMAIN pages :
             IsLeaf(p) /\ IsLeaf(q) /\ own[p] = o /\ own[q] = o /\ idx[p] < idx[q] =>
                \A a \in KeysIn(pages[p].items), b \in KeysIn(pages[q].items) : <<a, b>> \in R
      BY <2>4
    <3>3. KeysOrdered(R) /\ LeavesOrdered(o, own, idx, R)
      BY <3>1, <3>2 DEF KeysOrdered, LeavesOrdered
    <3> QED
      BY <3>3, ChainKeysProperties
  <2> QED
    BY <2>5, <2>6
<1>4. \A k : k \in LeafKeys <=> \E p \in DOMAIN pages : IsLeaf(p) /\ k \in KeysIn(pages[p].items)
  <2>1. \A p \in DOMAIN pages : KeysIn(pages[p].items) \subseteq Key
    BY KeysAreOfTuples DEF IInv, TypeOK, Page
  <2> QED
    BY <2>1 DEF LeafKeys
<1>5. \A k : k \in ToSet(ChainKeys(0)) <=> k \in LeafKeys
  BY <1>2, <1>3, <1>4
<1> QED
  BY <1>1, <1>2, <1>5

\* The only chain has all leaves, and so all keys.
LEMMA ChainHasAll ==
    ASSUME Objects = 1, IInv, PagesSorted, Ranks
    PROVE  ChainHoldsKeys
<1>1. PICK own, idx, len : Ranked(own, idx, len)
  BY DEF Ranks
<1>2. ObjectID = {0} /\ ToSet(ChainKeys(0)) = LeafKeys
  BY <1>1, OneTree
<1>3. stored[0] \subseteq LeafKeys /\ LeafKeys \subseteq begun[0]
  BY <1>2 DEF IInv, StoredInLeaves, LeavesBegun
<1> QED
  BY <1>2, <1>3 DEF ChainHoldsKeys

\* The leaf chain of a single tree holds every key whose insertion returned and
\* nothing that was never inserted, whatever insertions, splits and root changes
\* overlap, for any number of threads and whether or not they insert the same
\* keys (218-249).
THEOREM ChainHasKeys == ASSUME Objects = 1 PROVE Spec => []ChainHoldsKeys
<1>1. ASSUME IInv, PagesSorted, Ranks PROVE ChainHoldsKeys
  BY <1>1, ChainHasAll
<1> QED
  BY <1>1, Invariant, PagesInOrder, LeavesFormChains, PTL

-----------------------------------------------------------------------------
(* No key is in two leaves, as long as a key is inserted once.  The inner     *)
(* nodes that a search goes through are those of the left edge: their first   *)
(* child is the first leaf or an inner node, and their separators lead to     *)
(* other leaves, of which each separator is the first key.                    *)

FirstKey(p) == pages[p].items[1].key
Items(p) == ToSet(pages[p].items)

Leftmost(p) ==
    IF IsLeaf(p) THEN p \in ObjectID
    ELSE pages[p].child \in ObjectID \/ ~IsLeaf(pages[p].child)
Spine == {p \in DOMAIN pages : ~IsLeaf(p) /\ Leftmost(p)}

\* Separator k and its leaf v.
Heads(k, v) == v \in DOMAIN pages /\ IsLeaf(v) /\ v \notin ObjectID /\ FirstKey(v) = k

KeysApart ==
    \A p, q \in DOMAIN pages : IsLeaf(p) /\ IsLeaf(q) /\ p # q =>
       \A k \in KeysIn(pages[p].items) : k \notin KeysIn(pages[q].items)
SpineOK ==
    \A p \in Spine : /\ Leftmost(pages[p].child)
                     /\ \A x \in Items(p) : Heads(x.key, x.value)
SeparatorsApart ==
    \A p, q \in Spine : p # q => \A x \in Items(p), y \in Items(q) : x.value # y.value
RootsLeft == \A o \in ObjectID : Leftmost(dbobjects[o])
TreeOK == KeysApart /\ SpineOK /\ SeparatorsApart /\ RootsLeft

\* A call that has not put its key into a leaf yet.
Pending(c) == c.at = "descend" \/ (c.at \in {"insert", "split"} /\ IsLeaf(c.page))

\* No inner node that a search goes through has a separator to leaf v.
Unhung(v) == \A p \in Spine : \A x \in Items(p) : x.value # v

OnWay(c) ==
    /\ \A i \in DOMAIN c.parents : c.parents[i] \in Spine
    /\ c.parents = <<>> => Leftmost(c.page)
    /\ c.at # "parent" => IF IsLeaf(c.page)
                          THEN c.page \notin ObjectID => FirstKey(c.page) < c.key
                          ELSE c.page \in Spine
Fresh(c) ==
    /\ Pending(c) => c.key \notin LeafKeys
    /\ ~Pending(c) => Heads(c.tuple.key, c.tuple.value) /\ Unhung(c.tuple.value)

\* The insertion that a thread is in.
CallIs(s, c) == c \in InsertCall /\ (s = c \/ (s \in RootCall /\ s.call = c))

Apart(c, d) == /\ c.key # d.key
               /\ ~Pending(c) /\ ~Pending(d) => c.tuple.value # d.tuple.value

WaysOK == \A t \in Threads : \A c : CallIs(op[t], c) => OnWay(c) /\ Fresh(c)
CallsDiffer ==
    \A t, u \in Threads : t # u =>
       \A c, d : CallIs(op[t], c) /\ CallIs(op[u], d) => Apart(c, d)

KeysInv == TreeOK /\ WaysOK /\ CallsDiffer

\* What stays: the leaves, their first keys, the left edge.
EdgeStays ==
    \A p \in DOMAIN pages :
       /\ p \in DOMAIN pages' /\ (IsLeaf(p)' <=> IsLeaf(p))
       /\ Leftmost(p) => Leftmost(p)'
       /\ IsLeaf(p) /\ p \notin ObjectID => FirstKey(p)' = FirstKey(p)

LEMMA EdgeKeeps ==
    ASSUME EdgeStays
    PROVE  /\ \A p \in Spine : p \in Spine'
           /\ \A k, v : Heads(k, v) => Heads(k, v)'
BY DEF EdgeStays, Spine, Heads

\* An insertion of another thread, after a step that puts at most key k into the
\* leaves and separators to at most leaf v into the inner nodes.
LEMMA CallStays ==
    ASSUME EdgeStays, NEW c, PlaceOK(c), OnWay(c), Fresh(c),
           Pending(c) => c.key \notin LeafKeys',
           ~Pending(c) => Unhung(c.tuple.value)'
    PROVE  OnWay(c)' /\ Fresh(c)' /\ (Pending(c)' <=> Pending(c))
<1>1. /\ \A p \in Spine : p \in Spine'
      /\ \A k, v : Heads(k, v) => Heads(k, v)'
  BY EdgeKeeps
<1>2. /\ c.page \in DOMAIN pages
      /\ \A i \in DOMAIN c.parents : c.parents[i] \in DOMAIN pages
  BY DEF PlaceOK
<1>3. Pending(c)' <=> Pending(c)
  BY <1>2 DEF Pending, EdgeStays
<1>4. OnWay(c)'
  BY <1>1, <1>2 DEF OnWay, EdgeStays
<1>5. Fresh(c)'
  BY <1>1, <1>3 DEF Fresh
<1> QED
  BY <1>3, <1>4, <1>5

LEMMA CallPlaced ==
    ASSUME IInv, NEW t \in Threads, NEW c, CallIs(op[t], c)
    PROVE  c \in InsertCall /\ InsertOK(c) /\ PlaceOK(c)
<1>1. op[t] \in CallState /\ CallOK(op[t])
  BY CallOf
<1>2. c \in InsertCall /\ InsertOK(c)
  BY <1>1 DEF CallIs, CallOK, RootOK
<1> QED
  BY <1>2 DEF InsertOK

\* The same for all calls: s is the new state of thread t.
OthersStay(t, s) ==
    \A u \in Threads : u # t => \A d : CallIs(op[u], d) =>
       /\ Pending(d) => d.key \notin LeafKeys'
       /\ ~Pending(d) => Unhung(d.tuple.value)'
       /\ \A c : CallIs(s, c) => /\ c.key # d.key
                                 /\ ~Pending(c)' /\ ~Pending(d) => c.tuple.value # d.tuple.value
NewCallOK(s) == \A c : CallIs(s, c) => OnWay(c)' /\ Fresh(c)'

LEMMA CallsStay ==
    ASSUME IInv, KeysInv, EdgeStays, NEW t \in Threads, NEW s,
           op' = [op EXCEPT ![t] = s], NewCallOK(s), OthersStay(t, s)
    PROVE  WaysOK' /\ CallsDiffer'
<1>1. DOMAIN op = Threads
  BY DEF IInv, TypeOK
<1>2. op'[t] = s /\ \A u \in Threads : u # t => op'[u] = op[u]
  BY <1>1
<1>3. ASSUME NEW u \in Threads, u # t, NEW d, CallIs(op[u], d)
      PROVE  OnWay(d)' /\ Fresh(d)' /\ (Pending(d)' <=> Pending(d))
  <2>1. PlaceOK(d) /\ OnWay(d) /\ Fresh(d)
    BY <1>3, CallPlaced DEF KeysInv, WaysOK
  <2>2. /\ Pending(d) => d.key \notin LeafKeys'
        /\ ~Pending(d) => Unhung(d.tuple.value)'
    BY <1>3 DEF OthersStay
  <2> QED
    BY <2>1, <2>2, CallStays
<1>4. WaysOK'
  <2> SUFFICES ASSUME NEW u \in Threads, NEW c, CallIs(op'[u], c) PROVE OnWay(c)' /\ Fresh(c)'
    BY DEF WaysOK, CallIs
  <2>1. CASE u = t
    BY <2>1, <1>2 DEF NewCallOK
  <2>2. CASE u # t
    BY <2>2, <1>2, <1>3
  <2> QED
    BY <2>1, <2>2
<1>5. CallsDiffer'
  <2> SUFFICES ASSUME NEW u \in Threads, NEW v \in Threads, u # v,
                      NEW c, NEW d, CallIs(op'[u], c), CallIs(op'[v], d)
               PROVE  Apart(c, d)'
    BY DEF CallsDiffer, CallIs
  <2>1. CASE u = t
    <3>1. CallIs(s, c) /\ CallIs(op[v], d) /\ v # t
      BY <2>1, <1>2
    <3>2. Pending(d)' <=> Pending(d)
      BY <3>1, <1>3
    <3>3. c.key # d.key /\ (~Pending(c)' /\ ~Pending(d) => c.tuple.value # d.tuple.value)
      BY <3>1 DEF OthersStay
    <3> QED
      BY <3>2, <3>3 DEF Apart
  <2>2. CASE v = t
    <3>1. CallIs(s, d) /\ CallIs(op[u], c) /\ u # t
      BY <2>2, <1>2
    <3>2. Pending(c)' <=> Pending(c)
      BY <3>1, <1>3
    <3>3. d.key # c.key /\ (~Pending(d)' /\ ~Pending(c) => d.tuple.value # c.tuple.value)
      BY <3>1 DEF OthersStay
    <3> QED
      BY <3>2, <3>3 DEF Apart
  <2>3. CASE u # t /\ v # t
    <3>1. CallIs(op[u], c) /\ CallIs(op[v], d)
      BY <2>3, <1>2
    <3>2. (Pending(c)' <=> Pending(c)) /\ (Pending(d)' <=> Pending(d))
      BY <2>3, <3>1, <1>3
    <3>3. Apart(c, d)
      BY <3>1 DEF KeysInv, CallsDiffer
    <3> QED
      BY <3>2, <3>3 DEF Apart
  <2> QED
    BY <2>1, <2>2, <2>3
<1> QED
  BY <1>4, <1>5

-----------------------------------------------------------------------------
(* The steps that change pages, and the leaves. *)

\* A step that changes no leaf and adds none changes no key of a leaf.
LEMMA LeavesSame ==
    ASSUME IInv, KeysApart,
           \A p \in DOMAIN pages : /\ p \in DOMAIN pages' /\ (IsLeaf(p)' <=> IsLeaf(p))
                                   /\ IsLeaf(p) => pages'[p] = pages[p],
           \A p \in DOMAIN pages' : IsLeaf(p)' => p \in DOMAIN pages
    PROVE  /\ KeysApart' /\ LeafKeys' = LeafKeys
           /\ \A p \in DOMAIN pages : IsLeaf(p) => FirstKey(p)' = FirstKey(p)
<1>1. KeysApart'
  BY DEF KeysApart
<1>2. LeafKeys' = LeafKeys
  BY DEF LeafKeys
<1>3. \A p \in DOMAIN pages : IsLeaf(p) => FirstKey(p)' = FirstKey(p)
  BY DEF FirstKey
<1> QED
  BY <1>1, <1>2, <1>3

\* A step that changes no inner node and adds none changes no separator.
LEMMA NodesSame ==
    ASSUME IInv, TreeOK, EdgeStays, dbobjects' = dbobjects,
           \A p \in DOMAIN pages : ~IsLeaf(p) => pages'[p] = pages[p],
           \A p \in DOMAIN pages' : ~IsLeaf(p)' => p \in DOMAIN pages
    PROVE  /\ SpineOK' /\ SeparatorsApart' /\ RootsLeft'
           /\ \A v : Unhung(v) => Unhung(v)'
<1>1. \A p \in Spine' : p \in Spine /\ pages'[p] = pages[p]
  <2> TAKE p \in Spine'
  <2>1. p \in DOMAIN pages /\ ~IsLeaf(p) /\ pages'[p] = pages[p] /\ Leftmost(p)'
    BY DEF Spine, EdgeStays
  <2>2. pages[p].child \in DOMAIN pages
    BY <2>1 DEF IInv, TypeOK, Children, IsLeaf, Page
  <2>3. Leftmost(p)
    BY <2>1, <2>2 DEF Leftmost, EdgeStays
  <2> QED
    BY <2>1, <2>3 DEF Spine
<1>2. \A p \in Spine' : pages[p].child \in DOMAIN pages
  BY <1>1 DEF Spine, IInv, TypeOK, Children, IsLeaf, Page
<1>3. SpineOK'
  BY <1>1, <1>2, EdgeKeeps DEF SpineOK, TreeOK, EdgeStays, Items
<1>4. SeparatorsApart'
  BY <1>1 DEF SeparatorsApart, TreeOK, Items
<1>5. RootsLeft'
  BY DEF RootsLeft, TreeOK, EdgeStays, IInv, TypeOK
<1>6. \A v : Unhung(v) => Unhung(v)'
  BY <1>1 DEF Unhung, Items
<1> QED
  BY <1>3, <1>4, <1>5, <1>6

\* The pages as the invariants have them.
LEMMA PageFacts ==
    ASSUME IInv, PagesSorted, NEW p \in DOMAIN pages
    PROVE  /\ pages[p] \in Page /\ pages[p].items \in Seq(Tuple) /\ Sorted(pages[p].items)
           /\ p \in PageID /\ ToSet(pages[p].items) \subseteq Tuple
           /\ IsLeaf(p) \/ pages[p].type = "Node"
           /\ ~IsLeaf(p) => pages[p].child \in DOMAIN pages
           /\ IsLeaf(p) => \A k \in KeysIn(pages[p].items) : k \in LeafKeys
           /\ IsLeaf(p) /\ p \notin ObjectID =>
                 /\ Filled(p) /\ Len(pages[p].items) > 0 /\ FirstKey(p) \in KeysIn(pages[p].items)
<1>1. /\ pages[p] \in Page /\ pages[p].items \in Seq(Tuple) /\ Sorted(pages[p].items)
      /\ p \in PageID
  BY NewIDProperties DEF IInv, TypeOK, Page, PagesSorted
<1>2. IsLeaf(p) \/ pages[p].type = "Node"
  BY <1>1 DEF Page, IsLeaf
<1>3. ~IsLeaf(p) => pages[p].child \in DOMAIN pages
  BY <1>2 DEF IInv, TypeOK, Children
<1>4. PICK items : items = pages[p].items
  OBVIOUS
<1>5. PICK n \in Nat : n = Len(items) /\ DOMAIN items = 1 .. n /\ (n = 0 <=> items = <<>>)
  BY <1>1, <1>4, LenProperties, EmptySeq
<1>6. \A i \in 1 .. n : items[i] \in Tuple /\ items[i].key \in KeysIn(items)
  BY <1>1, <1>4, <1>5, TuplesOf
<1>7. ToSet(items) \subseteq Tuple
  BY <1>5, <1>6 DEF ToSet
<1>8. IsLeaf(p) => \A k \in KeysIn(items) : k \in LeafKeys
  BY <1>1, <1>4, KeysAreOfTuples DEF LeafKeys
<1>9. IsLeaf(p) /\ p \notin ObjectID => n # 0
  BY <1>1, <1>4, <1>5 DEF IInv, PagesFilled, IsLeaf
<1>10. n # 0 => n > 0 /\ 1 \in 1 .. n
  BY <1>5
<1>11. IsLeaf(p) /\ p \notin ObjectID => Filled(p) /\ n > 0 /\ FirstKey(p) \in KeysIn(items)
  BY <1>4, <1>5, <1>6, <1>9, <1>10 DEF Filled, FirstKey
<1> QED
  BY <1>1, <1>2, <1>3, <1>4, <1>5, <1>7, <1>8, <1>11

\* A pending insertion puts its key into a leaf.
LEMMA LeafPut ==
    ASSUME IInv, PagesSorted, TreeOK, NEW p, NEW tuple, PutIn(p, tuple), IsLeaf(p),
           tuple.key \notin LeafKeys, p \notin ObjectID => FirstKey(p) < tuple.key,
           dbobjects' = dbobjects
    PROVE  /\ EdgeStays /\ TreeOK'
           /\ LeafKeys' \subseteq LeafKeys \cup {tuple.key}
           /\ \A v : Unhung(v) => Unhung(v)'
<1>1. /\ p \in DOMAIN pages /\ tuple \in Tuple /\ tuple.key \notin KeysIn(pages[p].items)
      /\ DOMAIN pages' = DOMAIN pages
      /\ pages'[p] = [pages[p] EXCEPT !.items = Inserted(@, tuple)]
      /\ \A x \in DOMAIN pages : x # p => pages'[x] = pages[x]
  BY DEF PutIn
<1>2. PICK items, d : items = pages[p].items /\ d = Inserted(items, tuple)
  OBVIOUS
<1>3. /\ pages[p] \in Page /\ items \in Seq(Tuple) /\ Sorted(items)
      /\ p \notin ObjectID => Len(items) > 0
  BY <1>1, <1>2, PageFacts
<1>4. pages'[p].items = d /\ pages'[p].type = pages[p].type
  BY <1>1, <1>2, <1>3 DEF Page
<1>5. /\ KeysIn(d) = KeysIn(items) \cup {tuple.key}
      /\ Len(items) > 0 /\ items[1].key < tuple.key => d[1] = items[1]
  BY <1>1, <1>2, <1>3, InsertedSorted
<1>6. \A x \in DOMAIN pages : IsLeaf(x)' <=> IsLeaf(x)
  BY <1>1, <1>4 DEF IsLeaf
<1>7. \A x \in DOMAIN pages : ~IsLeaf(x) => pages'[x] = pages[x] /\ pages[x].child \in DOMAIN pages
  BY <1>1, PageFacts
<1>8. \A x \in DOMAIN pages : Leftmost(x) <=> Leftmost(x)'
  BY <1>6, <1>7 DEF Leftmost
<1>9. p \notin ObjectID => FirstKey(p)' = FirstKey(p)
  BY <1>2, <1>3, <1>4, <1>5 DEF FirstKey
<1>10. EdgeStays
  BY <1>1, <1>6, <1>8, <1>9 DEF EdgeStays, FirstKey
<1>11. \A x \in DOMAIN pages : IsLeaf(x) =>
          KeysIn(pages'[x].items) = IF x = p THEN KeysIn(pages[x].items) \cup {tuple.key}
                                    ELSE KeysIn(pages[x].items)
  BY <1>1, <1>2, <1>4, <1>5
<1>12. \A x \in DOMAIN pages : IsLeaf(x) => tuple.key \notin KeysIn(pages[x].items)
  BY PageFacts
<1>13. KeysApart'
  <2> SUFFICES ASSUME NEW x \in DOMAIN pages, NEW y \in DOMAIN pages, IsLeaf(x), IsLeaf(y),
                      x # y, NEW k \in KeysIn(pages'[x].items)
               PROVE  k \notin KeysIn(pages'[y].items)
    BY <1>1, <1>6 DEF KeysApart
  <2>1. k \in KeysIn(pages[x].items) => k \notin KeysIn(pages[y].items)
    BY DEF KeysApart, TreeOK
  <2> QED
    BY <2>1, <1>11, <1>12
<1>14. LeafKeys' \subseteq LeafKeys \cup {tuple.key}
  BY <1>1, <1>6, <1>11 DEF LeafKeys
<1>15. /\ SpineOK' /\ SeparatorsApart' /\ RootsLeft'
       /\ \A v : Unhung(v) => Unhung(v)'
  BY <1>1, <1>6, <1>7, <1>10, NodesSame
<1> QED
  BY <1>10, <1>13, <1>14, <1>15 DEF TreeOK

\* A pending insertion splits a leaf: its key is in one of the halves, and the
\* separator it carries away leads to the new one.
LEMMA LeafSplit ==
    ASSUME IInv, PagesSorted, TreeOK, NEW p, NEW tuple, NEW s, Halved(p, tuple, s), IsLeaf(p),
           tuple.key \notin LeafKeys, p \notin ObjectID => FirstKey(p) < tuple.key,
           dbobjects' = dbobjects
    PROVE  /\ EdgeStays /\ TreeOK'
           /\ LeafKeys' \subseteq LeafKeys \cup {tuple.key}
           /\ \A v : Unhung(v) => Unhung(v)'
           /\ Heads(s.up.key, s.up.value)' /\ Unhung(s.up.value)'
           /\ s.up.value \notin DOMAIN pages
<1>1. PICK q \in PageID : q = NewID
  BY NewIDProperties DEF IInv, PageID
<1>2. /\ q \notin DOMAIN pages /\ DOMAIN pages \subseteq PageID
      /\ p \in DOMAIN pages /\ tuple \in Tuple /\ DOMAIN pages' = DOMAIN pages \cup {q}
      /\ s = SplitLeaf(pages[p], p, q, tuple) /\ Filled(p)
      /\ pages'[q] = s.right /\ pages'[p] = s.left
      /\ \A x \in DOMAIN pages : x # p => pages'[x] = pages[x]
  BY <1>1, NewIDProperties DEF IInv, Halved, Added
<1>3. PICK page \in Page : page = pages[p]
  BY <1>2, PageFacts
<1>4. /\ Sorted(page.items) /\ HasTuples(page) /\ s = SplitLeaf(page, p, q, tuple)
      /\ tuple.key \notin KeysIn(page.items) /\ page.items \in Seq(Tuple) /\ p \in PageID
  BY <1>2, <1>3, PageFacts DEF Filled, HasTuples
<1>5. /\ \A a \in KeysIn(s.left.items), b \in KeysIn(s.right.items) : a < b
      /\ KeysIn(s.left.items) \cup KeysIn(s.right.items) = KeysIn(page.items) \cup {tuple.key}
      /\ s.up.key = s.right.items[1].key
      /\ page.items[1].key < tuple.key => s.left.items[1] = page.items[1]
  <2>1. tuple \in Tuple
    BY <1>2
  <2> HIDE <1>1, <1>2, <1>3
  <2>2. \A a \in KeysIn(s.left.items), b \in KeysIn(s.right.items) : a < b
    BY <2>1, <1>4, SplitLeafSorted
  <2>3. KeysIn(s.left.items) \cup KeysIn(s.right.items) = KeysIn(page.items) \cup {tuple.key}
    <3>1. SplitKeys(s, page.items, tuple.key)
      BY <2>1, <1>4, SplitLeafSorted
    <3> QED
      BY <3>1 DEF SplitKeys
  <2>4. s.up.key = s.right.items[1].key
    BY <2>1, <1>4, SplitLeafSorted
  <2>5. page.items[1].key < tuple.key => s.left.items[1] = page.items[1]
    BY <2>1, <1>4, SplitLeafSorted
  <2> QED
    BY <2>2, <2>3, <2>4, <2>5
<1>6. /\ s.left \in Page /\ s.right \in Page /\ s.left.type = "Leaf" /\ s.right.type = "Leaf"
      /\ s.up.value = q
  BY <1>2, <1>4, SplitLeafProperties
<1>7. (\A x \in DOMAIN pages : IsLeaf(x)' <=> IsLeaf(x)) /\ IsLeaf(q)'
  BY <1>2, <1>6 DEF IsLeaf
<1>8. \A x \in DOMAIN pages : ~IsLeaf(x) => pages'[x] = pages[x] /\ pages[x].child \in DOMAIN pages
  BY <1>2, PageFacts
<1>9. \A x \in DOMAIN pages : Leftmost(x) <=> Leftmost(x)'
  BY <1>7, <1>8 DEF Leftmost
<1>10. p \notin ObjectID => FirstKey(p)' = FirstKey(p)
  BY <1>2, <1>3, <1>5 DEF FirstKey
<1>11. EdgeStays
  BY <1>2, <1>7, <1>9, <1>10 DEF EdgeStays, FirstKey
<1>12. PICK A \in SUBSET Key, B \in SUBSET Key :
          /\ A = KeysIn(s.left.items) /\ B = KeysIn(s.right.items)
          /\ A \cap B = {} /\ A \cup B = KeysIn(page.items) \cup {tuple.key}
  <2>1. KeysIn(s.left.items) \subseteq Key /\ KeysIn(s.right.items) \subseteq Key
    BY <1>6, KeysAreOfTuples DEF Page
  <2>2. \A k \in Key : ~(k < k)
    BY TreeAssumption
  <2> QED
    BY <2>1, <2>2, <1>5
<1>13. \A x \in DOMAIN pages : IsLeaf(x) /\ x # p =>
          /\ KeysIn(pages'[x].items) = KeysIn(pages[x].items)
          /\ \A k \in KeysIn(pages[x].items) : k \notin A /\ k \notin B
  <2> SUFFICES ASSUME NEW x \in DOMAIN pages, IsLeaf(x), x # p
               PROVE  \A k \in KeysIn(pages[x].items) : k \notin A /\ k \notin B
    BY <1>2
  <2>1. tuple.key \notin KeysIn(pages[x].items)
    BY PageFacts
  <2>2. \A k \in KeysIn(pages[x].items) : k \notin KeysIn(page.items)
    BY <1>2, <1>3 DEF TreeOK, KeysApart
  <2> QED
    BY <2>1, <2>2, <1>12
<1>14. KeysIn(pages'[p].items) = A /\ KeysIn(pages'[q].items) = B
  BY <1>2, <1>12
<1>15. KeysApart'
  <2> SUFFICES ASSUME NEW x \in DOMAIN pages', NEW y \in DOMAIN pages', IsLeaf(x)', IsLeaf(y)',
                      x # y, NEW k \in KeysIn(pages'[x].items)
               PROVE  k \notin KeysIn(pages'[y].items)
    BY DEF KeysApart
  <2>1. CASE x \in {p, q} /\ y \in {p, q}
    BY <2>1, <1>12, <1>14
  <2>2. CASE x \in {p, q} /\ y \notin {p, q}
    BY <2>2, <1>2, <1>7, <1>13, <1>14
  <2>3. CASE x \notin {p, q} /\ y \in {p, q}
    BY <2>3, <1>2, <1>7, <1>13, <1>14
  <2>4. CASE x \notin {p, q} /\ y \notin {p, q}
    BY <2>4, <1>2, <1>7, <1>13 DEF TreeOK, KeysApart
  <2> QED
    BY <2>1, <2>2, <2>3, <2>4
<1>16. LeafKeys' \subseteq LeafKeys \cup {tuple.key}
  <2> SUFFICES ASSUME NEW k \in Key, NEW x \in DOMAIN pages', IsLeaf(x)',
                      k \in KeysIn(pages'[x].items)
               PROVE  k \in LeafKeys \cup {tuple.key}
    BY DEF LeafKeys
  <2>1. CASE x \in {p, q}
    <3>1. k \in KeysIn(page.items) \cup {tuple.key}
      BY <2>1, <1>12, <1>14
    <3> QED
      BY <3>1, <1>2, <1>3, PageFacts
  <2>2. CASE x \notin {p, q}
    BY <2>2, <1>2, <1>7, <1>13, PageFacts
  <2> QED
    BY <2>1, <2>2
<1>17. /\ SpineOK' /\ SeparatorsApart' /\ RootsLeft'
       /\ \A v : Unhung(v) => Unhung(v)'
  BY <1>2, <1>7, <1>8, <1>11, NodesSame
<1>18. Unhung(q)
  BY <1>2 DEF Unhung, TreeOK, SpineOK, Heads
<1>19. Heads(s.up.key, q)'
  <2>1. q \notin ObjectID
    BY <1>2 DEF IInv, FirstLeaves
  <2> QED
    BY <2>1, <1>2, <1>5, <1>7 DEF Heads, FirstKey
<1> QED
  BY <1>2, <1>6, <1>11, <1>15, <1>16, <1>17, <1>18, <1>19 DEF TreeOK

-----------------------------------------------------------------------------
(* The steps that change inner nodes. *)

\* At most one separator comes to the left edge, to a leaf that had none there.
LEMMA SpineGains ==
    ASSUME EdgeStays, TreeOK, NEW p, NEW tuple,
           Heads(tuple.key, tuple.value), Unhung(tuple.value),
           \A q \in Spine' : Leftmost(pages[q].child)',
           \A q \in Spine' : \A x \in Items(q)' :
              (q \in Spine /\ x \in Items(q)) \/ (q = p /\ x = tuple)
    PROVE  /\ SpineOK' /\ SeparatorsApart'
           /\ \A v : Unhung(v) /\ v # tuple.value => Unhung(v)'
<1>1. \A k, v : Heads(k, v) => Heads(k, v)'
  BY EdgeKeeps
<1>2. \A q \in Spine : \A x \in Items(q) : Heads(x.key, x.value)
  BY DEF TreeOK, SpineOK
<1>3. \A q \in Spine' : \A x \in Items(q)' : Heads(x.key, x.value)'
  BY <1>1, <1>2
<1>4. SpineOK'
  BY <1>3 DEF SpineOK
<1>5. ASSUME NEW q \in Spine', NEW r \in Spine', q # r, NEW x \in Items(q)', NEW y \in Items(r)'
      PROVE  x.value # y.value
  <2>1. CASE q \in Spine /\ x \in Items(q) /\ r \in Spine /\ y \in Items(r)
    BY <2>1, <1>5 DEF TreeOK, SeparatorsApart
  <2>2. CASE q \in Spine /\ x \in Items(q) /\ r = p /\ y = tuple
    BY <2>2 DEF Unhung
  <2>3. CASE q = p /\ x = tuple /\ r \in Spine /\ y \in Items(r)
    BY <2>3 DEF Unhung
  <2>4. CASE q = p /\ r = p
    BY <2>4, <1>5
  <2> QED
    BY <2>1, <2>2, <2>3, <2>4
<1>6. SeparatorsApart'
  BY <1>5 DEF SeparatorsApart
<1>7. \A v : Unhung(v) /\ v # tuple.value => Unhung(v)'
  BY DEF Unhung
<1> QED
  BY <1>4, <1>6, <1>7

\* The same, when none comes.
LEMMA SpineSame ==
    ASSUME EdgeStays, TreeOK,
           \A q \in Spine' : Leftmost(pages[q].child)',
           \A q \in Spine' : \A x \in Items(q)' : q \in Spine /\ x \in Items(q)
    PROVE  /\ SpineOK' /\ SeparatorsApart'
           /\ \A v : Unhung(v) => Unhung(v)'
<1>1. \A k, v : Heads(k, v) => Heads(k, v)'
  BY EdgeKeeps
<1>2. \A q \in Spine : \A x \in Items(q) : Heads(x.key, x.value)
  BY DEF TreeOK, SpineOK
<1>3. SpineOK'
  BY <1>1, <1>2 DEF SpineOK
<1>4. SeparatorsApart'
  BY DEF SeparatorsApart, TreeOK
<1>5. \A v : Unhung(v) => Unhung(v)'
  BY DEF Unhung
<1> QED
  BY <1>3, <1>4, <1>5

\* A separator has the key of its leaf alone: none of a page of the left edge has
\* the key of one that leads to another leaf.
LEMMA SeparatorIsNew ==
    ASSUME IInv, PagesSorted, TreeOK, NEW p \in Spine, NEW tuple,
           Heads(tuple.key, tuple.value), Unhung(tuple.value)
    PROVE  tuple.key \notin KeysIn(pages[p].items)
<1> SUFFICES ASSUME tuple.key \in KeysIn(pages[p].items) PROVE FALSE
  OBVIOUS
<1>1. p \in DOMAIN pages
  BY DEF Spine
<1>2. PICK i \in DOMAIN pages[p].items : pages[p].items[i].key = tuple.key
  BY DEF KeysIn
<1>3. PICK x \in Items(p) : x.key = tuple.key
  BY <1>2 DEF Items, ToSet
<1>4. Heads(x.key, x.value) /\ x.value # tuple.value
  BY <1>3 DEF TreeOK, SpineOK, Unhung
<1>5. PICK v \in DOMAIN pages, w \in DOMAIN pages :
         /\ v = x.value /\ w = tuple.value /\ IsLeaf(v) /\ IsLeaf(w) /\ v # w
         /\ v \notin ObjectID /\ w \notin ObjectID
         /\ FirstKey(v) = tuple.key /\ FirstKey(w) = tuple.key
  BY <1>3, <1>4 DEF Heads
<1>6. tuple.key \in KeysIn(pages[v].items) /\ tuple.key \in KeysIn(pages[w].items)
  BY <1>5, PageFacts
<1> QED
  BY <1>5, <1>6 DEF TreeOK, KeysApart

\* A call puts its separator into an inner node.
LEMMA NodePut ==
    ASSUME IInv, PagesSorted, TreeOK, NEW p \in Spine, NEW tuple, PutIn(p, tuple),
           Heads(tuple.key, tuple.value), Unhung(tuple.value), dbobjects' = dbobjects
    PROVE  /\ EdgeStays /\ TreeOK' /\ LeafKeys' = LeafKeys
           /\ \A v : Unhung(v) /\ v # tuple.value => Unhung(v)'
<1>1. /\ p \in DOMAIN pages /\ ~IsLeaf(p) /\ Leftmost(p)
      /\ tuple \in Tuple /\ tuple.key \notin KeysIn(pages[p].items)
      /\ DOMAIN pages' = DOMAIN pages
      /\ pages'[p] = [pages[p] EXCEPT !.items = Inserted(@, tuple)]
      /\ \A x \in DOMAIN pages : x # p => pages'[x] = pages[x]
  BY DEF PutIn, Spine
<1>2. PICK items, d : items = pages[p].items /\ d = Inserted(items, tuple)
  OBVIOUS
<1>3. pages[p] \in Page /\ items \in Seq(Tuple) /\ Sorted(items)
  BY <1>1, <1>2, PageFacts
<1>4. /\ pages'[p].items = d /\ pages'[p].type = pages[p].type
      /\ pages'[p].child = pages[p].child
  BY <1>1, <1>2, <1>3 DEF Page
<1>5. ToSet(d) = ToSet(items) \cup {tuple}
  BY <1>1, <1>2, <1>3, InsertedSorted
<1>6. \A x \in DOMAIN pages : (IsLeaf(x)' <=> IsLeaf(x)) /\ pages'[x].child = pages[x].child
  BY <1>1, <1>4 DEF IsLeaf
<1>7. \A x \in DOMAIN pages : ~IsLeaf(x) => pages[x].child \in DOMAIN pages
  BY PageFacts
<1>8. \A x \in DOMAIN pages : Leftmost(x) <=> Leftmost(x)'
  BY <1>6, <1>7 DEF Leftmost
<1>9. \A x \in DOMAIN pages : IsLeaf(x) => pages'[x] = pages[x]
  BY <1>1
<1>10. /\ KeysApart' /\ LeafKeys' = LeafKeys
       /\ \A x \in DOMAIN pages : IsLeaf(x) => FirstKey(x)' = FirstKey(x)
  BY <1>1, <1>6, <1>9, LeavesSame DEF TreeOK
<1>11. EdgeStays
  BY <1>1, <1>6, <1>8, <1>10 DEF EdgeStays
<1>12. Spine' = Spine
  BY <1>1, <1>6, <1>8 DEF Spine
<1>13. \A q \in Spine' : Leftmost(pages[q].child)'
  <2> TAKE q \in Spine'
  <2>1. q \in Spine /\ q \in DOMAIN pages /\ ~IsLeaf(q)
    BY <1>12 DEF Spine
  <2>2. pages'[q].child = pages[q].child /\ pages[q].child \in DOMAIN pages
    BY <2>1, <1>6, <1>7
  <2>3. PICK c \in DOMAIN pages : c = pages[q].child /\ c = pages'[q].child /\ Leftmost(c)
    BY <2>1, <2>2 DEF TreeOK, SpineOK
  <2>4. Leftmost(c)'
    BY <2>3, <1>8
  <2> QED
    BY <2>3, <2>4
<1>14. \A q \in Spine' : \A x \in Items(q)' :
          (q \in Spine /\ x \in Items(q)) \/ (q = p /\ x = tuple)
  <2> SUFFICES ASSUME NEW q \in Spine', NEW x \in Items(q)'
               PROVE  (q \in Spine /\ x \in Items(q)) \/ (q = p /\ x = tuple)
    OBVIOUS
  <2>1. q \in Spine /\ q \in DOMAIN pages
    BY <1>12 DEF Spine
  <2>2. CASE q = p
    BY <2>1, <2>2, <1>2, <1>4, <1>5 DEF Items
  <2>3. CASE q # p
    BY <2>1, <2>3, <1>1 DEF Items
  <2> QED
    BY <2>2, <2>3
<1>15. /\ SpineOK' /\ SeparatorsApart'
       /\ \A v : Unhung(v) /\ v # tuple.value => Unhung(v)'
  BY <1>11, <1>13, <1>14, SpineGains
<1>16. RootsLeft'
  BY <1>8 DEF RootsLeft, TreeOK, IInv, TypeOK
<1> QED
  BY <1>10, <1>11, <1>15, <1>16 DEF TreeOK

\* A call splits an inner node of the left edge: the right half is not on the
\* edge, since its first child is a leaf that is not the first.
LEMMA NodeSplit ==
    ASSUME IInv, PagesSorted, TreeOK, NEW p \in Spine, NEW tuple, NEW s, Halved(p, tuple, s),
           Heads(tuple.key, tuple.value), Unhung(tuple.value), dbobjects' = dbobjects
    PROVE  /\ EdgeStays /\ TreeOK' /\ LeafKeys' = LeafKeys
           /\ \A v : Unhung(v) /\ v # tuple.value => Unhung(v)' /\ v # s.up.value
           /\ Heads(s.up.key, s.up.value)' /\ Unhung(s.up.value)'
<1>1. PICK q \in PageID : q = NewID
  BY NewIDProperties DEF IInv, PageID
<1>2. /\ q \notin DOMAIN pages /\ DOMAIN pages \subseteq PageID
      /\ p \in DOMAIN pages /\ ~IsLeaf(p) /\ Leftmost(p) /\ tuple \in Tuple
      /\ DOMAIN pages' = DOMAIN pages \cup {q}
      /\ s = SplitNode(pages[p], p, q, tuple) /\ ~SplitPanics(pages[p], tuple)
      /\ pages'[q] = s.right /\ pages'[p] = s.left
      /\ \A x \in DOMAIN pages : x # p => pages'[x] = pages[x]
  BY <1>1, NewIDProperties DEF IInv, Halved, Added, Spine
<1>3. PICK page \in Page : page = pages[p] /\ page.type = "Node"
  BY <1>2, PageFacts
<1>4. tuple.key \notin KeysIn(page.items)
  BY <1>3, SeparatorIsNew
<1>5. /\ Sorted(page.items) /\ s = SplitNode(page, p, q, tuple) /\ p \in PageID
      /\ ~SplitPanics(page, tuple) /\ tuple \in Tuple
  BY <1>2, <1>3, PageFacts
<1>6. /\ s.up.key \notin KeysIn(s.left.items)
      /\ ToSet(s.left.items) \subseteq ToSet(page.items) \cup {tuple}
      /\ s.up \in ToSet(page.items) \cup {tuple}
  BY <1>3, <1>4, <1>5, SplitNodeSorted
<1>7. /\ s.left \in Page /\ s.right \in Page /\ s.up \in Tuple
      /\ s.left.type = "Node" /\ s.left.child = page.child
      /\ s.right.type = "Node" /\ s.right.child = s.up.value
  BY <1>5, SplitNodeProperties
<1>8. (\A x \in DOMAIN pages : IsLeaf(x)' <=> IsLeaf(x)) /\ ~IsLeaf(q)'
  BY <1>2, <1>3, <1>7 DEF IsLeaf
<1>9. \A x \in DOMAIN pages : pages'[x].child = pages[x].child
  BY <1>2, <1>3, <1>7
<1>10. \A x \in DOMAIN pages : ~IsLeaf(x) => pages[x].child \in DOMAIN pages
  BY PageFacts
<1>11. \A x \in DOMAIN pages : Leftmost(x) <=> Leftmost(x)'
  BY <1>8, <1>9, <1>10 DEF Leftmost
<1>12. /\ KeysApart' /\ LeafKeys' = LeafKeys
       /\ \A x \in DOMAIN pages : IsLeaf(x) => FirstKey(x)' = FirstKey(x)
  <2>1. \A x \in DOMAIN pages : IsLeaf(x) => pages'[x] = pages[x]
    BY <1>2
  <2> QED
    BY <2>1, <1>2, <1>8, LeavesSame DEF TreeOK
<1>13. EdgeStays
  BY <1>2, <1>8, <1>11, <1>12 DEF EdgeStays
<1>14. \A x \in Items(p) : Heads(x.key, x.value)
  BY DEF TreeOK, SpineOK
<1>15. Items(p) = ToSet(page.items)
  BY <1>3 DEF Items
<1>16. Heads(s.up.key, s.up.value) /\ Heads(s.up.key, s.up.value)'
  BY <1>6, <1>13, <1>14, <1>15, EdgeKeeps
<1>17. ~Leftmost(q)'
  <2>1. PICK v \in DOMAIN pages : v = s.up.value /\ IsLeaf(v) /\ v \notin ObjectID
    BY <1>16 DEF Heads
  <2>2. pages'[q].child = v /\ IsLeaf(v)' /\ ~IsLeaf(q)'
    BY <2>1, <1>2, <1>7, <1>8
  <2> QED
    BY <2>1, <2>2 DEF Leftmost
<1>18. Spine' = Spine
  BY <1>2, <1>8, <1>11, <1>17 DEF Spine
<1>19. \A r \in Spine' : Leftmost(pages[r].child)'
  <2> TAKE r \in Spine'
  <2>1. r \in Spine /\ r \in DOMAIN pages /\ ~IsLeaf(r)
    BY <1>18 DEF Spine
  <2>2. PICK c \in DOMAIN pages : c = pages[r].child /\ c = pages'[r].child /\ Leftmost(c)
    BY <2>1, <1>9, <1>10 DEF TreeOK, SpineOK
  <2>3. Leftmost(c)'
    BY <2>2, <1>11
  <2> QED
    BY <2>2, <2>3
<1>20. \A r \in Spine' : \A x \in Items(r)' :
          (r \in Spine /\ x \in Items(r)) \/ (r = p /\ x = tuple)
  <2> SUFFICES ASSUME NEW r \in Spine', NEW x \in Items(r)'
               PROVE  (r \in Spine /\ x \in Items(r)) \/ (r = p /\ x = tuple)
    OBVIOUS
  <2>1. r \in Spine /\ r \in DOMAIN pages
    BY <1>18 DEF Spine
  <2>2. CASE r = p
    BY <2>1, <2>2, <1>2, <1>6, <1>15 DEF Items
  <2>3. CASE r # p
    BY <2>1, <2>3, <1>2 DEF Items
  <2> QED
    BY <2>2, <2>3
<1>21. /\ SpineOK' /\ SeparatorsApart'
       /\ \A v : Unhung(v) /\ v # tuple.value => Unhung(v)'
  BY <1>13, <1>19, <1>20, SpineGains
<1>22. RootsLeft'
  BY <1>11 DEF RootsLeft, TreeOK, IInv, TypeOK
<1>23. Unhung(s.up.value)'
  <2> SUFFICES ASSUME NEW r \in Spine', NEW x \in Items(r)', x.value = s.up.value PROVE FALSE
    BY DEF Unhung
  <2>1. CASE r = p
    <3>1. x \in ToSet(s.left.items)
      BY <2>1, <1>2 DEF Items
    <3>2. Heads(x.key, x.value)
      BY <3>1, <1>6, <1>14, <1>15
    <3>3. x.key = s.up.key
      BY <3>2, <1>16 DEF Heads
    <3>4. x.key \in KeysIn(s.left.items)
      BY <3>1 DEF ToSet, KeysIn
    <3> QED
      BY <3>3, <3>4, <1>6
  <2>2. CASE r # p
    <3>1. r \in Spine /\ x \in Items(r)
      BY <2>2, <1>20
    <3>2. \A y \in Items(p) : y.value # x.value
      BY <2>2, <3>1 DEF TreeOK, SeparatorsApart
    <3>3. tuple.value # x.value
      BY <3>1 DEF Unhung
    <3> QED
      BY <3>2, <3>3, <1>6, <1>15
  <2> QED
    BY <2>1, <2>2
<1>24. \A v : Unhung(v) /\ v # tuple.value => v # s.up.value
  BY <1>6, <1>15 DEF Unhung
<1> QED
  BY <1>12, <1>13, <1>16, <1>21, <1>22, <1>23, <1>24 DEF TreeOK

\* A new root is allocated and published: it is on the left edge, for the zeros
\* of its child make it lead to page 0, the first leaf of the only object.
LEMMA RootAdd ==
    ASSUME IInv, PagesSorted, TreeOK, ObjectID = {0}, RootAdded,
           NEW o \in ObjectID, dbobjects' = [dbobjects EXCEPT ![o] = NewID]
    PROVE  /\ EdgeStays /\ TreeOK' /\ LeafKeys' = LeafKeys
           /\ \A v : Unhung(v) => Unhung(v)'
<1>1. PICK q, page : q \in PageID /\ q = NewID /\ page = ZeroPage
  BY NewIDProperties DEF IInv, PageID
<1>2. /\ q \notin DOMAIN pages /\ DOMAIN pages' = DOMAIN pages \cup {q}
      /\ pages'[q] = page /\ dbobjects' = [dbobjects EXCEPT ![o] = q]
      /\ \A x \in DOMAIN pages : pages'[x] = pages[x]
  BY <1>1, NewIDProperties DEF IInv, RootAdded, Added
<1>3. page.type = "Node" /\ page.items = <<>> /\ page.child = 0
  BY <1>1 DEF ZeroPage
<1>4. (\A x \in DOMAIN pages : IsLeaf(x)' <=> IsLeaf(x)) /\ ~IsLeaf(q)'
  BY <1>2, <1>3 DEF IsLeaf
<1>5. \A x \in DOMAIN pages : ~IsLeaf(x) => pages[x].child \in DOMAIN pages
  BY PageFacts
<1>6. \A x \in DOMAIN pages : Leftmost(x) <=> Leftmost(x)'
  BY <1>2, <1>4, <1>5 DEF Leftmost
<1>7. /\ KeysApart' /\ LeafKeys' = LeafKeys
      /\ \A x \in DOMAIN pages : IsLeaf(x) => FirstKey(x)' = FirstKey(x)
  BY <1>2, <1>4, LeavesSame DEF TreeOK
<1>8. EdgeStays
  BY <1>2, <1>4, <1>6, <1>7 DEF EdgeStays
<1>9. 0 \in DOMAIN pages /\ IsLeaf(0) /\ Leftmost(0)
  BY DEF IInv, FirstLeaves, Leftmost
<1>10. Leftmost(q)' /\ Leftmost(0)'
  BY <1>2, <1>3, <1>4, <1>6, <1>9 DEF Leftmost
<1>11. Items(q)' = {}
  BY <1>2, <1>3 DEF Items, ToSet
<1>12. \A r \in Spine' : r = q \/ (r \in Spine /\ r \in DOMAIN pages /\ ~IsLeaf(r))
  BY <1>2, <1>4, <1>6 DEF Spine
<1>13. \A r \in Spine' : Leftmost(pages[r].child)'
  <2> TAKE r \in Spine'
  <2>1. CASE r = q
    BY <2>1, <1>2, <1>3, <1>10
  <2>2. CASE r # q
    <3>1. PICK c \in DOMAIN pages : c = pages[r].child /\ c = pages'[r].child /\ Leftmost(c)
      BY <2>2, <1>2, <1>5, <1>12 DEF TreeOK, SpineOK
    <3>2. Leftmost(c)'
      BY <3>1, <1>6
    <3> QED
      BY <3>1, <3>2
  <2> QED
    BY <2>1, <2>2
<1>14. \A r \in Spine' : \A x \in Items(r)' : r \in Spine /\ x \in Items(r)
  BY <1>2, <1>11, <1>12 DEF Items
<1>15. SpineOK' /\ SeparatorsApart' /\ \A v : Unhung(v) => Unhung(v)'
  BY <1>8, <1>13, <1>14, SpineSame
<1>16. RootsLeft'
  BY <1>2, <1>6, <1>10 DEF RootsLeft, TreeOK, IInv, TypeOK
<1> QED
  BY <1>7, <1>8, <1>15, <1>16 DEF TreeOK

\* A root is initialised, whatever separators it had got before.
LEMMA RootMake ==
    ASSUME IInv, PagesSorted, TreeOK, NEW r, NEW child, RootMade(r, child), Leftmost(child),
           dbobjects' = dbobjects
    PROVE  /\ EdgeStays /\ TreeOK' /\ LeafKeys' = LeafKeys
           /\ Leftmost(r)' /\ r \in Spine'
           /\ \A v : Unhung(v) => Unhung(v)'
<1>1. PICK page : page = NodePage(<<>>, NULL_PTR, NULL_PTR, child)
  OBVIOUS
<1>2. /\ r \in DOMAIN pages /\ ~IsLeaf(r) /\ child \in DOMAIN pages
      /\ DOMAIN pages' = DOMAIN pages /\ pages'[r] = page
      /\ \A x \in DOMAIN pages : x # r => pages'[x] = pages[x]
  BY <1>1 DEF RootMade
<1>3. page.type = "Node" /\ page.items = <<>> /\ page.child = child
  BY <1>1 DEF NodePage
<1>4. \A x \in DOMAIN pages : IsLeaf(x)' <=> IsLeaf(x)
  BY <1>2, <1>3 DEF IsLeaf
<1>5. \A x \in DOMAIN pages : ~IsLeaf(x) => pages[x].child \in DOMAIN pages
  BY PageFacts
<1>6. Leftmost(r)'
  <2>1. child \in ObjectID \/ ~IsLeaf(child)
    BY DEF Leftmost
  <2>2. pages'[r].child = child /\ ~IsLeaf(r)' /\ (IsLeaf(child)' <=> IsLeaf(child))
    BY <1>2, <1>3, <1>4
  <2> QED
    BY <2>1, <2>2 DEF Leftmost
<1>7. \A x \in DOMAIN pages : x # r => (Leftmost(x) <=> Leftmost(x)')
  BY <1>2, <1>4, <1>5 DEF Leftmost
<1>8. /\ KeysApart' /\ LeafKeys' = LeafKeys
      /\ \A x \in DOMAIN pages : IsLeaf(x) => FirstKey(x)' = FirstKey(x)
  BY <1>2, <1>4, LeavesSame DEF TreeOK
<1>9. EdgeStays
  BY <1>2, <1>4, <1>6, <1>7, <1>8 DEF EdgeStays
<1>10. Items(r)' = {}
  BY <1>2, <1>3 DEF Items, ToSet
<1>11. \A x \in Spine' : x = r \/ (x \in Spine /\ x \in DOMAIN pages /\ ~IsLeaf(x))
  BY <1>2, <1>4, <1>7 DEF Spine
<1>12. \A x \in Spine' : Leftmost(pages[x].child)'
  <2> TAKE x \in Spine'
  <2>1. PICK c \in DOMAIN pages : c = pages'[x].child /\ Leftmost(c)
    <3>1. CASE x = r
      BY <3>1, <1>2, <1>3
    <3>2. CASE x # r
      BY <3>2, <1>2, <1>5, <1>11 DEF TreeOK, SpineOK
    <3> QED
      BY <3>1, <3>2
  <2>2. Leftmost(c)'
    BY <2>1, <1>6, <1>7
  <2> QED
    BY <2>1, <2>2
<1>13. \A x \in Spine' : \A y \in Items(x)' : x \in Spine /\ y \in Items(x)
  BY <1>2, <1>10, <1>11 DEF Items
<1>14. SpineOK' /\ SeparatorsApart' /\ \A v : Unhung(v) => Unhung(v)'
  BY <1>9, <1>12, <1>13, SpineSame
<1>15. RootsLeft'
  BY <1>9 DEF EdgeStays, RootsLeft, TreeOK, IInv, TypeOK
<1>16. r \in Spine'
  BY <1>2, <1>4, <1>6 DEF Spine
<1> QED
  BY <1>6, <1>8, <1>9, <1>14, <1>15, <1>16 DEF TreeOK

-----------------------------------------------------------------------------
(* The steps of the calls. *)

\* The insertion that a state of a thread is in, told by where it stands.
LEMMA CallIsOf ==
    ASSUME NEW s
    PROVE  /\ s.at # "init" => \A c : CallIs(s, c) => c = s
           /\ s.at = "init" => \A c : CallIs(s, c) => c = s.call
           /\ s.at \in {"idle", "panicked"} => \A c : ~CallIs(s, c)
           /\ s \in ScanCall => \A c : ~CallIs(s, c)
           /\ s \in InsertCall => CallIs(s, s)
           /\ s \in RootCall /\ s.call \in InsertCall => CallIs(s, s.call)
<1>1. \A r \in RootCall : r.at = "init"
  BY DEF RootCall
<1>2. \A c \in InsertCall : c.at \in {"descend", "insert", "split", "parent"} /\ c.scan = FALSE
  BY DEF InsertCall
<1>3. \A c \in ScanCall : c.at \in {"descend", "position", "next", "fetch", "end"} /\ c.scan = TRUE
  BY DEF ScanCall
<1> QED
  BY <1>1, <1>2, <1>3 DEF CallIs

LEMMA NoCallIs == \A c : ~CallIs(Idle, c) /\ ~CallIs(Panicked, c)
<1>1. Idle.at = "idle" /\ Panicked.at = "panicked"
  BY DEF Idle, Panicked
<1> QED
  BY <1>1, CallIsOf

\* A step of a call that changes pages.
ValuesApart(s, c) ==
    \A v \in DOMAIN pages : Unhung(v) /\ (~Pending(c) => v # c.tuple.value) =>
       /\ Unhung(v)'
       /\ \A d : CallIs(s, d) /\ ~Pending(d)' => v # d.tuple.value

LEMMA ChangeKeepsKeys ==
    ASSUME IInv, KeysInv, EdgeStays, TreeOK', NEW t \in Threads, NEW c, CallIs(op[t], c),
           NEW s, op' = [op EXCEPT ![t] = s], NewCallOK(s),
           \A d : CallIs(s, d) => d.key = c.key,
           LeafKeys' \subseteq LeafKeys \cup {c.key}, ValuesApart(s, c)
    PROVE  KeysInv'
<1>1. ASSUME NEW u \in Threads, u # t, NEW e, CallIs(op[u], e)
      PROVE  /\ Pending(e) => e.key \notin LeafKeys'
             /\ ~Pending(e) => Unhung(e.tuple.value)'
             /\ \A d : CallIs(s, d) => /\ d.key # e.key
                                       /\ ~Pending(d)' /\ ~Pending(e) => d.tuple.value # e.tuple.value
  <2>1. Apart(c, e) /\ Fresh(e)
    BY <1>1 DEF KeysInv, CallsDiffer, WaysOK
  <2>2. c.key # e.key
    BY <2>1 DEF Apart
  <2>3. Pending(e) => e.key \notin LeafKeys'
    BY <2>1, <2>2 DEF Fresh
  <2>4. ~Pending(e) => /\ e.tuple.value \in DOMAIN pages /\ Unhung(e.tuple.value)
                       /\ ~Pending(c) => e.tuple.value # c.tuple.value
    BY <2>1 DEF Fresh, Heads, Apart
  <2>5. ~Pending(e) => /\ Unhung(e.tuple.value)'
                       /\ \A d : CallIs(s, d) /\ ~Pending(d)' => e.tuple.value # d.tuple.value
    BY <2>4 DEF ValuesApart
  <2> QED
    BY <2>2, <2>3, <2>5
<1>2. OthersStay(t, s)
  BY <1>1 DEF OthersStay
<1>3. WaysOK' /\ CallsDiffer'
  BY <1>2, CallsStay
<1> QED
  BY <1>3 DEF KeysInv

\* A step that changes no page.
LEMMA QuietTree ==
    ASSUME IInv, TreeOK, UNCHANGED <<pages, dbobjects>>
    PROVE  /\ EdgeStays /\ TreeOK' /\ LeafKeys' = LeafKeys
           /\ \A v : Unhung(v) => Unhung(v)'
<1>1. \A p : (IsLeaf(p)' <=> IsLeaf(p)) /\ (Leftmost(p)' <=> Leftmost(p)) /\ FirstKey(p)' = FirstKey(p)
  BY DEF IsLeaf, Leftmost, FirstKey
<1>2. EdgeStays
  BY <1>1 DEF EdgeStays
<1>3. LeafKeys' = LeafKeys
  BY DEF LeafKeys, IsLeaf
<1>4. Spine' = Spine /\ \A p : Items(p)' = Items(p)
  BY <1>1 DEF Spine, Items
<1>5. \A v : Unhung(v) => Unhung(v)'
  BY <1>4 DEF Unhung
<1>6. KeysApart' /\ SeparatorsApart' /\ RootsLeft'
  BY <1>1, <1>4 DEF KeysApart, SeparatorsApart, RootsLeft, TreeOK
<1>7. \A k, v : Heads(k, v)' <=> Heads(k, v)
  BY <1>1 DEF Heads
<1>8. SpineOK'
  <2>1. \A p : Leftmost(pages[p].child)' <=> Leftmost(pages[p].child)
    BY <1>1
  <2> QED
    BY <2>1, <1>4, <1>7 DEF SpineOK, TreeOK
<1> QED
  BY <1>2, <1>3, <1>5, <1>6, <1>8 DEF TreeOK

LEMMA QuietKeepsKeys ==
    ASSUME IInv, KeysInv, UNCHANGED <<pages, dbobjects>>, NEW t \in Threads,
           NEW s, op' = [op EXCEPT ![t] = s],
           \A c : CallIs(s, c) => PlaceOK(c) /\ OnWay(c) /\ Fresh(c),
           \A c : CallIs(s, c) => \A u \in Threads : u # t =>
              \A d : CallIs(op[u], d) => Apart(c, d)
    PROVE  KeysInv'
<1>1. /\ EdgeStays /\ TreeOK' /\ LeafKeys' = LeafKeys
      /\ \A v : Unhung(v) => Unhung(v)'
  BY QuietTree DEF KeysInv
<1>2. ASSUME NEW c, CallIs(s, c)
      PROVE  OnWay(c)' /\ Fresh(c)' /\ (Pending(c)' <=> Pending(c))
  <2>1. PlaceOK(c) /\ OnWay(c) /\ Fresh(c)
    BY <1>2
  <2>2. /\ Pending(c) => c.key \notin LeafKeys'
        /\ ~Pending(c) => Unhung(c.tuple.value)'
    BY <2>1, <1>1 DEF Fresh
  <2> QED
    BY <2>1, <2>2, <1>1, CallStays
<1>3. ASSUME NEW u \in Threads, u # t, NEW d, CallIs(op[u], d)
      PROVE  /\ Pending(d) => d.key \notin LeafKeys'
             /\ ~Pending(d) => Unhung(d.tuple.value)'
             /\ \A c : CallIs(s, c) => /\ c.key # d.key
                                       /\ ~Pending(c)' /\ ~Pending(d) => c.tuple.value # d.tuple.value
  <2>1. Fresh(d)
    BY <1>3 DEF KeysInv, WaysOK
  <2>2. \A c : CallIs(s, c) => Apart(c, d)
    BY <1>3
  <2> QED
    BY <2>1, <2>2, <1>1, <1>2 DEF Fresh, Apart
<1>4. OthersStay(t, s) /\ NewCallOK(s)
  BY <1>2, <1>3 DEF OthersStay, NewCallOK
<1> QED
  BY <1>1, <1>4, CallsStay DEF KeysInv

\* What the invariants say of an insertion.
LEMMA InCall ==
    ASSUME IInv, KeysInv, NEW t \in Threads, NEW c \in InsertCall, c = op[t]
    PROVE  /\ CallIs(op[t], c) /\ \A d : CallIs(op[t], d) => d = c
           /\ InsertOK(c) /\ PlaceOK(c) /\ OnWay(c) /\ Fresh(c)
           /\ \A u \in Threads : u # t => \A d : CallIs(op[u], d) => Apart(c, d)
<1>1. CallIs(op[t], c)
  BY DEF CallIs
<1>2. c.at # "init"
  BY DEF InsertCall
<1>3. \A d : CallIs(op[t], d) => d = c
  BY <1>2, CallIsOf
<1>4. InsertOK(c) /\ PlaceOK(c)
  BY <1>1, CallPlaced
<1>5. OnWay(c) /\ Fresh(c)
  BY <1>1 DEF KeysInv, WaysOK
<1> QED
  BY <1>1, <1>3, <1>4, <1>5 DEF KeysInv, CallsDiffer

\* Where an insertion stands when it has looked at a page.
Reached(s) == (s.at = "insert" /\ IsLeaf(s.page)) \/ (s.at = "descend" /\ ~IsLeaf(s.page))

\* A new insertion is at the root of its object.
LEMMA BeginInsertDoes ==
    ASSUME IInv, NEW t \in Threads, NEW o \in ObjectID, NEW k \in Key, BeginInsert(t, o, k)
    PROVE  /\ op[t].at = "idle" /\ UNCHANGED <<pages, dbobjects>>
           /\ \E s \in InsertCall : /\ op' = [op EXCEPT ![t] = s] /\ PlaceOK(s) /\ Reached(s)
                                    /\ s.key = k /\ s.page = dbobjects[o] /\ s.parents = <<>>
<1>1. TypeOK /\ op[t].at = "idle" /\ UNCHANGED <<pages, dbobjects>>
  BY DEF IInv, BeginInsert
<1>2. PICK c : c = [scan |-> FALSE, object |-> o, key |-> k, page |-> NULL_PTR,
                    tuple |-> [key |-> k, value |-> NULL_PTR],
                    parents |-> <<>>, at |-> "idle"]
  OBVIOUS
<1>3. c \in InsertStart /\ c.key = k
  <2>1. [key |-> k, value |-> NULL_PTR] \in Tuple /\ NULL_PTR \in Pointer
    BY DEF Tuple, Pointer
  <2>2. <<>> \in Seq(PageID)
    BY EmptySeq
  <2> QED
    BY <1>2, <2>1, <2>2 DEF InsertStart
<1>4. PICK p \in DOMAIN pages : p = dbobjects[o]
  BY <1>1 DEF TypeOK
<1>5. PICK ps \in Seq(PageID) : ps = <<>> /\ \A i \in DOMAIN ps : FALSE
  <2>1. PICK ps : ps = <<>>
    OBVIOUS
  <2>2. ps \in Seq(PageID) /\ \A i \in DOMAIN ps : FALSE
    BY <2>1, EmptySeq
  <2> QED
    BY <2>1, <2>2
<1>6. PICK s : s = Reach(c, p, ps)
  OBVIOUS
<1>7. op' = [op EXCEPT ![t] = s]
  BY <1>2, <1>4, <1>5, <1>6 DEF BeginInsert, Step
<1>8. /\ s \in InsertCall /\ PlaceOK(s) /\ s.key = k /\ s.page = p /\ s.parents = ps
      /\ (s.at = "insert" /\ IsLeaf(p)) \/ (s.at = "descend" /\ ~IsLeaf(p))
  <2>1. \A i \in DOMAIN ps : ps[i] \in DOMAIN pages /\ ~IsLeaf(ps[i])
    BY <1>5
  <2> QED
    BY <2>1, <1>1, <1>3, <1>6, ReachInsert
<1>9. Reached(s)
  BY <1>8 DEF Reached
<1> QED
  BY <1>1, <1>4, <1>5, <1>7, <1>8, <1>9

\* A key that is inserted once is in no leaf when its insertion begins, and no
\* other call has it.
LEMMA BeginInsertKeepsKeys ==
    ASSUME IInv, KeysInv, ObjectID = {0}, ~Duplicates,
           NEW t \in Threads, NEW o \in ObjectID, NEW k \in Key, BeginInsert(t, o, k)
    PROVE  KeysInv'
<1>1. TypeOK /\ LeavesBegun /\ k \notin begun[o] /\ UNCHANGED <<pages, dbobjects>>
  BY DEF IInv, BeginInsert
<1>2. PICK p \in DOMAIN pages : p = dbobjects[o] /\ Leftmost(p)
  BY <1>1 DEF TypeOK, KeysInv, TreeOK, RootsLeft
<1>3. PICK s \in InsertCall : /\ op' = [op EXCEPT ![t] = s] /\ PlaceOK(s) /\ Reached(s)
                              /\ s.key = k /\ s.page = p /\ s.parents = <<>>
  BY <1>2, BeginInsertDoes
<1>4. Pending(s)
  BY <1>3 DEF Reached, Pending
<1>5. k \notin LeafKeys
  BY <1>1 DEF LeavesBegun
<1>6. OnWay(s)
  <2>1. IsLeaf(p) => p \in ObjectID
    BY <1>2 DEF Leftmost
  <2>2. ~IsLeaf(p) => p \in Spine
    BY <1>2 DEF Spine
  <2>3. PICK ps : ps = s.parents /\ \A i \in DOMAIN ps : FALSE
    BY <1>3, EmptySeq
  <2> QED
    BY <2>1, <2>2, <2>3, <1>2, <1>3 DEF OnWay
<1>7. Fresh(s)
  BY <1>3, <1>4, <1>5 DEF Fresh
<1>8. \A d : CallIs(s, d) => d = s
  BY <1>3, CallIsOf DEF Reached
<1>9. ASSUME NEW u \in Threads, NEW d, CallIs(op[u], d) PROVE Apart(s, d)
  <2>1. d \in InsertCall /\ InsertOK(d)
    BY <1>9, CallPlaced
  <2>2. d.object = o /\ d.key \in begun[d.object]
    BY <2>1 DEF InsertCall, InsertOK
  <2> QED
    BY <2>2, <1>1, <1>3, <1>4 DEF Apart
<1> QED
  BY <1>1, <1>3, <1>6, <1>7, <1>8, <1>9, QuietKeepsKeys

\* The search goes to a page of the left edge, or to a leaf whose first key is
\* not above the key.
LEMMA ChildStarts ==
    ASSUME IInv, PagesSorted, TreeOK, NEW p \in Spine, NEW k \in Key,
           NEW q, q = Child(pages[p], k)
    PROVE  /\ q \in DOMAIN pages
           /\ IF IsLeaf(q) THEN q \notin ObjectID => FirstKey(q) <= k ELSE q \in Spine
<1>1. p \in DOMAIN pages /\ ~IsLeaf(p)
  BY DEF Spine
<1>2. PICK page \in Page, items \in Seq(Tuple) :
         /\ page = pages[p] /\ items = page.items /\ Sorted(items)
         /\ page.child \in DOMAIN pages
  BY <1>1, PageFacts
<1>3. k \in Nat
  BY TreeAssumption
<1>4. PICK found : found = PartitionUpper(items, k)
  OBVIOUS
<1>5. q = IF found = 0 THEN page.child ELSE items[found].value
  BY <1>2, <1>4 DEF Child
<1>6. PICK n \in Nat : n = Len(items) /\ DOMAIN items = 1 .. n
  BY <1>2, LenProperties
<1>7. found \in 0 .. n
  BY <1>4, <1>6, PartitionBounds
<1>8. CASE found = 0
  <2>1. q = page.child /\ Leftmost(q) /\ q \in DOMAIN pages
    BY <1>2, <1>5, <1>8 DEF TreeOK, SpineOK
  <2> QED
    BY <2>1 DEF Leftmost, Spine
<1>9. CASE found # 0
  <2>1. found \in DOMAIN items
    BY <1>6, <1>7, <1>9
  <2>2. PICK x : x = items[found] /\ x \in ToSet(items)
    BY <2>1 DEF ToSet
  <2>3. Heads(x.key, x.value) /\ q = x.value
    BY <2>2, <1>2, <1>5, <1>9 DEF TreeOK, SpineOK, Items
  <2>4. x.key <= k
    <3>1. \A i \in DOMAIN items : items[i].key <= k <=> i <= found
      BY <1>2, <1>3, <1>4, PartitionSplits
    <3>2. found <= found
      BY <1>7
    <3> QED
      BY <2>1, <2>2, <3>1, <3>2
  <2> QED
    BY <2>3, <2>4 DEF Heads
<1> QED
  BY <1>8, <1>9

\* When no leaf has the key, the first one is below it.
LEMMA ChildOnWay ==
    ASSUME IInv, PagesSorted, TreeOK, NEW p \in Spine, NEW k \in Key, k \notin LeafKeys,
           NEW q, q = Child(pages[p], k)
    PROVE  IF IsLeaf(q) THEN q \notin ObjectID => FirstKey(q) < k ELSE q \in Spine
<1>1. /\ q \in DOMAIN pages
      /\ IF IsLeaf(q) THEN q \notin ObjectID => FirstKey(q) <= k ELSE q \in Spine
  BY ChildStarts
<1>2. ASSUME IsLeaf(q), q \notin ObjectID PROVE FirstKey(q) < k
  <2>1. FirstKey(q) \in LeafKeys
    BY <1>1, <1>2, PageFacts
  <2>2. FirstKey(q) # k /\ FirstKey(q) \in Nat /\ k \in Nat
    BY <2>1, TreeAssumption DEF LeafKeys
  <2> QED
    BY <2>2, <1>1, <1>2
<1> QED
  BY <1>1, <1>2

\* A search goes on from an inner node.
LEMMA DescendDoes ==
    ASSUME IInv, NEW t \in Threads, Descend(t), NEW c, c = op[t]
    PROVE  /\ c.at = "descend" /\ c.page \in DOMAIN pages /\ ~IsLeaf(c.page)
           /\ UNCHANGED <<pages, dbobjects>>
           /\ \/ /\ c \in InsertCall
                 /\ \E s \in InsertCall :
                       /\ op' = [op EXCEPT ![t] = s] /\ PlaceOK(s) /\ Reached(s)
                       /\ s.key = c.key /\ s.page = Child(pages[c.page], c.key)
                       /\ s.parents # <<>>
                       /\ \A i \in DOMAIN s.parents :
                             s.parents[i] = c.page \/ \E j \in DOMAIN c.parents : s.parents[i] = c.parents[j]
              \/ /\ c \in ScanCall
                 /\ \E s \in ScanCall :
                       /\ op' = [op EXCEPT ![t] = s]
                       /\ s.page = Child(pages[c.page], c.key) /\ s.key = c.key
                       /\ s.end = c.end /\ s.due = c.due /\ s.out = c.out
                       /\ s.at = IF IsLeaf(s.page) THEN "position" ELSE "descend"
<1>1. c.at = "descend" /\ UNCHANGED <<pages, dbobjects>>
  BY DEF Descend
<1>2. c \in CallState /\ CallOK(c) /\ TypeOK
  BY CallOf DEF IInv
<1>3. c \in InsertCall \cup ScanCall
  BY <1>1, <1>2, CallsApart
<1>4. PICK p, ps : p = Child(pages[c.page], c.key) /\ ps = Append(c.parents, c.page)
  OBVIOUS
<1>5. PICK s : s = Reach(c, p, ps)
  OBVIOUS
<1>6. op' = [op EXCEPT ![t] = s]
  BY <1>4, <1>5 DEF Descend, Step
<1>7. PlaceOK(c) /\ ~IsLeaf(c.page) /\ c.page \in DOMAIN pages
  BY <1>1, <1>2, <1>3 DEF CallOK, InsertOK, ScanOK, PlaceOK
<1>8. p \in DOMAIN pages
  BY <1>2, <1>4, <1>7, ChildIsPage
<1>9. PICK n \in Nat : n = Len(c.parents) /\ c.parents \in Seq(PageID) /\ DOMAIN c.parents = 1 .. n
  BY <1>3, LenProperties DEF InsertCall, ScanCall
<1>10. /\ ps \in Seq(PageID) /\ DOMAIN ps = 1 .. n + 1 /\ ps # <<>>
       /\ \A i \in 1 .. n : ps[i] = c.parents[i]
       /\ ps[n + 1] = c.page
  <2>1. c.page \in PageID
    BY <1>3 DEF InsertCall, ScanCall
  <2>2. /\ ps \in Seq(PageID) /\ Len(ps) = n + 1
        /\ \A i \in 1 .. n : ps[i] = c.parents[i]
        /\ ps[n + 1] = c.page
    BY <1>4, <1>9, <2>1, AppendProperties
  <2>3. DOMAIN ps = 1 .. n + 1 /\ n + 1 # 0
    BY <2>2, LenProperties
  <2> QED
    BY <2>2, <2>3, EmptySeq
<1>11. \A i \in 1 .. n + 1 : i \in 1 .. n \/ i = n + 1
  OBVIOUS
<1>12. \A i \in DOMAIN ps : ps[i] \in DOMAIN pages /\ ~IsLeaf(ps[i])
  BY <1>7, <1>9, <1>10, <1>11 DEF PlaceOK
<1>13. \A i \in DOMAIN ps : ps[i] = c.page \/ \E j \in DOMAIN c.parents : ps[i] = c.parents[j]
  BY <1>9, <1>10, <1>11
<1>14. CASE c \in ScanCall
  <2>1. c \in ScanStart
    BY <1>14, <1>1 DEF ScanCall, ScanStart, Pointer
  <2>2. c.scan = TRUE
    BY <2>1 DEF ScanStart
  <2>3. pages[p].type = "Node" <=> ~IsLeaf(p)
    BY <1>2, <1>8 DEF TypeOK, Page, IsLeaf
  <2>4. PICK at : at = IF IsLeaf(p) THEN "position" ELSE "descend"
    OBVIOUS
  <2>5. s = [c EXCEPT !.page = p, !.parents = ps, !.at = at] /\ at \in {"position", "descend"}
    BY <2>2, <2>3, <2>4, <1>5 DEF Reach
  <2>6. p \in PageID
    BY <1>2, <1>8, NewIDProperties DEF IInv
  <2>7. /\ s \in ScanCall /\ s.page = p /\ s.key = c.key /\ s.end = c.end
        /\ s.due = c.due /\ s.out = c.out /\ s.at = at
    BY <2>5, <2>6, <1>10, <1>14 DEF ScanCall
  <2> QED
    BY <2>4, <2>7, <1>1, <1>4, <1>6, <1>7, <1>14
<1>15. CASE c \in InsertCall
  <2>1. c \in InsertStart
    BY <1>15, <1>1 DEF InsertCall, InsertStart, Pointer
  <2>2. /\ s \in InsertCall /\ PlaceOK(s)
        /\ s.key = c.key /\ s.page = p /\ s.parents = ps
        /\ (s.at = "insert" /\ IsLeaf(p)) \/ (s.at = "descend" /\ ~IsLeaf(p))
    BY <2>1, <1>2, <1>5, <1>8, <1>10, <1>12, ReachInsert
  <2>3. Reached(s)
    BY <2>2 DEF Reached
  <2>4. \A i \in DOMAIN s.parents :
           s.parents[i] = c.page \/ \E j \in DOMAIN c.parents : s.parents[i] = c.parents[j]
    BY <2>2, <1>13
  <2>5. s.page = Child(pages[c.page], c.key)
    BY <2>2, <1>4
  <2>6. s.parents # <<>>
    BY <2>2, <1>10
  <2>7. /\ s \in InsertCall /\ op' = [op EXCEPT ![t] = s] /\ PlaceOK(s) /\ Reached(s)
        /\ s.key = c.key
    BY <2>2, <2>3, <1>6
  <2> HIDE <2>2, <2>3, <1>4, <1>5, <1>6, <1>10, <1>12, <1>13
  <2> QED
    BY <2>4, <2>5, <2>6, <2>7, <1>1, <1>7, <1>15
<1> QED
  BY <1>3, <1>14, <1>15

LEMMA DescendKeepsKeys ==
    ASSUME IInv, PagesSorted, KeysInv, NEW t \in Threads, Descend(t)
    PROVE  KeysInv'
<1>1. PICK c : c = op[t]
  OBVIOUS
<1>2. /\ c.at = "descend" /\ c.page \in DOMAIN pages /\ ~IsLeaf(c.page)
      /\ UNCHANGED <<pages, dbobjects>>
  BY <1>1, DescendDoes
<1>3. ASSUME NEW s \in ScanCall, op' = [op EXCEPT ![t] = s] PROVE KeysInv'
  <2>1. \A d : ~CallIs(s, d)
    BY CallIsOf
  <2> QED
    BY <2>1, <1>2, <1>3, QuietKeepsKeys
<1>4. ASSUME c \in InsertCall, NEW s \in InsertCall,
             op' = [op EXCEPT ![t] = s], PlaceOK(s), Reached(s),
             s.key = c.key, s.page = Child(pages[c.page], c.key), s.parents # <<>>,
             \A i \in DOMAIN s.parents :
                s.parents[i] = c.page \/ \E j \in DOMAIN c.parents : s.parents[i] = c.parents[j]
      PROVE  KeysInv'
  <2>1. /\ OnWay(c) /\ Fresh(c)
        /\ \A u \in Threads : u # t => \A d : CallIs(op[u], d) => Apart(c, d)
    BY <1>1, <1>4, InCall
  <2>2. Pending(c) /\ Pending(s)
    BY <1>2, <1>4 DEF Pending, Reached
  <2>3. c.key \notin LeafKeys /\ c.key \in Key
    BY <2>1, <2>2, <1>4 DEF Fresh, InsertCall
  <2>4. c.page \in Spine
    BY <2>1, <1>2 DEF OnWay
  <2>5. PICK p : p = s.page
    OBVIOUS
  <2>6. IF IsLeaf(p) THEN p \notin ObjectID => FirstKey(p) < c.key ELSE p \in Spine
    BY <2>3, <2>4, <2>5, <1>4, ChildOnWay DEF KeysInv
  <2>7. \A i \in DOMAIN s.parents : s.parents[i] \in Spine
    BY <2>1, <2>4, <1>4 DEF OnWay
  <2>8. OnWay(s) /\ Fresh(s)
    BY <2>2, <2>3, <2>5, <2>6, <2>7, <1>4 DEF OnWay, Fresh
  <2>9. \A d : CallIs(s, d) => d = s
    BY <1>4, CallIsOf DEF Reached
  <2>10. \A u \in Threads : u # t => \A d : CallIs(op[u], d) => Apart(s, d)
    BY <2>1, <2>2, <1>4 DEF Apart
  <2> QED
    BY <2>8, <2>9, <2>10, <1>2, <1>4, QuietKeepsKeys
<1>5. CASE \E s \in ScanCall : op' = [op EXCEPT ![t] = s]
  BY <1>3, <1>5
<1>6. CASE ~\E s \in ScanCall : op' = [op EXCEPT ![t] = s]
  <2>1. /\ c \in InsertCall
        /\ \E s \in InsertCall :
              /\ op' = [op EXCEPT ![t] = s] /\ PlaceOK(s) /\ Reached(s)
              /\ s.key = c.key /\ s.page = Child(pages[c.page], c.key) /\ s.parents # <<>>
              /\ \A i \in DOMAIN s.parents :
                    s.parents[i] = c.page \/ \E j \in DOMAIN c.parents : s.parents[i] = c.parents[j]
    BY <1>1, <1>6, DescendDoes
  <2> QED
    BY <2>1, <1>4
<1> QED
  BY <1>5, <1>6

\* A call that has split a page turns to the node it came from.
TurnsBack(s, c) ==
    /\ s.at = "insert" /\ s.key = c.key /\ s.tuple = c.tuple
    /\ \E n \in DOMAIN c.parents : s.page = c.parents[n]
    /\ \A i \in DOMAIN s.parents : \E j \in DOMAIN c.parents : s.parents[i] = c.parents[j]

LEMMA PopParentDoes ==
    ASSUME IInv, NEW t \in Threads, PopParent(t), NEW c, c = op[t]
    PROVE  /\ c \in InsertCall /\ c.at = "parent" /\ UNCHANGED <<pages, dbobjects>>
           /\ \E s : op' = [op EXCEPT ![t] = s] /\ TurnsBack(s, c)
<1>1. c.at = "parent" /\ c.parents # <<>> /\ UNCHANGED <<pages, dbobjects>>
  BY DEF PopParent
<1>2. c \in CallState
  BY CallOf
<1>3. c \in InsertCall
  BY <1>1, <1>2, CallsApart
<1>4. PICK s : s = [c EXCEPT !.at = "insert", !.page = Last(c.parents), !.parents = Front(c.parents)]
  OBVIOUS
<1>5. op' = [op EXCEPT ![t] = s]
  BY <1>4 DEF PopParent, Step
<1>6. PICK n \in Nat : /\ n = Len(c.parents) /\ DOMAIN c.parents = 1 .. n /\ n # 0
                       /\ c.parents \in Seq(PageID)
  BY <1>1, <1>3, LenProperties, EmptySeq DEF InsertCall
<1>7. /\ s.at = "insert" /\ s.page = c.parents[n] /\ s.parents = SubSeq(c.parents, 1, n - 1)
      /\ s.key = c.key /\ s.tuple = c.tuple
  BY <1>3, <1>4, <1>6 DEF InsertCall, Last, Front
<1>8. /\ DOMAIN s.parents = 1 .. n - 1
      /\ \A i \in 1 .. n - 1 : s.parents[i] = c.parents[i]
  <2>1. PICK f : f = SubSeq(c.parents, 1, n - 1)
    OBVIOUS
  <2>2. /\ f \in Seq(PageID) /\ Len(f) = IF 1 <= n - 1 THEN (n - 1) - 1 + 1 ELSE 0
        /\ \A i \in 1 .. (n - 1) - 1 + 1 : f[i] = c.parents[1 + i - 1]
    <3>1. \A i \in 1 .. n - 1 : c.parents[i] \in PageID
      BY <1>6, ElementOfSeq
    <3> QED
      BY <1>6, <2>1, <3>1, SubSeqProperties
  <2>3. Len(f) = n - 1 /\ \A i \in 1 .. n - 1 : f[i] = c.parents[i]
    BY <2>2, <1>6
  <2>4. DOMAIN f = 1 .. n - 1
    BY <2>2, <2>3, LenProperties
  <2> QED
    BY <2>1, <2>3, <2>4, <1>7
<1>9. n \in DOMAIN c.parents /\ \A i \in DOMAIN s.parents : i \in DOMAIN c.parents
  BY <1>6, <1>8
<1>10. \A i \in DOMAIN s.parents : \E j \in DOMAIN c.parents : s.parents[i] = c.parents[j]
  BY <1>8, <1>9
<1>11. \E m \in DOMAIN c.parents : s.page = c.parents[m]
  BY <1>7, <1>9
<1>12. s.at = "insert" /\ s.key = c.key /\ s.tuple = c.tuple
  BY <1>7
<1>13. TurnsBack(s, c)
  BY <1>10, <1>11, <1>12 DEF TurnsBack
<1> QED
  BY <1>1, <1>3, <1>5, <1>13

LEMMA PopParentKeepsKeys ==
    ASSUME IInv, KeysInv, NEW t \in Threads, PopParent(t)
    PROVE  KeysInv'
<1>1. PICK c : c = op[t]
  OBVIOUS
<1>2. c \in InsertCall /\ c.at = "parent" /\ UNCHANGED <<pages, dbobjects>>
  BY <1>1, PopParentDoes
<1>3. PICK s : /\ op' = [op EXCEPT ![t] = s] /\ TurnsBack(s, c)
               /\ s.at = "insert" /\ s.key = c.key /\ s.tuple = c.tuple
  BY <1>1, PopParentDoes DEF TurnsBack
<1>4. /\ OnWay(c) /\ Fresh(c)
      /\ \A u \in Threads : u # t => \A d : CallIs(op[u], d) => Apart(c, d)
  BY <1>1, <1>2, InCall
<1>5. s.page \in Spine /\ \A i \in DOMAIN s.parents : s.parents[i] \in Spine
  BY <1>3, <1>4 DEF OnWay, TurnsBack
<1>6. s.page \in DOMAIN pages /\ ~IsLeaf(s.page) /\ Leftmost(s.page)
  BY <1>5 DEF Spine
<1>7. PlaceOK(s)
  BY <1>3, <1>5, <1>6 DEF PlaceOK, Spine
<1>8. OnWay(s)
  BY <1>5, <1>6 DEF OnWay
<1>9. ~Pending(s) /\ ~Pending(c)
  BY <1>2, <1>3, <1>6 DEF Pending
<1>10. Fresh(s) /\ \A u \in Threads : u # t => \A d : CallIs(op[u], d) => Apart(s, d)
  BY <1>3, <1>4, <1>9 DEF Fresh, Apart
<1>11. \A d : CallIs(s, d) => d = s
  BY <1>3, CallIsOf
<1> QED
  BY <1>2, <1>3, <1>7, <1>8, <1>10, <1>11, QuietKeepsKeys

\* A step of a scan, or its beginning, begins no insertion.
NoInsertion(s) == s.at # "init" /\ \A d : ~CallIs(s, d)

LEMMA ScanDoes ==
    ASSUME IInv, NEW t \in Threads,
           \/ \E o \in ObjectID, a, b \in Key : BeginScan(t, o, a, b)
           \/ Position(t) \/ Advance(t) \/ Fetch(t) \/ EndScan(t)
    PROVE  /\ UNCHANGED <<pages, dbobjects>> /\ NoInsertion(op[t])
           /\ \E s : op' = [op EXCEPT ![t] = s] /\ NoInsertion(s)
<1>1. UNCHANGED <<pages, dbobjects>>
  BY DEF BeginScan, Position, Advance, Fetch, EndScan
<1>2. PICK c : c = op[t]
  OBVIOUS
<1>3. c \in CallState
  BY <1>2, CallOf
<1>4. NoInsertion(c)
  <2>1. c.at \in {"idle", "position", "next", "fetch", "end"}
    BY <1>2 DEF BeginScan, Position, Advance, Fetch, EndScan
  <2>2. c.at = "idle" \/ c \in ScanCall
    BY <2>1, <1>3, CallsApart
  <2> QED
    BY <2>1, <2>2, CallIsOf DEF NoInsertion
<1>5. ASSUME NEW s, s.scan = TRUE, s.at # "init" PROVE NoInsertion(s)
  BY <1>5 DEF NoInsertion, CallIs, InsertCall, RootCall
<1>6. ASSUME NEW o \in ObjectID, NEW a \in Key, NEW b \in Key, BeginScan(t, o, a, b)
      PROVE  \E s : op' = [op EXCEPT ![t] = s] /\ NoInsertion(s)
  <2>1. PICK r : r = [scan |-> TRUE, object |-> o, key |-> a, end |-> b,
                      page |-> NULL_PTR, parents |-> <<>>, idx |-> 0,
                      out |-> <<>>, due |-> {k \in stored[o] : a <= k /\ k <= b},
                      at |-> "idle"]
    OBVIOUS
  <2>2. PICK s : s = Reach(r, dbobjects[o], <<>>)
    OBVIOUS
  <2>3. op' = [op EXCEPT ![t] = s]
    BY <1>6, <2>1, <2>2 DEF BeginScan, Step
  <2>4. r.scan = TRUE /\ "at" \in DOMAIN r
    BY <2>1
  <2>5. s.scan = TRUE /\ s.at \in {"descend", "position"}
    BY <2>1, <2>2 DEF Reach
  <2> QED
    BY <2>3, <2>5, <1>5
<1>7. ASSUME Position(t) \/ Advance(t) \/ Fetch(t) \/ EndScan(t)
      PROVE  \E s : op' = [op EXCEPT ![t] = s] /\ NoInsertion(s)
  <2>1. c.at \in {"position", "next", "fetch", "end"}
    BY <1>2, <1>7 DEF Position, Advance, Fetch, EndScan
  <2>2. c \in ScanCall
    BY <2>1, <1>3, CallsApart
  <2>3. PICK s : op' = [op EXCEPT ![t] = s] /\ (s \in {Idle, Panicked} \/ (s.scan = TRUE /\ s.at # "init"))
    <3>1. CASE EndScan(t)
      BY <3>1 DEF EndScan, Step
    <3>2. CASE Position(t)
      <4>1. PICK s, idx : s = [c EXCEPT !.at = "next", !.idx = idx] /\ op' = [op EXCEPT ![t] = s]
        BY <3>2, <1>2 DEF Position, Step
      <4>2. s.scan = TRUE /\ s.at # "init"
        BY <4>1, <2>2 DEF ScanCall
      <4> QED
        BY <4>1, <4>2
    <3>3. CASE Advance(t)
      <4>1. PICK s, page : /\ \/ s = [c EXCEPT !.at = "fetch"]
                              \/ s = [c EXCEPT !.at = "fetch", !.page = page, !.idx = 0]
                              \/ s = [c EXCEPT !.at = "end"]
                           /\ op' = [op EXCEPT ![t] = s]
        BY <3>3, <1>2 DEF Advance, Step
      <4>2. s.scan = TRUE /\ s.at # "init"
        BY <4>1, <2>2 DEF ScanCall
      <4> QED
        BY <4>1, <4>2
    <3>4. CASE Fetch(t)
      <4>1. PICK s, idx, out : /\ \/ s = Panicked
                                  \/ s = [c EXCEPT !.at = "end"]
                                  \/ s = [c EXCEPT !.at = "next", !.idx = idx, !.out = out]
                               /\ op' = [op EXCEPT ![t] = s]
        BY <3>4, <1>2 DEF Fetch, Step
      <4>2. CASE s = Panicked
        BY <4>1, <4>2
      <4>3. CASE s = [c EXCEPT !.at = "end"]
        <5>1. s.scan = TRUE /\ s.at # "init"
          BY <4>3, <2>2 DEF ScanCall
        <5> QED
          BY <4>1, <5>1
      <4>4. CASE s = [c EXCEPT !.at = "next", !.idx = idx, !.out = out]
        <5>1. s.scan = TRUE /\ s.at # "init"
          BY <4>4, <2>2 DEF ScanCall
        <5> QED
          BY <4>1, <5>1
      <4> QED
        BY <4>1, <4>2, <4>3, <4>4
    <3> QED
      BY <1>7, <3>1, <3>2, <3>3, <3>4
  <2>4. NoInsertion(Idle) /\ NoInsertion(Panicked)
    BY NoCallIs DEF NoInsertion, Idle, Panicked
  <2> QED
    BY <2>3, <2>4, <1>5
<1>8. \E s : op' = [op EXCEPT ![t] = s] /\ NoInsertion(s)
  BY <1>6, <1>7
<1>9. NoInsertion(op[t])
  BY <1>2, <1>4
<1> QED
  BY <1>1, <1>8, <1>9

LEMMA ScanKeepsKeys ==
    ASSUME IInv, KeysInv, NEW t \in Threads,
           \/ \E o \in ObjectID, a, b \in Key : BeginScan(t, o, a, b)
           \/ Position(t) \/ Advance(t) \/ Fetch(t) \/ EndScan(t)
    PROVE  KeysInv'
<1>1. UNCHANGED <<pages, dbobjects>>
  BY ScanDoes
<1>2. PICK s : op' = [op EXCEPT ![t] = s] /\ NoInsertion(s)
  BY ScanDoes
<1> QED
  BY <1>1, <1>2, QuietKeepsKeys DEF NoInsertion

\* The attempt of insert_recurs.
LEMMA TryInsertKeepsKeys ==
    ASSUME IInv, PagesSorted, KeysInv, NEW t \in Threads, TryInsert(t)
    PROVE  KeysInv'
<1>1. PICK c : c = op[t]
  OBVIOUS
<1>2. /\ c \in InsertCall /\ InsertOK(c) /\ c.at = "insert" /\ dbobjects' = dbobjects
      /\ \/ op' = [op EXCEPT ![t] = Panicked] /\ UNCHANGED pages
         \/ PutIn(c.page, c.tuple) /\ op' = [op EXCEPT ![t] = Idle]
         \/ op' = [op EXCEPT ![t] = [c EXCEPT !.at = "split"]] /\ UNCHANGED pages
  BY <1>1, TryInsertDoes
<1>3. /\ CallIs(op[t], c) /\ PlaceOK(c) /\ OnWay(c) /\ Fresh(c)
      /\ \A u \in Threads : u # t => \A d : CallIs(op[u], d) => Apart(c, d)
  BY <1>1, <1>2, InCall
<1>4. TreeOK
  BY DEF KeysInv
<1>5. CASE op' = [op EXCEPT ![t] = Panicked] /\ UNCHANGED pages
  BY <1>2, <1>5, NoCallIs, QuietKeepsKeys
<1>6. CASE PutIn(c.page, c.tuple) /\ op' = [op EXCEPT ![t] = Idle]
  <2>1. PICK p, tuple : p = c.page /\ tuple = c.tuple /\ PutIn(p, tuple)
    BY <1>6
  <2>2. NewCallOK(Idle) /\ \A d : CallIs(Idle, d) => d.key = c.key
    BY NoCallIs DEF NewCallOK
  <2>3. CASE IsLeaf(p)
    <3>1. tuple.key = c.key /\ Pending(c)
      BY <2>1, <2>3, <1>2 DEF InsertOK, Pending
    <3>2. tuple.key \notin LeafKeys /\ (p \notin ObjectID => FirstKey(p) < tuple.key)
      BY <2>1, <2>3, <3>1, <1>2, <1>3 DEF Fresh, OnWay
    <3>3. /\ EdgeStays /\ TreeOK' /\ LeafKeys' \subseteq LeafKeys \cup {c.key}
          /\ \A v : Unhung(v) => Unhung(v)'
      BY <2>1, <2>3, <3>1, <3>2, <1>2, <1>4, LeafPut
    <3>4. ValuesApart(Idle, c)
      BY <3>3, NoCallIs DEF ValuesApart
    <3> QED
      BY <2>2, <3>3, <3>4, <1>3, <1>6, ChangeKeepsKeys
  <2>4. CASE ~IsLeaf(p)
    <3>1. ~Pending(c) /\ p \in Spine
      BY <2>1, <2>4, <1>2, <1>3 DEF Pending, OnWay
    <3>2. Heads(tuple.key, tuple.value) /\ Unhung(tuple.value)
      BY <2>1, <3>1, <1>3 DEF Fresh
    <3>3. /\ EdgeStays /\ TreeOK' /\ LeafKeys' = LeafKeys
          /\ \A v : Unhung(v) /\ v # tuple.value => Unhung(v)'
      BY <2>1, <3>1, <3>2, <1>2, <1>4, NodePut
    <3>4. ValuesApart(Idle, c)
      BY <2>1, <3>1, <3>3, NoCallIs DEF ValuesApart
    <3> QED
      BY <2>2, <3>3, <3>4, <1>3, <1>6, ChangeKeepsKeys
  <2> QED
    BY <2>3, <2>4
<1>7. CASE op' = [op EXCEPT ![t] = [c EXCEPT !.at = "split"]] /\ UNCHANGED pages
  <2>1. PICK s : s = [c EXCEPT !.at = "split"]
    OBVIOUS
  <2>2. /\ s.at = "split" /\ s.page = c.page /\ s.parents = c.parents
        /\ s.key = c.key /\ s.tuple = c.tuple
    BY <2>1, <1>2 DEF InsertCall
  <2>3. Pending(s) <=> Pending(c)
    BY <2>2, <1>2 DEF Pending
  <2>4. PlaceOK(s) /\ OnWay(s) /\ Fresh(s)
    BY <2>2, <2>3, <1>2, <1>3 DEF PlaceOK, OnWay, Fresh
  <2>5. \A d : CallIs(s, d) => d = s
    BY <2>2, CallIsOf
  <2>6. \A u \in Threads : u # t => \A d : CallIs(op[u], d) => Apart(s, d)
    BY <2>2, <2>3, <1>3 DEF Apart
  <2> QED
    BY <2>1, <2>4, <2>5, <2>6, <1>2, <1>7, QuietKeepsKeys
<1> QED
  BY <1>2, <1>5, <1>6, <1>7

\* split_and_insert: of a leaf, by a pending call; of an inner node, by a call
\* that carries a separator.
LEMMA SplitKeepsKeys ==
    ASSUME IInv, PagesSorted, KeysInv, NEW t \in Threads, Split(t)
    PROVE  KeysInv'
<1>1. PICK c : c = op[t]
  OBVIOUS
<1>2. /\ c \in InsertCall /\ InsertOK(c) /\ c.at = "split" /\ dbobjects' = dbobjects
      /\ \/ UNCHANGED <<pages, op>>
         \/ \E s : Halved(c.page, c.tuple, s) /\ op' = [op EXCEPT ![t] = AfterSplit(c, s.up)]
  BY <1>1, SplitDoes
<1>3. /\ CallIs(op[t], c) /\ PlaceOK(c) /\ OnWay(c) /\ Fresh(c)
      /\ \A u \in Threads : u # t => \A d : CallIs(op[u], d) => Apart(c, d)
  BY <1>1, <1>2, InCall
<1>4. TreeOK
  BY DEF KeysInv
<1>5. CASE UNCHANGED <<pages, op>>
  <2>1. op' = [op EXCEPT ![t] = c]
    BY <1>1, <1>5 DEF IInv, TypeOK
  <2>2. \A d : CallIs(c, d) => d = c
    BY <1>2, CallIsOf
  <2> QED
    BY <2>1, <2>2, <1>2, <1>3, <1>5, QuietKeepsKeys
<1>6. ASSUME NEW s, Halved(c.page, c.tuple, s), op' = [op EXCEPT ![t] = AfterSplit(c, s.up)]
      PROVE  KeysInv'
  <2>1. PICK p, tuple : p = c.page /\ tuple = c.tuple /\ Halved(p, tuple, s)
    BY <1>6
  <2>2. PICK n : n = AfterSplit(c, s.up)
    OBVIOUS
  <2>3. /\ n.at = "parent" /\ n.page = c.page /\ n.parents = c.parents
        /\ n.key = c.key /\ n.tuple = s.up
    BY <2>2, <1>2 DEF InsertCall, AfterSplit
  <2>4. ~Pending(n)'
    BY <2>3 DEF Pending
  <2>5. \A d : CallIs(n, d) => d = n
    BY <2>3, CallIsOf
  <2>6. /\ EdgeStays /\ TreeOK' /\ LeafKeys' \subseteq LeafKeys \cup {c.key}
        /\ \A v \in DOMAIN pages : Unhung(v) /\ (~Pending(c) => v # c.tuple.value) =>
              Unhung(v)' /\ v # s.up.value
        /\ Heads(s.up.key, s.up.value)' /\ Unhung(s.up.value)'
    <3>1. CASE IsLeaf(p)
      <4>1. tuple.key = c.key /\ Pending(c)
        BY <2>1, <3>1, <1>2 DEF InsertOK, Pending
      <4>2. tuple.key \notin LeafKeys /\ (p \notin ObjectID => FirstKey(p) < tuple.key)
        BY <2>1, <3>1, <4>1, <1>2, <1>3 DEF Fresh, OnWay
      <4>3. /\ EdgeStays /\ TreeOK' /\ LeafKeys' \subseteq LeafKeys \cup {tuple.key}
            /\ \A v : Unhung(v) => Unhung(v)'
            /\ Heads(s.up.key, s.up.value)' /\ Unhung(s.up.value)'
            /\ s.up.value \notin DOMAIN pages
        BY <2>1, <3>1, <4>2, <1>2, <1>4, LeafSplit
      <4> QED
        BY <4>1, <4>3
    <3>2. CASE ~IsLeaf(p)
      <4>1. ~Pending(c) /\ p \in Spine
        BY <2>1, <3>2, <1>2, <1>3 DEF Pending, OnWay
      <4>2. Heads(tuple.key, tuple.value) /\ Unhung(tuple.value)
        BY <2>1, <4>1, <1>3 DEF Fresh
      <4>3. /\ EdgeStays /\ TreeOK' /\ LeafKeys' = LeafKeys
            /\ \A v : Unhung(v) /\ v # tuple.value => Unhung(v)' /\ v # s.up.value
            /\ Heads(s.up.key, s.up.value)' /\ Unhung(s.up.value)'
        BY <2>1, <4>1, <4>2, <1>2, <1>4, NodeSplit
      <4> QED
        BY <2>1, <4>1, <4>3
    <3> QED
      BY <3>1, <3>2
  <2>7. ValuesApart(n, c)
    BY <2>3, <2>5, <2>6 DEF ValuesApart
  <2>8. OnWay(n)'
    <3>1. \A i \in DOMAIN n.parents : n.parents[i] \in Spine'
      BY <2>3, <2>6, <1>3, EdgeKeeps DEF OnWay
    <3>2. n.parents = <<>> => Leftmost(n.page)'
      BY <2>3, <2>6, <1>3 DEF OnWay, PlaceOK, EdgeStays
    <3> QED
      BY <2>3, <3>1, <3>2 DEF OnWay
  <2>9. Fresh(n)'
    BY <2>3, <2>4, <2>6 DEF Fresh
  <2>10. NewCallOK(n) /\ \A d : CallIs(n, d) => d.key = c.key
    BY <2>3, <2>5, <2>8, <2>9 DEF NewCallOK
  <2> QED
    BY <2>2, <2>6, <2>7, <2>10, <1>3, <1>6, ChangeKeepsKeys
<1> QED
  BY <1>2, <1>5, <1>6

LEMMA PublishRootKeepsKeys ==
    ASSUME IInv, PagesSorted, KeysInv, ObjectID = {0}, NEW t \in Threads, PublishRoot(t)
    PROVE  KeysInv'
<1>1. PICK c, r : c = op[t] /\ r = NewID
  OBVIOUS
<1>2. PICK s : s = [at |-> "init", root |-> r, call |-> c]
  OBVIOUS
<1>3. /\ c \in InsertCall /\ InsertOK(c) /\ c.at = "parent" /\ RootAdded
      /\ dbobjects' = [dbobjects EXCEPT ![c.object] = NewID]
      /\ op' = [op EXCEPT ![t] = s]
  BY <1>1, <1>2, PublishRootDoes
<1>4. CallIs(op[t], c) /\ PlaceOK(c) /\ OnWay(c) /\ Fresh(c)
  BY <1>1, <1>3, InCall
<1>5. PICK o \in ObjectID : o = c.object
  BY <1>3 DEF InsertCall
<1>6. /\ EdgeStays /\ TreeOK' /\ LeafKeys' = LeafKeys
      /\ \A v : Unhung(v) => Unhung(v)'
  BY <1>3, <1>5, RootAdd DEF KeysInv
<1>7. OnWay(c)' /\ Fresh(c)' /\ (Pending(c)' <=> Pending(c))
  <2>1. /\ Pending(c) => c.key \notin LeafKeys'
        /\ ~Pending(c) => Unhung(c.tuple.value)'
    BY <1>4, <1>6 DEF Fresh
  <2> QED
    BY <2>1, <1>4, <1>6, CallStays
<1>8. \A d : CallIs(s, d) => d = c
  BY <1>2, CallIsOf
<1>9. NewCallOK(s) /\ \A d : CallIs(s, d) => d.key = c.key
  BY <1>7, <1>8 DEF NewCallOK
<1>10. ValuesApart(s, c)
  BY <1>6, <1>7, <1>8 DEF ValuesApart
<1> QED
  BY <1>3, <1>4, <1>6, <1>9, <1>10, ChangeKeepsKeys

LEMMA InitRootKeepsKeys ==
    ASSUME IInv, PagesSorted, KeysInv, NEW t \in Threads, InitRoot(t)
    PROVE  KeysInv'
<1>1. PICK c, r : c = op[t].call /\ r = op[t].root
  OBVIOUS
<1>2. PICK s : s = InNewRoot(c, r)
  OBVIOUS
<1>3. /\ op[t] \in RootCall /\ RootOK(op[t])
      /\ c \in InsertCall /\ InsertOK(c) /\ c.at = "parent" /\ dbobjects' = dbobjects
      /\ RootMade(r, c.page) /\ op' = [op EXCEPT ![t] = s]
  BY <1>1, <1>2, InitRootDoes
<1>4. CallIs(op[t], c)
  BY <1>1, <1>3 DEF CallIs
<1>5. PlaceOK(c) /\ OnWay(c) /\ Fresh(c) /\ c.parents = <<>>
  BY <1>1, <1>3, <1>4, CallPlaced DEF KeysInv, WaysOK, RootOK
<1>6. PICK child : child = c.page /\ Leftmost(child)
  BY <1>5 DEF OnWay
<1>7. /\ EdgeStays /\ TreeOK' /\ LeafKeys' = LeafKeys
      /\ Leftmost(r)' /\ r \in Spine'
      /\ \A v : Unhung(v) => Unhung(v)'
  BY <1>3, <1>6, RootMake DEF KeysInv
<1>8. /\ s.at = "insert" /\ s.page = r /\ s.parents = c.parents
      /\ s.key = c.key /\ s.tuple = c.tuple
  BY <1>2, <1>3 DEF InsertCall, InNewRoot
<1>9. ~IsLeaf(r)' /\ ~Pending(s)' /\ ~Pending(c)
  BY <1>3, <1>7, <1>8 DEF Pending, Spine
<1>10. OnWay(s)'
  <2>1. \A i \in DOMAIN s.parents : s.parents[i] \in Spine'
    BY <1>5, <1>7, <1>8, EdgeKeeps DEF OnWay
  <2> QED
    BY <2>1, <1>7, <1>8, <1>9 DEF OnWay
<1>11. Fresh(s)'
  BY <1>5, <1>7, <1>8, <1>9, EdgeKeeps DEF Fresh
<1>12. \A d : CallIs(s, d) => d = s
  BY <1>8, CallIsOf
<1>13. NewCallOK(s) /\ \A d : CallIs(s, d) => d.key = c.key
  BY <1>8, <1>10, <1>11, <1>12 DEF NewCallOK
<1>14. ValuesApart(s, c)
  BY <1>7, <1>8, <1>9, <1>12 DEF ValuesApart
<1> QED
  BY <1>3, <1>4, <1>7, <1>13, <1>14, ChangeKeepsKeys

LEMMA StutterKeepsKeys ==
    ASSUME IInv, KeysInv, UNCHANGED vars
    PROVE  KeysInv'
<1>1. UNCHANGED <<pages, dbobjects, op>>
  BY DEF vars
<1>2. /\ EdgeStays /\ TreeOK' /\ LeafKeys' = LeafKeys
      /\ \A v : Unhung(v) => Unhung(v)'
  BY <1>1, QuietTree DEF KeysInv
<1>3. ASSUME NEW t \in Threads, NEW c, CallIs(op[t], c)
      PROVE  OnWay(c)' /\ Fresh(c)' /\ (Pending(c)' <=> Pending(c))
  <2>1. PlaceOK(c) /\ OnWay(c) /\ Fresh(c)
    BY <1>3, CallPlaced DEF KeysInv, WaysOK
  <2>2. /\ Pending(c) => c.key \notin LeafKeys'
        /\ ~Pending(c) => Unhung(c.tuple.value)'
    BY <2>1, <1>2 DEF Fresh
  <2> QED
    BY <2>1, <2>2, <1>2, CallStays
<1>4. WaysOK'
  BY <1>1, <1>3 DEF WaysOK, CallIs
<1>5. CallsDiffer'
  <2> SUFFICES ASSUME NEW t \in Threads, NEW u \in Threads, t # u,
                      NEW c, NEW d, CallIs(op[t], c), CallIs(op[u], d)
               PROVE  Apart(c, d)'
    BY <1>1 DEF CallsDiffer, CallIs
  <2>1. Apart(c, d)
    BY DEF KeysInv, CallsDiffer
  <2>2. (Pending(c)' <=> Pending(c)) /\ (Pending(d)' <=> Pending(d))
    BY <1>3
  <2> QED
    BY <2>1, <2>2 DEF Apart
<1> QED
  BY <1>2, <1>4, <1>5 DEF KeysInv

LEMMA InitKeys == ASSUME ObjectID = {0}, Init PROVE KeysInv
<1>1. /\ DOMAIN pages = ObjectID /\ \A p \in DOMAIN pages : IsLeaf(p)
      /\ dbobjects = [o \in ObjectID |-> o] /\ op = [t \in Threads |-> Idle]
  BY DEF Init, LeafPage, IsLeaf
<1>2. Spine = {}
  BY <1>1 DEF Spine
<1>3. KeysApart /\ SpineOK /\ SeparatorsApart
  BY <1>1, <1>2 DEF KeysApart, SpineOK, SeparatorsApart
<1>4. RootsLeft
  BY <1>1 DEF RootsLeft, Leftmost
<1>5. \A t \in Threads : \A c : ~CallIs(op[t], c)
  BY <1>1, NoCallIs
<1>6. WaysOK /\ CallsDiffer
  BY <1>5 DEF WaysOK, CallsDiffer
<1> QED
  BY <1>3, <1>4, <1>6 DEF KeysInv, TreeOK

LEMMA NextKeepsKeys ==
    ASSUME ObjectID = {0}, ~Duplicates, IInv, PagesSorted, KeysInv, [Next]_vars
    PROVE  KeysInv'
<1>1. ASSUME NEW t \in Inserters, NEW o \in ObjectID, NEW k \in Key, BeginInsert(t, o, k)
      PROVE  KeysInv'
  BY <1>1, BeginInsertKeepsKeys DEF Threads
<1>2. ASSUME NEW t \in Threads, Descend(t) PROVE KeysInv'
  BY <1>2, DescendKeepsKeys
<1>3. ASSUME NEW t \in Threads, TryInsert(t) PROVE KeysInv'
  BY <1>3, TryInsertKeepsKeys
<1>4. ASSUME NEW t \in Threads, Split(t) PROVE KeysInv'
  BY <1>4, SplitKeepsKeys
<1>5. ASSUME NEW t \in Threads, PopParent(t) PROVE KeysInv'
  BY <1>5, PopParentKeepsKeys
<1>6. ASSUME NEW t \in Threads, PublishRoot(t) PROVE KeysInv'
  BY <1>6, PublishRootKeepsKeys
<1>7. ASSUME NEW t \in Threads, InitRoot(t) PROVE KeysInv'
  BY <1>7, InitRootKeepsKeys
<1>8. ASSUME NEW t \in Scanners, NEW o \in ObjectID, NEW a \in Key, NEW b \in Key,
             BeginScan(t, o, a, b)
      PROVE  KeysInv'
  BY <1>8, ScanKeepsKeys DEF Threads
<1>9. ASSUME NEW t \in Threads, Position(t) \/ Advance(t) \/ Fetch(t) \/ EndScan(t)
      PROVE  KeysInv'
  BY <1>9, ScanKeepsKeys
<1>10. CASE UNCHANGED vars
  BY <1>10, StutterKeepsKeys
<1>11. Inserters \subseteq Threads /\ Scanners \subseteq Threads
  BY DEF Threads
<1> QED
  BY <1>1, <1>2, <1>3, <1>4, <1>5, <1>6, <1>7, <1>8, <1>9, <1>10, <1>11
     DEF Next, InsertStep, ScanStep, Rest

\* In the only tree, when a key is inserted once, no key is in two leaves, the
\* search for a new key stays on the left edge, and every separator that a call
\* carries leads to a leaf of its own.
THEOREM KeysStayApart ==
    ASSUME Objects = 1, ~Duplicates PROVE Spec => []KeysInv
<1>1. ObjectID = {0}
  BY DEF ObjectID
<1>2. Init => KeysInv
  BY <1>1, InitKeys
<1>3. IInv /\ PagesSorted /\ KeysInv /\ [Next]_vars => KeysInv'
  BY <1>1, NextKeepsKeys
<1> QED
  BY <1>2, <1>3, Invariant, PagesInOrder, PTL DEF Spec

\* No key is twice on a sorted page or on two pages.
LEMMA ChainHasOnce ==
    ASSUME Objects = 1, IInv, PagesSorted, Ranks, KeysInv
    PROVE  IsInjective(ChainKeys(0))
<1>1. PICK own, idx, len : Ranked(own, idx, len)
  BY DEF Ranks
<1>2. PICK o \in ObjectID : o = 0
  BY <1>1, OneTree
<1>3. PICK R : R = {e \in Key \X Key : e[1] # e[2]}
  OBVIOUS
<1>4. \A a, b \in Key : <<a, b>> \in R <=> a # b
  BY <1>3
<1>5. KeysOrdered(R)
  BY <1>4, TreeAssumption DEF KeysOrdered
<1>6. LeavesOrdered(o, own, idx, R)
  <2> SUFFICES ASSUME NEW p \in DOMAIN pages, NEW q \in DOMAIN pages, IsLeaf(p), IsLeaf(q),
                      idx[p] < idx[q],
                      NEW a \in KeysIn(pages[p].items), NEW b \in KeysIn(pages[q].items)
               PROVE  <<a, b>> \in R
    BY DEF LeavesOrdered
  <2>1. a \in Key /\ b \in Key
    BY PageFacts DEF LeafKeys
  <2>2. idx[p] \in Nat
    BY <1>1, PageFacts DEF Ranked
  <2>3. p # q
    BY <2>2
  <2>4. a # b
    BY <2>3 DEF KeysInv, TreeOK, KeysApart
  <2> QED
    BY <2>1, <2>4, <1>4
<1>7. PICK keys : keys = ChainKeys(o)
  OBVIOUS
<1>8. keys \in Seq(Key) /\ Ordered(keys, R)
  BY <1>1, <1>5, <1>6, <1>7, ChainKeysProperties
<1>9. PICK n \in Nat : DOMAIN keys = 1 .. n
  BY <1>8, LenProperties
<1>10. \A i \in 1 .. n : keys[i] \in Key
  BY <1>8, <1>9, ElementOfSeq, LenProperties
<1>11. \A i, j \in 1 .. n : i < j => keys[i] # keys[j]
  BY <1>4, <1>8, <1>9, <1>10 DEF Ordered
<1>12. \A i, j \in 1 .. n : i = j \/ i < j \/ j < i
  OBVIOUS
<1>13. IsInjective(keys)
  BY <1>9, <1>11, <1>12 DEF IsInjective
<1> QED
  BY <1>2, <1>7, <1>13

\* No key is lost or doubled in the only tree, as long as a key is inserted once,
\* whatever insertions, splits and root changes of any number of threads overlap
\* (218-249).
THEOREM OneTreeKeepsKeys ==
    ASSUME Objects = 1, ~Duplicates PROVE Spec => []ChainKeepsKeys
<1>1. ASSUME IInv, PagesSorted, Ranks, KeysInv PROVE IsInjective(ChainKeys(0))
  BY <1>1, ChainHasOnce
<1>2. ObjectID = {0}
  BY DEF ObjectID
<1>3. ChainHoldsKeys /\ IsInjective(ChainKeys(0)) => ChainKeepsKeys
  BY <1>2 DEF ChainHoldsKeys, ChainKeepsKeys
<1>4. Spec => []ChainHoldsKeys
  BY ChainHasKeys
<1>5. Spec => []KeysInv
  BY KeysStayApart
<1> QED
  BY <1>1, <1>3, <1>4, <1>5, Invariant, PagesInOrder, LeavesFormChains, PTL

-----------------------------------------------------------------------------
(* No panic.                                                                 *)

\* The tuple of an insertion or of a separator is not in the page it goes to.
LEMMA KeyIsNew ==
    ASSUME IInv, PagesSorted, KeysInv, NEW t \in Threads, NEW c \in InsertCall, c = op[t],
           c.at \in {"insert", "split"}
    PROVE  c.tuple.key \notin KeysIn(pages[c.page].items)
<1>1. InsertOK(c) /\ PlaceOK(c) /\ OnWay(c) /\ Fresh(c)
  BY InCall
<1>2. PICK p, tuple : p \in DOMAIN pages /\ p = c.page /\ tuple = c.tuple
  BY <1>1 DEF PlaceOK
<1>3. CASE IsLeaf(p)
  <2>1. tuple.key = c.key /\ Pending(c)
    BY <1>1, <1>2, <1>3 DEF InsertOK, Pending
  <2>2. c.key \notin LeafKeys
    BY <1>1, <2>1 DEF Fresh
  <2>3. tuple.key \notin KeysIn(pages[p].items)
    BY <1>2, <1>3, <2>1, <2>2, PageFacts
  <2> QED
    BY <1>2, <2>3
<1>4. CASE ~IsLeaf(p)
  <2>1. ~Pending(c) /\ p \in Spine
    BY <1>1, <1>2, <1>4 DEF Pending, OnWay
  <2>2. Heads(tuple.key, tuple.value) /\ Unhung(tuple.value)
    BY <1>1, <1>2, <2>1 DEF Fresh
  <2>3. tuple.key \notin KeysIn(pages[p].items)
    BY <2>1, <2>2, SeparatorIsNew DEF KeysInv
  <2> QED
    BY <1>2, <2>3
<1> QED
  BY <1>3, <1>4

\* A scan between the two lock scopes of next has a tuple to fetch.
CalmAt(s, t) ==
    /\ s.at # "panicked"
    /\ s.at = "fetch" => t \in Scanners /\ s.idx < Len(pages[s.page].items)
Calm == ~aborted /\ \A t \in Threads : CalmAt(op[t], t)

\* No thread scans while another one inserts.
Lone == \A s \in Scanners, t \in Inserters : s = t

LEMMA CalmStep ==
    ASSUME IInv, Calm, Lone, NEW t \in Threads, NEW s, op' = [op EXCEPT ![t] = s],
           aborted' = aborted, pages' = pages \/ t \in Inserters,
           s.at # "panicked", s.at = "fetch" => CalmAt(s, t)'
    PROVE  Calm'
<1>1. op'[t] = s /\ \A u \in Threads : u # t => op'[u] = op[u]
  BY DEF IInv, TypeOK
<1>2. ASSUME NEW u \in Threads, u # t PROVE CalmAt(op[u], u)'
  <2>1. PICK d : d = op[u] /\ CalmAt(d, u)
    BY DEF Calm
  <2>2. CASE d.at # "fetch"
    BY <2>1, <2>2 DEF CalmAt, Calm
  <2>3. CASE d.at = "fetch"
    <3>1. u \in Scanners
      BY <2>1, <2>3 DEF CalmAt
    <3>2. pages' = pages
      BY <1>2, <3>1 DEF Lone
    <3> QED
      BY <2>1, <3>2, <1>1, <1>2 DEF CalmAt
  <2> QED
    BY <2>2, <2>3
<1>3. CalmAt(s, t)'
  BY DEF CalmAt
<1> QED
  BY <1>1, <1>2, <1>3 DEF Calm

LEMMA InsertKeepsCalm ==
    ASSUME IInv, PagesSorted, KeysInv, Calm, Lone, NEW t \in Inserters,
           InsertStep(t) \/ \E o \in ObjectID, k \in Key : BeginInsert(t, o, k)
    PROVE  Calm'
<1>1. PICK c : c = op[t]
  OBVIOUS
<1>2. t \in Threads /\ c \in CallState
  BY <1>1, CallOf DEF Threads
<1> SUFFICES \E s : /\ op' = [op EXCEPT ![t] = s] /\ aborted' = aborted
                    /\ s.at \notin {"panicked", "fetch"}
  BY <1>2, CalmStep
<1>3. ASSUME NEW o \in ObjectID, NEW k \in Key, BeginInsert(t, o, k)
      PROVE  \E s : /\ op' = [op EXCEPT ![t] = s] /\ aborted' = aborted
                    /\ s.at \notin {"panicked", "fetch"}
  <2>1. PICK d : d = [scan |-> FALSE, object |-> o, key |-> k, page |-> NULL_PTR,
                      tuple |-> [key |-> k, value |-> NULL_PTR],
                      parents |-> <<>>, at |-> "idle"]
    OBVIOUS
  <2>2. PICK s : s = Reach(d, dbobjects[o], <<>>)
    OBVIOUS
  <2>3. op' = [op EXCEPT ![t] = s] /\ aborted' = aborted
    BY <1>3, <2>1, <2>2 DEF BeginInsert, Step
  <2>4. s.at \in {"descend", "insert", "position"}
    BY <2>1, <2>2 DEF Reach
  <2> QED
    BY <2>3, <2>4
<1>4. ASSUME Descend(t)
      PROVE  \E s : /\ op' = [op EXCEPT ![t] = s] /\ aborted' = aborted
                    /\ s.at \notin {"panicked", "fetch"}
  <2>1. c.at = "descend"
    BY <1>1, <1>4 DEF Descend
  <2>2. c \in InsertCall \cup ScanCall
    BY <2>1, <1>2, CallsApart
  <2>3. PICK p, ps : p = Child(pages[c.page], c.key) /\ ps = Append(c.parents, c.page)
    OBVIOUS
  <2>4. PICK s : s = Reach(c, p, ps)
    OBVIOUS
  <2>5. op' = [op EXCEPT ![t] = s] /\ aborted' = aborted
    BY <1>1, <1>4, <2>3, <2>4 DEF Descend, Step
  <2>6. s.at \in {"descend", "insert", "position"}
    BY <2>2, <2>4 DEF Reach, InsertCall, ScanCall
  <2> QED
    BY <2>5, <2>6
<1>5. ASSUME TryInsert(t)
      PROVE  \E s : /\ op' = [op EXCEPT ![t] = s] /\ aborted' = aborted
                    /\ s.at \notin {"panicked", "fetch"}
  <2>1. /\ c \in InsertCall /\ c.at = "insert" /\ aborted' = aborted
        /\ \/ c.tuple.key \in KeysIn(pages[c.page].items)
           \/ op' = [op EXCEPT ![t] = Idle]
           \/ op' = [op EXCEPT ![t] = [c EXCEPT !.at = "split"]]
    BY <1>1, <1>2, <1>5, TryInsertDoes
  <2>2. c.tuple.key \notin KeysIn(pages[c.page].items)
    BY <2>1, <1>1, <1>2, KeyIsNew
  <2>3. PICK s : s = [c EXCEPT !.at = "split"]
    OBVIOUS
  <2>4. s.at = "split" /\ Idle.at = "idle"
    BY <2>1, <2>3 DEF InsertCall, Idle
  <2> QED
    BY <2>1, <2>2, <2>3, <2>4
<1>6. ASSUME Split(t)
      PROVE  \E s : /\ op' = [op EXCEPT ![t] = s] /\ aborted' = aborted
                    /\ s.at \notin {"panicked", "fetch"}
  <2>1. /\ c \in InsertCall /\ c.at = "split"
        /\ \/ SplitPanics(pages[c.page], c.tuple)
           \/ /\ aborted' = aborted
              /\ \E s : op' = [op EXCEPT ![t] = AfterSplit(c, s.up)]
    BY <1>1, <1>2, <1>6, SplitDoes
  <2>2. c.tuple.key \notin KeysIn(pages[c.page].items)
    BY <2>1, <1>1, <1>2, KeyIsNew
  <2>3. ~SplitPanics(pages[c.page], c.tuple)
    <3>1. CallOK(c) /\ IInv
      BY <1>1, <1>2, CallOf
    <3>2. pages[c.page].items \in Seq(Tuple) /\ c.tuple \in Tuple
      <4>1. InsertOK(c)
        BY <3>1, <2>1, CallsApart DEF CallOK
      <4> QED
        BY <4>1, <3>1, <2>1 DEF InsertCall, InsertOK, PlaceOK, IInv, TypeOK, Page
    <3>3. PICK h : h = SplitHalf(pages[c.page].items, c.tuple)
      OBVIOUS
    <3>4. c.tuple.key \notin KeysIn(h.kept) /\ c.tuple.key \notin KeysIn(h.moved)
      BY <3>2, <3>3, <2>2, SplitHalfKeys
    <3> QED
      BY <3>3, <3>4 DEF SplitPanics
  <2>4. \A up : AfterSplit(c, up).at = "parent"
    BY <2>1 DEF AfterSplit, InsertCall
  <2> QED
    BY <2>1, <2>3, <2>4
<1>7. ASSUME PopParent(t)
      PROVE  \E s : /\ op' = [op EXCEPT ![t] = s] /\ aborted' = aborted
                    /\ s.at \notin {"panicked", "fetch"}
  <2>1. c.at = "parent"
    BY <1>1, <1>7 DEF PopParent
  <2>2. c \in InsertCall
    BY <2>1, <1>2, CallsApart
  <2>3. PICK s : s = [c EXCEPT !.at = "insert", !.page = Last(c.parents), !.parents = Front(c.parents)]
    OBVIOUS
  <2>4. op' = [op EXCEPT ![t] = s] /\ aborted' = aborted
    BY <1>1, <1>7, <2>3 DEF PopParent, Step
  <2>5. s.at = "insert"
    BY <2>2, <2>3 DEF InsertCall
  <2> QED
    BY <2>4, <2>5
<1>8. ASSUME PublishRoot(t)
      PROVE  \E s : /\ op' = [op EXCEPT ![t] = s] /\ aborted' = aborted
                    /\ s.at \notin {"panicked", "fetch"}
  <2>1. PICK s : s = [at |-> "init", root |-> NewID, call |-> c]
    OBVIOUS
  <2>2. op' = [op EXCEPT ![t] = s] /\ aborted' = aborted
    BY <1>1, <1>8, <2>1 DEF PublishRoot, Step
  <2>3. s.at = "init"
    BY <2>1
  <2> QED
    BY <2>2, <2>3
<1>9. ASSUME InitRoot(t)
      PROVE  \E s : /\ op' = [op EXCEPT ![t] = s] /\ aborted' = aborted
                    /\ s.at \notin {"panicked", "fetch"}
  <2>1. PICK d, r : d = op[t].call /\ r = op[t].root
    OBVIOUS
  <2>2. d \in InsertCall /\ op' = [op EXCEPT ![t] = InNewRoot(d, r)] /\ aborted' = aborted
    BY <1>2, <1>9, <2>1, InitRootDoes
  <2>3. InNewRoot(d, r).at = "insert"
    BY <2>2 DEF InNewRoot, InsertCall
  <2> QED
    BY <2>2, <2>3
<1> QED
  BY <1>3, <1>4, <1>5, <1>6, <1>7, <1>8, <1>9 DEF InsertStep

LEMMA ScanKeepsCalm ==
    ASSUME IInv, PagesSorted, Ranks, Calm, Lone, NEW t \in Scanners,
           ScanStep(t) \/ \E o \in ObjectID, a, b \in Key : BeginScan(t, o, a, b)
    PROVE  Calm'
<1>1. PICK c : c = op[t]
  OBVIOUS
<1>2. t \in Threads /\ c \in CallState /\ CallOK(c) /\ CalmAt(c, t)
  BY <1>1, CallOf DEF Threads, Calm
<1>3. pages' = pages /\ aborted' = aborted
  BY DEF ScanStep, BeginScan, Descend, Position, Advance, Fetch, EndScan
<1> SUFFICES \E s : /\ op' = [op EXCEPT ![t] = s] /\ s.at # "panicked"
                    /\ s.at = "fetch" => s.idx < Len(pages[s.page].items)
  <2>1. PICK s : /\ op' = [op EXCEPT ![t] = s] /\ s.at # "panicked"
                 /\ s.at = "fetch" => s.idx < Len(pages[s.page].items)
    OBVIOUS
  <2>2. s.at = "fetch" => CalmAt(s, t)'
    BY <2>1, <1>3 DEF CalmAt
  <2> QED
    BY <2>1, <2>2, <1>2, <1>3, CalmStep
<1>4. ASSUME NEW o \in ObjectID, NEW a \in Key, NEW b \in Key, BeginScan(t, o, a, b)
      PROVE  \E s : op' = [op EXCEPT ![t] = s] /\ s.at \in {"descend", "insert", "position"}
  <2>1. PICK d : d = [scan |-> TRUE, object |-> o, key |-> a, end |-> b,
                      page |-> NULL_PTR, parents |-> <<>>, idx |-> 0,
                      out |-> <<>>, due |-> {k \in stored[o] : a <= k /\ k <= b},
                      at |-> "idle"]
    OBVIOUS
  <2>2. PICK s : s = Reach(d, dbobjects[o], <<>>)
    OBVIOUS
  <2>3. op' = [op EXCEPT ![t] = s]
    BY <1>4, <2>1, <2>2 DEF BeginScan, Step
  <2>4. s.at \in {"descend", "insert", "position"}
    BY <2>1, <2>2 DEF Reach
  <2> QED
    BY <2>3, <2>4
<1>5. ASSUME Descend(t)
      PROVE  \E s : op' = [op EXCEPT ![t] = s] /\ s.at \in {"descend", "insert", "position"}
  <2>1. c.at = "descend"
    BY <1>1, <1>5 DEF Descend
  <2>2. c \in InsertCall \cup ScanCall
    BY <2>1, <1>2, CallsApart
  <2>3. PICK p, ps : p = Child(pages[c.page], c.key) /\ ps = Append(c.parents, c.page)
    OBVIOUS
  <2>4. PICK s : s = Reach(c, p, ps)
    OBVIOUS
  <2>5. op' = [op EXCEPT ![t] = s]
    BY <1>1, <1>5, <2>3, <2>4 DEF Descend, Step
  <2>6. s.at \in {"descend", "insert", "position"}
    BY <2>2, <2>4 DEF Reach, InsertCall, ScanCall
  <2> QED
    BY <2>5, <2>6
<1>6. c.at \in {"position", "next", "fetch"} => c \in ScanCall
  BY <1>2, CallsApart
<1>7. ASSUME Position(t) PROVE \E s : op' = [op EXCEPT ![t] = s] /\ s.at = "next"
  <2>1. PICK s, idx : s = [c EXCEPT !.at = "next", !.idx = idx] /\ op' = [op EXCEPT ![t] = s]
    BY <1>1, <1>7 DEF Position, Step
  <2>2. c.at = "position"
    BY <1>1, <1>7 DEF Position
  <2>3. s.at = "next"
    BY <2>1, <2>2, <1>6 DEF ScanCall
  <2> QED
    BY <2>1, <2>3
<1>8. ASSUME Advance(t)
      PROVE  \E s : /\ op' = [op EXCEPT ![t] = s] /\ s.at # "panicked"
                    /\ s.at = "fetch" => s.idx < Len(pages[s.page].items)
  <2>1. c \in ScanCall /\ ScanOK(c) /\ IsLeaf(c.page) /\ c.page \in DOMAIN pages
    BY <1>1, <1>2, <1>6, <1>8 DEF Advance, CallOK, ScanOK, PlaceOK
  <2>2. CASE c.idx < Len(pages[c.page].items) /\ op' = [op EXCEPT ![t] = [c EXCEPT !.at = "fetch"]]
    <3>1. PICK s : s = [c EXCEPT !.at = "fetch"]
      OBVIOUS
    <3>2. s.at = "fetch" /\ s.idx = c.idx /\ s.page = c.page
      BY <3>1, <2>1 DEF ScanCall
    <3> QED
      BY <3>1, <3>2, <2>2
  <2>3. CASE op' = [op EXCEPT ![t] = [c EXCEPT !.at = "end"]]
    <3>1. PICK s : s = [c EXCEPT !.at = "end"]
      OBVIOUS
    <3>2. s.at = "end"
      BY <3>1, <2>1 DEF ScanCall
    <3> QED
      BY <3>1, <3>2, <2>3
  <2>4. ASSUME NEW q, q = pages[c.page].right, q # NULL_PTR,
               op' = [op EXCEPT ![t] = [c EXCEPT !.at = "fetch", !.page = q, !.idx = 0]]
        PROVE  \E s : /\ op' = [op EXCEPT ![t] = s] /\ s.at # "panicked"
                      /\ s.at = "fetch" => s.idx < Len(pages[s.page].items)
    <3>1. PICK s : s = [c EXCEPT !.at = "fetch", !.page = q, !.idx = 0]
      OBVIOUS
    <3>2. s.at = "fetch" /\ s.idx = 0 /\ s.page = q
      BY <3>1, <2>1 DEF ScanCall
    <3>3. PICK own, idx, len : Ranked(own, idx, len)
      BY DEF Ranks
    <3>4. PICK p \in DOMAIN pages : p = c.page /\ IsLeaf(p) /\ pages[p].right = q
      BY <2>1, <2>4
    <3>5. q \in DOMAIN pages /\ IsLeaf(q) /\ idx[q] = idx[p] + 1 /\ idx[p] \in 1 .. len[own[p]]
      BY <2>4, <3>3, <3>4 DEF Ranked, Linked
    <3>6. idx[p] \in Nat /\ idx[p] >= 1
      BY <3>3, <3>4, <3>5, PageFacts DEF Ranked
    <3>7. q \notin ObjectID
      BY <3>3, <3>5, <3>6 DEF Ranked
    <3>8. Len(pages[q].items) > 0
      BY <3>5, <3>7, PageFacts
    <3> QED
      BY <3>1, <3>2, <3>8, <2>4
  <2> QED
    BY <1>1, <1>8, <2>2, <2>3, <2>4 DEF Advance, Step
<1>9. ASSUME Fetch(t)
      PROVE  \E s : op' = [op EXCEPT ![t] = s] /\ s.at \in {"next", "end"}
  <2>1. c.at = "fetch"
    BY <1>1, <1>9 DEF Fetch
  <2>2. c \in ScanCall /\ c.page \in DOMAIN pages
    BY <2>1, <1>2, <1>6 DEF CallOK, ScanOK, PlaceOK
  <2>3. PICK n \in Nat : n = Len(pages[c.page].items)
    BY <2>2, PageFacts, LenProperties
  <2>4. c.idx < n /\ c.idx \in Nat
    BY <2>1, <2>2, <2>3, <1>2 DEF CalmAt, ScanCall
  <2>5. PICK s, idx, out : /\ \/ s = [c EXCEPT !.at = "end"]
                              \/ s = [c EXCEPT !.at = "next", !.idx = idx, !.out = out]
                           /\ op' = [op EXCEPT ![t] = s]
    <3>1. PICK s, idx, out : /\ \/ s = Panicked /\ c.idx >= Len(pages[c.page].items)
                                \/ s = [c EXCEPT !.at = "end"]
                                \/ s = [c EXCEPT !.at = "next", !.idx = idx, !.out = out]
                             /\ op' = [op EXCEPT ![t] = s]
      BY <1>1, <1>9 DEF Fetch, Step
    <3>2. ~(c.idx >= Len(pages[c.page].items))
      BY <2>3, <2>4
    <3> QED
      BY <3>1, <3>2
  <2>6. s.at \in {"next", "end"}
    BY <2>2, <2>5 DEF ScanCall
  <2> QED
    BY <2>5, <2>6
<1>10. ASSUME EndScan(t) PROVE \E s : op' = [op EXCEPT ![t] = s] /\ s.at = "idle"
  <2>1. Idle.at = "idle" /\ op' = [op EXCEPT ![t] = Idle]
    BY <1>10 DEF EndScan, Step, Idle
  <2> QED
    BY <2>1
<1> QED
  BY <1>4, <1>5, <1>7, <1>8, <1>9, <1>10 DEF ScanStep

\* No insertion of a new key and no scan panics, whatever insertions overlap, as
\* long as no thread scans while another inserts: no page holds the key that an
\* insertion or a split brings to it (150, 233-239), and the tuple that a scan
\* counted is still there when it is fetched (80).
THEOREM CallsReturn ==
    ASSUME Objects = 1, ~Duplicates, \A s \in Scanners, t \in Inserters : s = t
    PROVE  Spec => []NoPanic
<1>1. Lone
  BY DEF Lone
<1>2. Init => Calm
  BY DEF Init, Calm, CalmAt, Idle
<1>3. ASSUME IInv, PagesSorted, Ranks, KeysInv, Calm, [Next]_vars PROVE Calm'
  <2>1. CASE UNCHANGED vars
    BY <1>3, <2>1 DEF vars, Calm, CalmAt
  <2>2. CASE Rest
    BY <1>3, <2>2 DEF Rest, vars, Calm, CalmAt
  <2>3. ASSUME NEW t \in Inserters,
               InsertStep(t) \/ \E o \in ObjectID, k \in Key : BeginInsert(t, o, k)
        PROVE  Calm'
    BY <1>1, <1>3, <2>3, InsertKeepsCalm
  <2>4. ASSUME NEW t \in Scanners,
               ScanStep(t) \/ \E o \in ObjectID, a, b \in Key : BeginScan(t, o, a, b)
        PROVE  Calm'
    BY <1>1, <1>3, <2>4, ScanKeepsCalm
  <2> QED
    BY <1>3, <2>1, <2>2, <2>3, <2>4 DEF Next
<1>4. Calm => NoPanic
  BY DEF Calm, CalmAt, NoPanic
<1>5. Spec => []KeysInv
  BY KeysStayApart
<1> QED
  BY <1>2, <1>3, <1>4, <1>5, Invariant, PagesInOrder, LeavesFormChains, PTL DEF Spec
=============================================================================
