--------------------------- MODULE SlottedPageProofs ---------------------------
(***************************************************************************)
(* The space of a slotted page, for any size of the page, of its header,   *)
(* of a slot and of the tuples.                                            *)
(***************************************************************************)
EXTENDS SlottedPage, FiniteSetTheorems, SequenceTheorems, WellFoundedInduction, TLAPS

-----------------------------------------------------------------------------
(* Naturals and sequences.                                                 *)

\* A set of naturals has a least element.
LEMMA Least ==
    ASSUME NEW I \in SUBSET Nat, I # {}
    PROVE  \E x \in I : \A y \in I : x <= y
<1> DEFINE R == {ss \in Nat \X Nat : ss[1] < ss[2]}
<1>0. R = OpToRel(<, Nat)
  BY DEF OpToRel
<1>1. IsWellFoundedOn(R, Nat)
  BY <1>0, NatLessThanWellFounded
<1> HIDE DEF R
<1>2. PICK x \in I : \A y \in I : ~(<<y, x>> \in R)
  BY <1>1, WFMin
<1>3. \A y \in I : x <= y
  <2> TAKE y \in I
  <2>1. <<y, x>> \notin R
    BY <1>2
  <2>2. x \in Nat /\ y \in Nat
    OBVIOUS
  <2> QED
    BY <2>1, <2>2 DEF R
<1> QED
  BY <1>3

\* The slots of a page once one is inserted, by position.
LEMMA InsertAtElements ==
    ASSUME NEW S, NEW s \in Seq(S), NEW k \in 1 .. Len(s) + 1, NEW e \in S
    PROVE  LET d == InsertAt(s, k, e) IN
           /\ d \in Seq(S) /\ Len(d) = Len(s) + 1
           /\ \A i \in 1 .. k - 1 : d[i] = s[i]
           /\ d[k] = e
           /\ \A i \in k .. Len(s) : d[i + 1] = s[i]
<1>0. PICK c \in Int : c = k - 1
  BY LenProperties
<1> DEFINE d == InsertAt(s, k, e)
<1>1. PICK n \in Nat : n = Len(s) /\ DOMAIN s = 1 .. n /\ c \in 0 .. n /\ k = c + 1
  BY <1>0, LenProperties
<1>2. PICK a : a = SubSeq(s, 1, c)
  OBVIOUS
<1>3. PICK b : b = SubSeq(s, c + 1, n)
  OBVIOUS
<1>4. \A i \in 1 .. n : s[i] \in S
  BY <1>1, ElementOfSeq
<1>5. a \in Seq(S) /\ Len(a) = c /\ \A i \in 1 .. c : a[i] = s[i]
  <2>1. \A i \in 1 .. c : s[i] \in S
    BY <1>1, <1>4
  <2>2. /\ a \in Seq(S) /\ Len(a) = IF 1 <= c THEN c - 1 + 1 ELSE 0
        /\ \A i \in 1 .. c - 1 + 1 : a[i] = s[1 + i - 1]
    BY <2>1, <1>2, SubSeqProperties
  <2>3. c - 1 + 1 = c /\ (IF 1 <= c THEN c - 1 + 1 ELSE 0) = c /\ \A i \in 1 .. c : 1 + i - 1 = i
    BY <1>1
  <2> QED
    BY <2>2, <2>3
<1>6. b \in Seq(S) /\ Len(b) = n - c /\ \A i \in 1 .. n - c : b[i] = s[c + i]
  <2>1. \A i \in c + 1 .. n : s[i] \in S
    BY <1>1, <1>4
  <2>2. /\ b \in Seq(S) /\ Len(b) = IF c + 1 <= n THEN n - (c + 1) + 1 ELSE 0
        /\ \A i \in 1 .. n - (c + 1) + 1 : b[i] = s[c + 1 + i - 1]
    BY <2>1, <1>1, <1>3, SubSeqProperties
  <2> QED
    BY <2>2, <1>1
<1>7. d = (a \o <<e>>) \o b
  <2>1. k - 1 = c
    BY <1>1
  <2> QED
    BY <2>1, <1>1, <1>2, <1>3 DEF InsertAt
<1> HIDE DEF d
<1>8. PICK f : f = a \o <<e>>
  OBVIOUS
<1>9. /\ f \in Seq(S) /\ Len(f) = c + 1 /\ f[c + 1] = e
      /\ \A i \in 1 .. c : f[i] = s[i]
  <2>1. <<e>> \in Seq(S) /\ Len(<<e>>) = 1 /\ <<e>>[1] = e
    OBVIOUS
  <2>2. PICK u : u = <<e>>
    OBVIOUS
  <2>3. u \in Seq(S) /\ Len(u) = 1 /\ u[1] = e /\ f = a \o u
    BY <2>1, <2>2, <1>8
  <2>4. /\ f \in Seq(S) /\ Len(f) = Len(a) + Len(u)
        /\ \A i \in 1 .. Len(a) + Len(u) : f[i] = IF i <= Len(a) THEN a[i] ELSE u[i - Len(a)]
    BY <2>3, <1>5, ConcatProperties
  <2>5. /\ f \in Seq(S) /\ Len(f) = c + 1
        /\ \A i \in 1 .. c + 1 : f[i] = IF i <= c THEN a[i] ELSE u[i - c]
    BY <2>3, <2>4, <1>5
  <2>6. \A i \in 1 .. c : f[i] = s[i]
    BY <2>5, <1>5
  <2>7. f[c + 1] = u[1]
    BY <2>5, <1>1
  <2> QED
    BY <2>3, <2>5, <2>6, <2>7
<1>10. /\ d \in Seq(S) /\ Len(d) = n + 1
       /\ \A i \in 1 .. n + 1 : d[i] = IF i <= c + 1 THEN f[i] ELSE b[i - (c + 1)]
  <2>1. /\ d \in Seq(S) /\ Len(d) = Len(f) + Len(b)
        /\ \A i \in 1 .. Len(f) + Len(b) : d[i] = IF i <= Len(f) THEN f[i] ELSE b[i - Len(f)]
    <3>1. d = f \o b
      BY <1>7, <1>8
    <3>2. /\ f \o b \in Seq(S) /\ Len(f \o b) = Len(f) + Len(b)
          /\ \A i \in 1 .. Len(f) + Len(b) : (f \o b)[i] = IF i <= Len(f) THEN f[i] ELSE b[i - Len(f)]
      <4>1. f \in Seq(S) /\ b \in Seq(S)
        BY <1>6, <1>9
      <4> QED
        BY <4>1, ConcatProperties
    <3> QED
      BY <3>1, <3>2
  <2>2. c + 1 + (n - c) = n + 1
    BY <1>1
  <2> QED
    BY <2>1, <2>2, <1>6, <1>9
<1>11. \A i \in 1 .. c : d[i] = s[i]
  BY <1>1, <1>9, <1>10
<1>12. d[c + 1] = e
  BY <1>1, <1>9, <1>10
<1>13. \A i \in c + 1 .. n : d[i + 1] = s[i]
  <2> TAKE i \in c + 1 .. n
  <2>1. d[i + 1] = b[i - c]
    BY <1>1, <1>10
  <2>2. i - c \in 1 .. n - c /\ c + (i - c) = i
    BY <1>1
  <2> QED
    BY <2>1, <2>2, <1>6
<1> QED
  <2>1. /\ d \in Seq(S) /\ Len(d) = Len(s) + 1
        /\ \A i \in 1 .. k - 1 : d[i] = s[i]
        /\ d[k] = e
        /\ \A i \in k .. Len(s) : d[i + 1] = s[i]
    BY <1>1, <1>10, <1>11, <1>12, <1>13
  <2> QED
    BY <2>1 DEF d

\* The parts of a page cut after c slots, by position.
LEMMA CutElements ==
    ASSUME NEW S, NEW s \in Seq(S), NEW c \in 0 .. Len(s)
    PROVE  /\ \A i \in 1 .. c : SubSeq(s, 1, c)[i] = s[i]
           /\ \A i \in 1 .. Len(s) - c : SubSeq(s, c + 1, Len(s))[i] = s[c + i]
<1>1. Len(s) \in Nat /\ \A i \in 1 .. Len(s) : s[i] \in S
  BY LenProperties, ElementOfSeq
<1>2. \A i \in 1 .. c : SubSeq(s, 1, c)[i] = s[i]
  <2>1. \A i \in 1 .. c : s[i] \in S
    BY <1>1
  <2>2. \A i \in 1 .. c - 1 + 1 : SubSeq(s, 1, c)[i] = s[1 + i - 1]
    BY <2>1, SubSeqProperties
  <2> QED
    BY <2>2
<1>3. \A i \in 1 .. Len(s) - c : SubSeq(s, c + 1, Len(s))[i] = s[c + i]
  <2>1. \A i \in c + 1 .. Len(s) : s[i] \in S
    BY <1>1
  <2>2. \A i \in 1 .. Len(s) - (c + 1) + 1 :
           SubSeq(s, c + 1, Len(s))[i] = s[c + 1 + i - 1]
    BY <2>1, <1>1, SubSeqProperties
  <2> QED
    BY <2>2, <1>1
<1> QED
  BY <1>2, <1>3

\* The slots of a page once one is removed, by position.
LEMMA RemoveAtElements ==
    ASSUME NEW S, NEW s \in Seq(S), NEW k \in 1 .. Len(s)
    PROVE  LET d == RemoveAt(s, k) IN
           /\ d \in Seq(S) /\ Len(d) = Len(s) - 1
           /\ \A i \in 1 .. k - 1 : d[i] = s[i]
           /\ \A i \in k .. Len(s) - 1 : d[i] = s[i + 1]
<1> DEFINE d == RemoveAt(s, k)
<1>1. PICK n \in Nat : n = Len(s) /\ k \in 1 .. n /\ \A i \in 1 .. n : s[i] \in S
  BY LenProperties, ElementOfSeq
<1>2. PICK a : a = SubSeq(s, 1, k - 1)
  OBVIOUS
<1>3. PICK b : b = SubSeq(s, k + 1, n)
  OBVIOUS
<1>4. a \in Seq(S) /\ Len(a) = k - 1 /\ \A i \in 1 .. k - 1 : a[i] = s[i]
  <2>1. \A i \in 1 .. k - 1 : s[i] \in S
    BY <1>1
  <2>2. /\ a \in Seq(S) /\ Len(a) = IF 1 <= k - 1 THEN (k - 1) - 1 + 1 ELSE 0
        /\ \A i \in 1 .. (k - 1) - 1 + 1 : a[i] = s[1 + i - 1]
    BY <2>1, <1>1, <1>2, SubSeqProperties
  <2> QED
    BY <2>2, <1>1
<1>5. b \in Seq(S) /\ Len(b) = n - k /\ \A i \in 1 .. n - k : b[i] = s[k + i]
  <2>1. \A i \in k + 1 .. n : s[i] \in S
    BY <1>1
  <2>2. /\ b \in Seq(S) /\ Len(b) = IF k + 1 <= n THEN n - (k + 1) + 1 ELSE 0
        /\ \A i \in 1 .. n - (k + 1) + 1 : b[i] = s[k + 1 + i - 1]
    BY <2>1, <1>1, <1>3, SubSeqProperties
  <2> QED
    BY <2>2, <1>1
<1>6. d = a \o b
  BY <1>1, <1>2, <1>3 DEF RemoveAt
<1> HIDE DEF d
<1>7. /\ d \in Seq(S) /\ Len(d) = Len(a) + Len(b)
      /\ \A i \in 1 .. Len(a) + Len(b) : d[i] = IF i <= Len(a) THEN a[i] ELSE b[i - Len(a)]
  <2>1. /\ a \o b \in Seq(S) /\ Len(a \o b) = Len(a) + Len(b)
        /\ \A i \in 1 .. Len(a) + Len(b) : (a \o b)[i] = IF i <= Len(a) THEN a[i] ELSE b[i - Len(a)]
    BY <1>4, <1>5, ConcatProperties
  <2> QED
    BY <2>1, <1>6
<1>8. /\ d \in Seq(S) /\ Len(d) = n - 1
      /\ \A i \in 1 .. n - 1 : d[i] = IF i <= k - 1 THEN a[i] ELSE b[i - (k - 1)]
  <2>1. k - 1 + (n - k) = n - 1
    BY <1>1
  <2> QED
    BY <2>1, <1>4, <1>5, <1>7
<1>9. \A i \in 1 .. k - 1 : d[i] = s[i]
  <2> TAKE i \in 1 .. k - 1
  <2>1. i \in 1 .. n - 1 /\ i <= k - 1
    BY <1>1
  <2> QED
    BY <2>1, <1>4, <1>8
<1>10. \A i \in k .. n - 1 : d[i] = s[i + 1]
  <2> TAKE i \in k .. n - 1
  <2>1. d[i] = b[i - (k - 1)]
    BY <1>1, <1>8
  <2>2. i - (k - 1) \in 1 .. n - k /\ k + (i - (k - 1)) = i + 1
    BY <1>1
  <2> QED
    BY <2>1, <2>2, <1>5
<1> QED
  <2>1. /\ d \in Seq(S) /\ Len(d) = Len(s) - 1
        /\ \A i \in 1 .. k - 1 : d[i] = s[i]
        /\ \A i \in k .. Len(s) - 1 : d[i] = s[i + 1]
    BY <1>1, <1>8, <1>9, <1>10
  <2> QED
    BY <2>1 DEF d

-----------------------------------------------------------------------------
(* Slots.                                                                  *)

Rec == [key : Key, size : Sizes, at : 0 .. PageSize]
Sorted(slots) == \A i, j \in DOMAIN slots : i < j => slots[i].key < slots[j].key

LEMMA SlotFacts ==
    ASSUME NEW slots \in Slots
    PROVE  /\ slots \in Seq(Rec) /\ Len(slots) \in Nat /\ DOMAIN slots = 1 .. Len(slots)
           /\ \A i \in 1 .. Len(slots) :
                 /\ slots[i] \in Rec
                 /\ slots[i].key \in Key /\ slots[i].key \in Nat /\ slots[i].key \in KeysOf(slots)
                 /\ slots[i].size \in Sizes /\ slots[i].size \in Nat /\ slots[i].size > 0
                 /\ slots[i].at \in 0 .. PageSize
           /\ KeysOf(slots) \subseteq Key /\ KeysOf(slots) \subseteq Nat
           /\ \A k \in KeysOf(slots) : \E i \in 1 .. Len(slots) : slots[i].key = k
<1>1. slots \in Seq(Rec)
  BY DEF Slots, Rec
<1>2. /\ Len(slots) \in Nat /\ DOMAIN slots = 1 .. Len(slots)
      /\ \A i \in 1 .. Len(slots) : slots[i] \in Rec
  BY <1>1, LenProperties, ElementOfSeq
<1>3. \A r \in Rec : /\ r.key \in Key /\ r.key \in Nat
                     /\ r.size \in Sizes /\ r.size \in Nat /\ r.size > 0
                     /\ r.at \in 0 .. PageSize
  <2>1. \A k \in Key : k \in Nat
    BY PageAssumption
  <2>2. \A z \in Sizes : z \in Nat /\ z > 0
    BY PageAssumption
  <2>3. \A r \in Rec : r.key \in Key /\ r.size \in Sizes /\ r.at \in 0 .. PageSize
    BY DEF Rec
  <2> QED
    BY <2>1, <2>2, <2>3
<1>4. \A i \in 1 .. Len(slots) : slots[i].key \in KeysOf(slots)
  BY <1>2 DEF KeysOf
<1>5. \A k \in KeysOf(slots) : \E i \in 1 .. Len(slots) : slots[i].key = k
  BY <1>2 DEF KeysOf
<1>6. KeysOf(slots) \subseteq Key /\ KeysOf(slots) \subseteq Nat
  BY <1>2, <1>3, <1>5
<1> QED
  BY <1>1, <1>2, <1>3, <1>4, <1>5, <1>6

\* find_partition_upper splits a sorted page where the key belongs.
LEMMA PartitionSplits ==
    ASSUME NEW slots \in Slots, Sorted(slots), NEW k \in Nat, NEW c, c = PartitionUpper(slots, k)
    PROVE  /\ c \in 0 .. Len(slots)
           /\ \A i \in 1 .. Len(slots) : slots[i].key <= k <=> i <= c
<1> DEFINE T == {j \in KeysOf(slots) : j <= k}
<1>1. PICK n \in Nat :
         /\ n = Len(slots) /\ DOMAIN slots = 1 .. n
         /\ \A i \in 1 .. n : slots[i].key \in Nat /\ slots[i].key \in KeysOf(slots)
         /\ \A j \in KeysOf(slots) : \E i \in 1 .. n : slots[i].key = j
  BY SlotFacts
<1> DEFINE Out == {i \in 1 .. n + 1 : i = n + 1 \/ ~(slots[i].key <= k)}
<1>2. PICK x \in Out : \A y \in Out : x <= y
  <2>1. n + 1 \in Out /\ Out \in SUBSET Nat
    BY <1>1
  <2> HIDE DEF Out
  <2> QED
    BY <2>1, Least
<1>3. x \in 1 .. n + 1
  BY <1>2
<1>4. \A i \in 1 .. n : slots[i].key <= k <=> i < x
  <2> TAKE i \in 1 .. n
  <2>1. CASE i < x
    <3>1. i \notin Out
      BY <2>1, <1>2, <1>3
    <3> QED
      BY <3>1, <2>1
  <2>2. CASE i = x
    <3>1. ~(slots[x].key <= k)
      BY <1>2, <2>2
    <3> QED
      BY <3>1, <2>2, <1>3
  <2>3. CASE i > x
    <3>1. x \in 1 .. n
      BY <2>3, <1>3
    <3>2. ~(slots[x].key <= k) /\ slots[x].key < slots[i].key
      <4>1. ~(slots[x].key <= k)
        BY <3>1, <1>2
      <4>2. slots[x].key < slots[i].key
        BY <3>1, <1>1, <2>3 DEF Sorted
      <4> QED
        BY <4>1, <4>2
    <3>3. ~(slots[i].key <= k)
      BY <3>1, <3>2, <1>1
    <3> QED
      BY <3>3, <2>3, <1>3
  <2> QED
    BY <2>1, <2>2, <2>3, <1>3
<1>5. Cardinality(T) = x - 1
  <2> DEFINE f == [i \in 1 .. x - 1 |-> slots[i].key]
  <2>1. \A i, j \in 1 .. n : slots[i].key = slots[j].key => i = j
    <3> SUFFICES ASSUME NEW i \in 1 .. n, NEW j \in 1 .. n, i # j
                 PROVE  slots[i].key # slots[j].key
      OBVIOUS
    <3>1. i < j \/ j < i
      OBVIOUS
    <3>2. \A y, z \in 1 .. n : y < z => slots[y].key < slots[z].key
      BY <1>1 DEF Sorted
    <3>3. slots[i].key < slots[j].key \/ slots[j].key < slots[i].key
      BY <3>1, <3>2
    <3>4. \A y \in Nat : ~(y < y)
      OBVIOUS
    <3> QED
      BY <3>3, <3>4, <1>1
  <2>2. \A i \in 1 .. x - 1 : i \in 1 .. n /\ slots[i].key \in T
    BY <1>1, <1>3, <1>4
  <2>3. \A j \in T : \E i \in 1 .. x - 1 : slots[i].key = j
    <3> TAKE j \in T
    <3>1. PICK i \in 1 .. n : slots[i].key = j
      BY <1>1
    <3>2. i \in 1 .. x - 1
      BY <3>1, <1>3, <1>4
    <3> QED
      BY <3>1, <3>2
  <2>4. f \in Bijection(1 .. x - 1, T)
    <3>1. f \in [1 .. x - 1 -> T]
      BY <2>2
    <3>2. f \in Injection(1 .. x - 1, T)
      BY <3>1, <2>1, <2>2 DEF Injection, IsInjective
    <3>3. f \in Surjection(1 .. x - 1, T)
      BY <3>1, <2>3 DEF Surjection
    <3> QED
      BY <3>2, <3>3 DEF Bijection
  <2>5. IsFiniteSet(1 .. x - 1) /\ Cardinality(1 .. x - 1) = x - 1
    <3>1. /\ IsFiniteSet(1 .. x - 1)
          /\ Cardinality(1 .. x - 1) = IF 1 > x - 1 THEN 0 ELSE (x - 1) - 1 + 1
      BY <1>3, FS_Interval
    <3> QED
      BY <3>1, <1>3
  <2> HIDE DEF f
  <2>6. ExistsBijection(1 .. x - 1, T)
    BY <2>4 DEF ExistsBijection
  <2> QED
    BY <2>5, <2>6, FS_Bijection
<1>6. c = x - 1
  BY <1>5 DEF PartitionUpper
<1> QED
  BY <1>1, <1>3, <1>4, <1>6

-----------------------------------------------------------------------------
(* The bytes of the tuples: the sums of the sizes from the first slot on.   *)

\* d is s with one element more, or one less, at k.
Inserted(d, s, k) == /\ Len(d) = Len(s) + 1
                     /\ \A i \in 1 .. k - 1 : d[i] = s[i]
                     /\ \A i \in k .. Len(s) : d[i + 1] = s[i]
Removed(d, s, k) == /\ Len(d) = Len(s) - 1
                    /\ \A i \in 1 .. k - 1 : d[i] = s[i]
                    /\ \A i \in k .. Len(s) - 1 : d[i] = s[i + 1]

\* d is the m elements of s after the first c; or they have their sizes.
Part(d, s, c, m) == Len(d) = m /\ \A i \in 1 .. m : d[i] = s[c + i]
SameSizes(d, s, c, m) == Len(d) = m /\ \A i \in 1 .. m : d[i].size = s[c + i].size

Sized(s) == \A i \in 1 .. Len(s) : s[i].size \in Nat
Sums(g, s) == /\ g \in [0 .. Len(s) -> Nat] /\ g[0] = 0
              /\ \A i \in 1 .. Len(s) : g[i] = g[i - 1] + s[i].size

LEMMA SumsGrow ==
    ASSUME NEW s, Len(s) \in Nat, \A i \in 1 .. Len(s) : s[i].size \in Nat,
           NEW g, Sums(g, s), NEW i \in 0 .. Len(s), NEW j \in 0 .. Len(s), i <= j
    PROVE  g[i] <= g[j]
<1>1. PICK n \in Nat : n = Len(s)
  OBVIOUS
<1>2. \A x \in 0 .. n : g[x] \in Nat
  BY <1>1 DEF Sums
<1> DEFINE I == {x \in i .. n : ~(g[i] <= g[x])}
<1>3. SUFFICES ASSUME I # {} PROVE FALSE
  BY <1>1
<1>4. PICK x \in I : \A y \in I : x <= y
  <2>1. I \in SUBSET Nat
    BY <1>1
  <2> HIDE DEF I
  <2> QED
    BY <2>1, <1>3, Least
<1>5. x \in i .. n /\ ~(g[i] <= g[x]) /\ x \in 0 .. n /\ i \in 0 .. n
  BY <1>1, <1>4
<1>6. x # i
  BY <1>2, <1>5
<1>7. x - 1 \in i .. n /\ x \in 1 .. n /\ x - 1 < x
  BY <1>5, <1>6
<1>8. g[i] <= g[x - 1]
  BY <1>4, <1>5, <1>7
<1>9. g[x] = g[x - 1] + s[x].size /\ s[x].size \in Nat /\ x - 1 \in 0 .. n
  BY <1>1, <1>5, <1>7 DEF Sums
<1> QED
  BY <1>2, <1>5, <1>8, <1>9

\* Of the first c elements, and of the others.
LEMMA SumsCut ==
    ASSUME NEW n \in Nat, NEW s, Len(s) = n, Sized(s),
           NEW g, Sums(g, s), NEW c \in 0 .. n,
           NEW a, SameSizes(a, s, 0, c), NEW b, SameSizes(b, s, c, n - c)
    PROVE  /\ \E h : Sums(h, a) /\ h[c] = g[c]
           /\ \E h : Sums(h, b) /\ h[n - c] = g[n] - g[c]
<1>0. /\ Len(a) = c /\ \A i \in 1 .. c : a[i].size = s[i].size
      /\ Len(b) = n - c /\ \A i \in 1 .. n - c : b[i].size = s[c + i].size
      /\ \A i \in 1 .. n : s[i].size \in Nat
  BY DEF SameSizes, Sized
<1>1. g \in [0 .. n -> Nat] /\ g[0] = 0 /\ \A i \in 1 .. n : g[i] = g[i - 1] + s[i].size
  BY DEF Sums
<1>2. \A i \in 0 .. n : g[i] \in Nat
  BY <1>1
<1>3. \A i \in c .. n : g[c] <= g[i]
  <2> TAKE i \in c .. n
  <2>1. Len(s) \in Nat /\ \A x \in 1 .. Len(s) : s[x].size \in Nat
    BY <1>0
  <2>2. c \in 0 .. Len(s) /\ i \in 0 .. Len(s) /\ c <= i
    OBVIOUS
  <2> QED
    BY <2>1, <2>2, SumsGrow
<1>4. \E h : Sums(h, a) /\ h[c] = g[c]
  <2>1. PICK h : h = [i \in 0 .. c |-> g[i]]
    OBVIOUS
  <2>2. h \in [0 .. c -> Nat] /\ h[0] = 0 /\ h[c] = g[c]
    BY <2>1, <1>1, <1>2
  <2>3. \A i \in 1 .. c : h[i] = h[i - 1] + a[i].size
    BY <2>1, <1>0, <1>1
  <2> QED
    BY <2>2, <2>3, <1>0 DEF Sums
<1>5. \E h : Sums(h, b) /\ h[n - c] = g[n] - g[c]
  <2>1. PICK h : h = [i \in 0 .. n - c |-> g[c + i] - g[c]]
    OBVIOUS
  <2>2. h \in [0 .. n - c -> Nat] /\ h[0] = 0 /\ h[n - c] = g[n] - g[c]
    <3>1. \A i \in 0 .. n - c : c + i \in c .. n /\ c + i \in 0 .. n
      OBVIOUS
    <3>2. \A i \in 0 .. n - c : g[c + i] - g[c] \in Nat
      BY <3>1, <1>2, <1>3
    <3>3. h[0] = 0
      BY <2>1, <1>2
    <3>4. h[n - c] = g[n] - g[c]
      BY <2>1
    <3> QED
      BY <2>1, <3>2, <3>3, <3>4
  <2>3. ASSUME NEW i \in 1 .. n - c PROVE h[i] = h[i - 1] + b[i].size
    <3>1. /\ c + i \in 1 .. n /\ c + i \in 0 .. n /\ (c + i) - 1 \in 0 .. n /\ c \in 0 .. n
          /\ c + (i - 1) = (c + i) - 1 /\ i - 1 \in 0 .. n - c /\ i \in 0 .. n - c
      OBVIOUS
    <3>2. g[c + i] = g[(c + i) - 1] + s[c + i].size /\ b[i].size = s[c + i].size
      BY <3>1, <1>0, <1>1
    <3>3. h[i] = g[c + i] - g[c] /\ h[i - 1] = g[(c + i) - 1] - g[c]
      BY <3>1, <2>1
    <3>4. g[(c + i) - 1] \in Nat /\ g[c] \in Nat /\ g[c + i] \in Nat /\ s[c + i].size \in Nat
      BY <3>1, <1>0, <1>2
    <3> QED
      BY <3>2, <3>3, <3>4
  <2> QED
    BY <2>2, <2>3, <1>0 DEF Sums
<1> QED
  BY <1>4, <1>5

\* Of a sequence with one element more, and with one less.
LEMMA SumsInsert ==
    ASSUME NEW n \in Nat, NEW s, Len(s) = n, Sized(s),
           NEW g, Sums(g, s), NEW k \in 1 .. n + 1,
           NEW d, Inserted(d, s, k), d[k].size \in Nat
    PROVE  \E h : Sums(h, d) /\ h[n + 1] = g[n] + d[k].size
<1>0. /\ Len(d) = n + 1
      /\ \A i \in 1 .. k - 1 : d[i] = s[i]
      /\ \A i \in k .. n : d[i + 1] = s[i]
  BY DEF Inserted
<1>0a. \A i \in 1 .. n : s[i].size \in Nat
  BY DEF Sized
<1>1. g \in [0 .. n -> Nat] /\ g[0] = 0 /\ \A i \in 1 .. n : g[i] = g[i - 1] + s[i].size
  BY DEF Sums
<1>2. \A i \in 0 .. n : g[i] \in Nat
  BY <1>1
<1>3. PICK z \in Nat : z = d[k].size
  OBVIOUS
<1>4. PICK h : h = [i \in 0 .. n + 1 |-> IF i < k THEN g[i] ELSE g[i - 1] + z]
  OBVIOUS
<1>5. \A i \in 0 .. n + 1 : (i < k => i \in 0 .. n) /\ (~(i < k) => i - 1 \in 0 .. n)
  OBVIOUS
<1>6. h \in [0 .. n + 1 -> Nat] /\ h[0] = 0 /\ h[n + 1] = g[n] + z
  <2>1. \A i \in 0 .. n + 1 : (IF i < k THEN g[i] ELSE g[i - 1] + z) \in Nat
    BY <1>2, <1>5
  <2>2. h[0] = 0
    BY <1>1, <1>4
  <2>3. h[n + 1] = g[n] + z
    BY <1>4
  <2> QED
    BY <2>1, <2>2, <2>3, <1>4
<1>7. ASSUME NEW i \in 1 .. n + 1 PROVE h[i] = h[i - 1] + d[i].size
  <2>0. i \in 0 .. n + 1 /\ i - 1 \in 0 .. n + 1
    OBVIOUS
  <2>1. CASE i < k
    <3>1. i \in 1 .. n /\ i \in 1 .. k - 1 /\ i - 1 < k
      BY <2>1
    <3>2. h[i] = g[i] /\ h[i - 1] = g[i - 1]
      BY <2>0, <2>1, <3>1, <1>4
    <3> QED
      BY <3>1, <3>2, <1>0, <1>1
  <2>2. CASE i = k
    <3>1. h[i] = g[i - 1] + z /\ h[i - 1] = g[i - 1]
      BY <2>0, <2>2, <1>4
    <3> QED
      BY <3>1, <2>2, <1>3
  <2>3. CASE i > k
    <3>1. i - 1 \in 1 .. n /\ i - 1 \in k .. n /\ (i - 1) + 1 = i /\ ~(i < k) /\ ~(i - 1 < k)
      BY <2>3
    <3>2. h[i] = g[i - 1] + z /\ h[i - 1] = g[(i - 1) - 1] + z
      BY <2>0, <3>1, <1>4
    <3>3. d[i] = s[i - 1]
      BY <3>1, <1>0
    <3>4. g[i - 1] = g[(i - 1) - 1] + s[i - 1].size
      BY <3>1, <1>1
    <3>5. g[i - 1] \in Nat /\ g[(i - 1) - 1] \in Nat
      BY <3>1, <1>2
    <3>6. \A u, v, w, x \in Nat : u = v + x => u + w = (v + w) + x
      OBVIOUS
    <3>7. s[i - 1].size \in Nat
      BY <3>1, <1>0a
    <3>8. g[i - 1] + z = (g[(i - 1) - 1] + z) + s[i - 1].size
      BY <3>4, <3>5, <3>6, <3>7
    <3> QED
      BY <3>2, <3>3, <3>8
  <2> QED
    BY <2>1, <2>2, <2>3
<1> QED
  BY <1>0, <1>3, <1>6, <1>7 DEF Sums

LEMMA SumsRemove ==
    ASSUME NEW n \in Nat, NEW s, Len(s) = n, Sized(s),
           NEW g, Sums(g, s), NEW k \in 1 .. n,
           NEW d, Removed(d, s, k)
    PROVE  \E h : Sums(h, d) /\ h[n - 1] = g[n] - s[k].size
<1>0. /\ Len(d) = n - 1
      /\ \A i \in 1 .. k - 1 : d[i] = s[i]
      /\ \A i \in k .. n - 1 : d[i] = s[i + 1]
  BY DEF Removed
<1>0a. \A i \in 1 .. n : s[i].size \in Nat
  BY DEF Sized
<1>1. g \in [0 .. n -> Nat] /\ g[0] = 0 /\ \A i \in 1 .. n : g[i] = g[i - 1] + s[i].size
  BY DEF Sums
<1>2. \A i \in 0 .. n : g[i] \in Nat
  BY <1>1
<1>3. PICK z \in Nat : z = s[k].size /\ g[k] = g[k - 1] + z
  BY <1>0a, <1>1
<1>4. PICK h : h = [i \in 0 .. n - 1 |-> IF i < k THEN g[i] ELSE g[i + 1] - z]
  OBVIOUS
<1>5. \A i \in k .. n : z <= g[i]
  <2> TAKE i \in k .. n
  <2>1. g[k] <= g[i]
    <3>1. Len(s) \in Nat /\ \A x \in 1 .. Len(s) : s[x].size \in Nat
      BY <1>0a
    <3>2. k \in 0 .. Len(s) /\ i \in 0 .. Len(s) /\ k <= i
      OBVIOUS
    <3> QED
      BY <3>1, <3>2, SumsGrow
  <2>2. g[k - 1] \in Nat /\ g[i] \in Nat
    BY <1>2
  <2> QED
    BY <2>1, <2>2, <1>3
<1>6. h \in [0 .. n - 1 -> Nat] /\ h[0] = 0 /\ h[n - 1] = g[n] - z
  <2>1. ASSUME NEW i \in 0 .. n - 1 PROVE (IF i < k THEN g[i] ELSE g[i + 1] - z) \in Nat
    <3>1. CASE i < k
      BY <3>1, <1>2
    <3>2. CASE ~(i < k)
      <4>1. i + 1 \in k .. n /\ i + 1 \in 0 .. n
        BY <3>2
      <4> QED
        BY <4>1, <3>2, <1>2, <1>5
    <3> QED
      BY <3>1, <3>2
  <2>2. h[0] = 0
    BY <1>1, <1>4
  <2>3. h[n - 1] = g[n] - z
    <3>1. CASE n - 1 < k
      <4>1. n = k /\ n - 1 \in 0 .. n - 1
        BY <3>1
      <4>2. h[n - 1] = g[k - 1] /\ g[k - 1] \in Nat
        BY <4>1, <3>1, <1>2, <1>4
      <4> QED
        BY <4>1, <4>2, <1>3
    <3>2. CASE ~(n - 1 < k)
      BY <3>2, <1>4
    <3> QED
      BY <3>1, <3>2
  <2> QED
    BY <2>1, <2>2, <2>3, <1>4
<1>7. ASSUME NEW i \in 1 .. n - 1 PROVE h[i] = h[i - 1] + d[i].size
  <2>0. i \in 0 .. n - 1 /\ i - 1 \in 0 .. n - 1 /\ i \in 1 .. n /\ i + 1 \in 1 .. n
    OBVIOUS
  <2>1. CASE i < k
    <3>1. i \in 1 .. k - 1 /\ i - 1 < k
      BY <2>1
    <3>2. h[i] = g[i] /\ h[i - 1] = g[i - 1]
      BY <2>0, <2>1, <3>1, <1>4
    <3> QED
      BY <2>0, <3>1, <3>2, <1>0, <1>1
  <2>2. CASE i >= k
    <3>1. i \in k .. n - 1 /\ ~(i < k)
      BY <2>2
    <3>2. d[i] = s[i + 1] /\ g[i + 1] = g[i] + s[i + 1].size
      <4>1. d[i] = s[i + 1]
        BY <3>1, <1>0
      <4>2. i + 1 \in 1 .. n /\ (i + 1) - 1 = i
        BY <2>0
      <4> QED
        BY <4>1, <4>2, <1>1
    <3>3. h[i] = g[i + 1] - z
      BY <2>0, <3>1, <1>4
    <3>4. h[i - 1] = g[i] - z
      <4>1. CASE i = k
        <5>1. h[i - 1] = g[i - 1] /\ g[i - 1] \in Nat
          BY <4>1, <2>0, <1>2, <1>4
        <5> QED
          BY <5>1, <4>1, <1>3
      <4>2. CASE i # k
        BY <4>2, <3>1, <2>0, <1>4
      <4> QED
        BY <4>1, <4>2
    <3>5. g[i] \in Nat /\ s[i + 1].size \in Nat
      BY <2>0, <1>0a, <1>2
    <3> QED
      BY <3>2, <3>3, <3>4, <3>5
  <2> QED
    BY <2>1, <2>2
<1> QED
  BY <1>0, <1>3, <1>6, <1>7 DEF Sums

-----------------------------------------------------------------------------
(* Slots put in, taken out, and cut.                                       *)

LEMMA InsertSorted ==
    ASSUME NEW slots \in Slots, Sorted(slots), NEW e \in Rec, e.key \notin KeysOf(slots),
           NEW d, d = InsertAt(slots, PartitionUpper(slots, e.key) + 1, e)
    PROVE  /\ d \in Slots /\ Len(d) = Len(slots) + 1 /\ Sorted(d)
           /\ KeysOf(d) = KeysOf(slots) \cup {e.key}
           /\ \E k \in 1 .. Len(slots) + 1 : d[k] = e /\ Inserted(d, slots, k)
<1>1. PICK n \in Nat :
         /\ n = Len(slots) /\ DOMAIN slots = 1 .. n /\ slots \in Seq(Rec)
         /\ \A i \in 1 .. n : slots[i] \in Rec /\ slots[i].key \in Nat /\ slots[i].key \in KeysOf(slots)
         /\ \A j \in KeysOf(slots) : \E i \in 1 .. n : slots[i].key = j
  BY SlotFacts
<1>2. PICK k \in Nat : k = e.key /\ k \notin KeysOf(slots)
  BY PageAssumption DEF Rec
<1>3. PICK c : c = PartitionUpper(slots, k)
  OBVIOUS
<1>4. c \in 0 .. n /\ \A i \in 1 .. n : slots[i].key <= k <=> i <= c
  BY <1>1, <1>3, PartitionSplits
<1>5. /\ d \in Seq(Rec) /\ Len(d) = n + 1
      /\ \A i \in 1 .. c : d[i] = slots[i]
      /\ d[c + 1] = e
      /\ \A i \in c + 1 .. n : d[i + 1] = slots[i]
  <2>1. c + 1 \in 1 .. Len(slots) + 1
    BY <1>1, <1>4
  <2>0. d = InsertAt(slots, c + 1, e)
    BY <1>2, <1>3
  <2>2. /\ d \in Seq(Rec) /\ Len(d) = Len(slots) + 1
        /\ \A i \in 1 .. (c + 1) - 1 : d[i] = slots[i]
        /\ d[c + 1] = e
        /\ \A i \in c + 1 .. Len(slots) : d[i + 1] = slots[i]
    <3>1. slots \in Seq(Rec)
      BY <1>1
    <3> HIDE <1>4
    <3>2. PICK k1 : k1 = c + 1
      OBVIOUS
    <3>3. /\ d \in Seq(Rec) /\ Len(d) = Len(slots) + 1
          /\ \A i \in 1 .. k1 - 1 : d[i] = slots[i]
          /\ d[k1] = e
          /\ \A i \in k1 .. Len(slots) : d[i + 1] = slots[i]
      BY <2>0, <2>1, <3>1, <3>2, InsertAtElements
    <3> QED
      BY <3>2, <3>3
  <2>3. (c + 1) - 1 = c
    BY <1>4
  <2> QED
    BY <2>2, <2>3, <1>1
<1>6. DOMAIN d = 1 .. n + 1
  BY <1>5, LenProperties
<1>7. \A i \in 1 .. n + 1 :
         \/ i <= c /\ i \in 1 .. n /\ d[i] = slots[i]
         \/ i = c + 1 /\ d[i] = e
         \/ i > c + 1 /\ i - 1 \in c + 1 .. n /\ i - 1 \in 1 .. n /\ d[i] = slots[i - 1]
  <2> TAKE i \in 1 .. n + 1
  <2>1. CASE i <= c
    BY <2>1, <1>4, <1>5
  <2>2. CASE i = c + 1
    BY <2>2, <1>5
  <2>3. CASE i > c + 1
    <3>1. i - 1 \in c + 1 .. n /\ i - 1 \in 1 .. n /\ (i - 1) + 1 = i
      BY <2>3, <1>4
    <3> QED
      BY <3>1, <2>3, <1>5
  <2> QED
    BY <2>1, <2>2, <2>3, <1>4
<1>8. \A i \in 1 .. n : slots[i].key # k
  BY <1>1, <1>2
<1>9. Sorted(d)
  <2> SUFFICES ASSUME NEW i \in 1 .. n + 1, NEW j \in 1 .. n + 1, i < j
               PROVE  d[i].key < d[j].key
    BY <1>6 DEF Sorted
  <2>1. \A x, y \in 1 .. n : x < y => slots[x].key < slots[y].key
    BY <1>1 DEF Sorted
  <2>2. CASE j <= c
    BY <2>1, <2>2, <1>4, <1>7
  <2>3. CASE j = c + 1
    <3>1. i <= c /\ i \in 1 .. n /\ d[i] = slots[i] /\ d[j] = e
      BY <2>3, <1>4, <1>7
    <3> QED
      BY <3>1, <1>1, <1>2, <1>4, <1>8
  <2>4. CASE j > c + 1
    <3>1. j - 1 \in 1 .. n /\ d[j] = slots[j - 1] /\ j - 1 > c
      BY <2>4, <1>4, <1>7
    <3>2. CASE i <= c
      BY <2>1, <3>1, <3>2, <1>4, <1>7
    <3>3. CASE i = c + 1
      <4>1. ~(slots[j - 1].key <= k) /\ slots[j - 1].key \in Nat /\ d[i] = e
        BY <3>1, <3>3, <1>1, <1>4, <1>7
      <4> QED
        BY <4>1, <3>1, <1>2
    <3>4. CASE i > c + 1
      BY <2>1, <3>1, <3>4, <1>4, <1>7
    <3> QED
      BY <3>2, <3>3, <3>4, <1>4
  <2> QED
    BY <2>2, <2>3, <2>4, <1>4
<1>10. KeysOf(d) = KeysOf(slots) \cup {k}
  <2>1. KeysOf(d) \subseteq KeysOf(slots) \cup {k}
    <3> SUFFICES ASSUME NEW x \in KeysOf(d) PROVE x \in KeysOf(slots) \cup {k}
      OBVIOUS
    <3>1. PICK i \in 1 .. n + 1 : x = d[i].key
      BY <1>6 DEF KeysOf
    <3> QED
      BY <3>1, <1>1, <1>2, <1>7
  <2>2. k \in KeysOf(d)
    <3>1. c + 1 \in 1 .. n + 1
      BY <1>4
    <3> QED
      BY <3>1, <1>2, <1>5, <1>6 DEF KeysOf
  <2>3. ASSUME NEW x \in KeysOf(slots) PROVE x \in KeysOf(d)
    <3>1. PICK i \in 1 .. n : slots[i].key = x
      BY <1>1
    <3>2. \E j \in 1 .. n + 1 : d[j] = slots[i]
      <4>1. CASE i <= c
        BY <4>1, <1>4, <1>5
      <4>2. CASE i > c
        BY <4>2, <1>4, <1>5
      <4> QED
        BY <4>1, <4>2, <1>4
    <3> QED
      BY <3>1, <3>2, <1>6 DEF KeysOf
  <2> QED
    BY <2>1, <2>2, <2>3
<1>11. d \in Slots
  BY <1>5 DEF Slots, Rec
<1>12. \E j \in 1 .. Len(slots) + 1 : d[j] = e /\ Inserted(d, slots, j)
  <2>1. c + 1 \in 1 .. n + 1 /\ (c + 1) - 1 = c
    BY <1>4
  <2>2. Inserted(d, slots, c + 1)
    BY <2>1, <1>1, <1>5 DEF Inserted
  <2> QED
    BY <2>1, <2>2, <1>1, <1>5
<1> QED
  BY <1>1, <1>2, <1>5, <1>9, <1>10, <1>11, <1>12

LEMMA RemoveSorted ==
    ASSUME NEW slots \in Slots, Sorted(slots), NEW k \in 1 .. Len(slots),
           NEW d, d = RemoveAt(slots, k)
    PROVE  /\ d \in Slots /\ Len(d) = Len(slots) - 1 /\ Sorted(d)
           /\ Removed(d, slots, k)
<1>1. PICK n \in Nat :
         /\ n = Len(slots) /\ DOMAIN slots = 1 .. n /\ slots \in Seq(Rec) /\ k \in 1 .. n
  BY SlotFacts
<1>2. /\ d \in Seq(Rec) /\ Len(d) = n - 1
      /\ \A i \in 1 .. k - 1 : d[i] = slots[i]
      /\ \A i \in k .. n - 1 : d[i] = slots[i + 1]
  BY <1>1, RemoveAtElements
<1>3. DOMAIN d = 1 .. n - 1
  BY <1>2, LenProperties
<1>4. Sorted(d)
  <2> SUFFICES ASSUME NEW i \in 1 .. n - 1, NEW j \in 1 .. n - 1, i < j
               PROVE  d[i].key < d[j].key
    BY <1>3 DEF Sorted
  <2>1. \A x, y \in 1 .. n : x < y => slots[x].key < slots[y].key
    BY <1>1 DEF Sorted
  <2>2. CASE j < k
    <3>1. /\ i \in 1 .. k - 1 /\ j \in 1 .. k - 1 /\ i \in 1 .. n /\ j \in 1 .. n
      BY <2>2, <1>1
    <3> QED
      BY <3>1, <2>1, <1>2
  <2>3. CASE i < k /\ j >= k
    <3>1. i \in 1 .. k - 1 /\ j \in k .. n - 1 /\ i \in 1 .. n /\ j + 1 \in 1 .. n /\ i < j + 1
      BY <2>3, <1>1
    <3> QED
      BY <3>1, <2>1, <1>2
  <2>4. CASE i >= k /\ j >= k
    <3>1. /\ i \in k .. n - 1 /\ j \in k .. n - 1
          /\ i + 1 \in 1 .. n /\ j + 1 \in 1 .. n /\ i + 1 < j + 1
      BY <2>4, <1>1
    <3> QED
      BY <3>1, <2>1, <1>2
  <2> QED
    BY <2>2, <2>3, <2>4
<1>5. d \in Slots
  BY <1>2 DEF Slots, Rec
<1> QED
  BY <1>1, <1>2, <1>4, <1>5 DEF Removed

LEMMA CutSorted ==
    ASSUME NEW slots \in Slots, Sorted(slots), NEW c \in 0 .. Len(slots),
           NEW a, a = SubSeq(slots, 1, c), NEW b, b = SubSeq(slots, c + 1, Len(slots))
    PROVE  /\ a \in Slots /\ Sorted(a) /\ Part(a, slots, 0, c)
           /\ b \in Slots /\ Sorted(b) /\ Part(b, slots, c, Len(slots) - c)
<1>1. PICK n \in Nat :
         /\ n = Len(slots) /\ DOMAIN slots = 1 .. n /\ slots \in Seq(Rec) /\ c \in 0 .. n
         /\ \A i \in 1 .. n : slots[i] \in Rec
  BY SlotFacts
<1>2. \A x, y \in 1 .. n : x < y => slots[x].key < slots[y].key
  BY <1>1 DEF Sorted
<1>3. (\A i \in 1 .. c : a[i] = slots[i]) /\ \A i \in 1 .. n - c : b[i] = slots[c + i]
  BY <1>1, CutElements
<1>4. a \in Seq(Rec) /\ Len(a) = c
  <2>1. \A i \in 1 .. c : slots[i] \in Rec
    BY <1>1
  <2>2. a \in Seq(Rec) /\ Len(a) = IF 1 <= c THEN c - 1 + 1 ELSE 0
    BY <2>1, SubSeqProperties
  <2> QED
    BY <2>2, <1>1
<1>5. b \in Seq(Rec) /\ Len(b) = n - c
  <2>1. \A i \in c + 1 .. n : slots[i] \in Rec
    BY <1>1
  <2>2. b \in Seq(Rec) /\ Len(b) = IF c + 1 <= n THEN n - (c + 1) + 1 ELSE 0
    BY <2>1, <1>1, SubSeqProperties
  <2> QED
    BY <2>2, <1>1
<1>6. Sorted(a)
  <2>1. DOMAIN a = 1 .. c
    BY <1>4, LenProperties
  <2> QED
    BY <2>1, <1>1, <1>2, <1>3 DEF Sorted
<1>7. Sorted(b)
  <2>1. DOMAIN b = 1 .. n - c
    BY <1>5, LenProperties
  <2> SUFFICES ASSUME NEW i \in 1 .. n - c, NEW j \in 1 .. n - c, i < j
               PROVE  b[i].key < b[j].key
    BY <2>1 DEF Sorted
  <2>2. c + i \in 1 .. n /\ c + j \in 1 .. n /\ c + i < c + j
    BY <1>1
  <2> QED
    BY <2>2, <1>2, <1>3
<1>8. a \in Slots /\ b \in Slots
  BY <1>4, <1>5 DEF Slots, Rec
<1>9. Part(a, slots, 0, c)
  <2>1. \A i \in 1 .. c : 0 + i = i
    OBVIOUS
  <2> QED
    BY <2>1, <1>3, <1>4 DEF Part
<1> QED
  BY <1>1, <1>3, <1>5, <1>6, <1>7, <1>8, <1>9 DEF Part

-----------------------------------------------------------------------------
(* Pages.                                                                  *)

PageRec == [type : {"Leaf", "Node"}, slots : Slots, cont : 0 .. (Word - 1),
            total : 0 .. (Word - 1), ptr : 0 .. PageSize]

\* The tuples lie where no slot and no other tuple does.
Laid(p) ==
    /\ \A i \in DOMAIN p.slots : p.ptr <= p.slots[i].at /\ p.slots[i].at + p.slots[i].size <= PageSize
    /\ \A i, j \in DOMAIN p.slots :
          i # j => \/ p.slots[i].at + p.slots[i].size <= p.slots[j].at
                   \/ p.slots[j].at + p.slots[j].size <= p.slots[i].at

\* They have room between the pointer and the end of the page.
HasRoom(p) == \E g : Sums(g, p.slots) /\ g[Len(p.slots)] <= PageSize - p.ptr

Sound(p) == p \in PageRec /\ Sorted(p.slots) /\ Laid(p) /\ HasRoom(p)

LEMMA WordInt == /\ PageSize \in Nat /\ Header \in Nat /\ Slot \in Nat /\ Slot > 0
                 /\ Word \in Nat /\ PageSize < Word /\ Header + Slot < PageSize
  BY PageAssumption

LEMMA U32Bounds ==
    ASSUME NEW n \in Int
    PROVE  U32(n) \in 0 .. (Word - 1) /\ (n \in 0 .. (Word - 1) => U32(n) = n)
<1>1. Word \in Int /\ Word > 0
  BY WordInt
<1> QED
  BY <1>1 DEF U32

LEMMA PlacedFields ==
    ASSUME NEW p \in PageRec, NEW tuple, tuple.key \in Key, tuple.size \in Sizes, tuple.size <= p.ptr,
           NEW d, d = Placed(p, tuple)
    PROVE  /\ d.type = p.type
           /\ d.slots = InsertAt(p.slots, PartitionUpper(p.slots, tuple.key) + 1,
                                 [key |-> tuple.key, size |-> tuple.size, at |-> p.ptr - tuple.size])
           /\ d.ptr = p.ptr - tuple.size
           /\ d.cont = U32(p.cont - tuple.size - Slot)
           /\ d.total = U32(p.total - tuple.size - Slot)
           /\ d = [type |-> d.type, slots |-> d.slots, cont |-> d.cont, total |-> d.total, ptr |-> d.ptr]
  BY DEF Placed, PageRec

LEMMA PlacedSound ==
    ASSUME NEW p, Sound(p), NEW tuple, tuple.key \in Key, tuple.size \in Sizes,
           tuple.key \notin KeysOf(p.slots), tuple.size <= p.ptr,
           NEW d, d = Placed(p, tuple)
    PROVE  /\ Sound(d) /\ d.type = p.type /\ Len(d.slots) = Len(p.slots) + 1
           /\ KeysOf(d.slots) = KeysOf(p.slots) \cup {tuple.key}
           /\ d.ptr = p.ptr - tuple.size
           /\ d.cont = U32(p.cont - tuple.size - Slot)
           /\ d.total = U32(p.total - tuple.size - Slot)
<1>1. /\ p \in PageRec /\ p.slots \in Slots /\ Sorted(p.slots)
      /\ p.type \in {"Leaf", "Node"} /\ p.cont \in Nat /\ p.total \in Nat
  BY WordInt DEF Sound, PageRec
<1>2. PICK z \in Nat : z = tuple.size /\ z > 0
  <2>1. \A x \in Sizes : x \in Nat /\ x > 0
    BY PageAssumption
  <2> QED
    BY <2>1
<1>3. PICK q \in Nat : q = p.ptr /\ q <= PageSize /\ z <= q
  BY <1>2, WordInt DEF Sound, PageRec
<1>4. PICK e : e = [key |-> tuple.key, size |-> z, at |-> q - z]
  OBVIOUS
<1>5. e \in Rec /\ e.key = tuple.key /\ e.size = z /\ e.at = q - z
  <2>1. q - z \in 0 .. PageSize
    BY <1>2, <1>3, WordInt
  <2> QED
    BY <2>1, <1>2, <1>4 DEF Rec
<1>6. /\ d.type = p.type
      /\ d.slots = InsertAt(p.slots, PartitionUpper(p.slots, e.key) + 1, e)
      /\ d.ptr = q - z
      /\ d.cont = U32(p.cont - z - Slot)
      /\ d.total = U32(p.total - z - Slot)
      /\ d = [type |-> d.type, slots |-> d.slots, cont |-> d.cont, total |-> d.total, ptr |-> d.ptr]
  BY <1>1, <1>2, <1>3, <1>4, <1>5, PlacedFields
<1>7. PICK s : s = p.slots /\ s \in Slots /\ Sorted(s) /\ e.key \notin KeysOf(s)
  BY <1>1, <1>5
<1>8. PICK t : t = d.slots /\ t = InsertAt(s, PartitionUpper(s, e.key) + 1, e)
  BY <1>6, <1>7
<1>9. PICK n \in Nat :
         /\ n = Len(s) /\ DOMAIN s = 1 .. n /\ s \in Seq(Rec)
         /\ \A i \in 1 .. n : s[i].size \in Nat /\ s[i].at \in 0 .. PageSize
  BY <1>7, SlotFacts
<1>10. /\ t \in Slots /\ Len(t) = n + 1 /\ Sorted(t)
       /\ KeysOf(t) = KeysOf(s) \cup {e.key}
       /\ \E k \in 1 .. n + 1 : t[k] = e /\ Inserted(t, s, k)
  <2>1. /\ t \in Slots /\ Len(t) = Len(s) + 1 /\ Sorted(t)
        /\ KeysOf(t) = KeysOf(s) \cup {e.key}
        /\ \E k \in 1 .. Len(s) + 1 : t[k] = e /\ Inserted(t, s, k)
    BY <1>5, <1>7, <1>8, InsertSorted
  <2> QED
    BY <2>1, <1>9
<1>11. PICK k \in 1 .. n + 1 : t[k] = e /\ Inserted(t, s, k)
  BY <1>10
<1> DEFINE c == k - 1
<1>11a. /\ c \in 0 .. n /\ c + 1 = k
        /\ \A i \in 1 .. c : t[i] = s[i]
        /\ t[c + 1] = e
        /\ \A i \in c + 1 .. n : t[i + 1] = s[i]
  BY <1>9, <1>11 DEF Inserted
<1> HIDE DEF c
<1>12. DOMAIN t = 1 .. n + 1
  BY <1>10, SlotFacts
<1>13. d \in PageRec
  <2>1. p.cont - z - Slot \in Int /\ p.total - z - Slot \in Int
    BY <1>1, WordInt
  <2>2. d.cont \in 0 .. (Word - 1) /\ d.total \in 0 .. (Word - 1)
    BY <2>1, <1>6, U32Bounds
  <2>3. d.ptr \in 0 .. PageSize
    BY <1>3, <1>6, WordInt
  <2> QED
    BY <2>2, <2>3, <1>1, <1>6, <1>8, <1>10 DEF PageRec
<1>14. Laid(d)
  <2> DEFINE o(i) == IF i <= c THEN i ELSE i - 1
  <2>1. \A i \in 1 .. n + 1 : i # c + 1 => o(i) \in 1 .. n /\ t[i] = s[o(i)]
    <3> TAKE i \in 1 .. n + 1
    <3>1. CASE i <= c
      BY <3>1, <1>11a
    <3>2. CASE i > c + 1
      <4>1. i - 1 \in c + 1 .. n /\ i - 1 \in 1 .. n /\ (i - 1) + 1 = i /\ ~(i <= c)
        BY <3>2, <1>11a
      <4> QED
        BY <4>1, <1>11a
    <3> QED
      BY <3>1, <3>2, <1>11a
  <2>2. \A i, j \in 1 .. n + 1 : i # c + 1 /\ j # c + 1 /\ i # j => o(i) # o(j)
    BY <1>11a
  <2> HIDE DEF o
  <2>3. /\ \A i \in 1 .. n : q <= s[i].at /\ s[i].at + s[i].size <= PageSize
        /\ \A i, j \in 1 .. n : i # j => \/ s[i].at + s[i].size <= s[j].at
                                         \/ s[j].at + s[j].size <= s[i].at
    BY <1>3, <1>7, <1>9 DEF Sound, Laid
  <2>4. \A i \in 1 .. n + 1 : q - z <= t[i].at /\ t[i].at + t[i].size <= PageSize
    <3> TAKE i \in 1 .. n + 1
    <3>1. CASE i = c + 1
      <4>1. t[i].at = q - z /\ t[i].size = z
        BY <3>1, <1>5, <1>11a
      <4> QED
        BY <4>1, <1>3
    <3>2. CASE i # c + 1
      <4>1. o(i) \in 1 .. n /\ t[i] = s[o(i)]
        BY <3>2, <2>1
      <4>2. PICK x, y \in Nat : x = t[i].at /\ y = t[i].size /\ q <= x /\ x + y <= PageSize
        <5>1. /\ q <= s[o(i)].at /\ s[o(i)].at + s[o(i)].size <= PageSize
              /\ s[o(i)].at \in 0 .. PageSize /\ s[o(i)].size \in Nat
          BY <4>1, <2>3, <1>9
        <5>2. s[o(i)].at \in Nat
          BY <5>1, WordInt
        <5> QED
          BY <5>1, <5>2, <4>1
      <4> QED
        BY <4>2, <1>2, <1>3
    <3> QED
      BY <3>1, <3>2
  <2>5. \A i \in 1 .. n + 1 : i # c + 1 => e.at + e.size <= t[i].at
    <3> TAKE i \in 1 .. n + 1
    <3>1. HAVE i # c + 1
    <3>2. q <= t[i].at
      BY <3>1, <2>1, <2>3
    <3>3. e.at + e.size = q
      BY <1>3, <1>5
    <3> QED
      BY <3>2, <3>3
  <2>6. \A i, j \in 1 .. n + 1 : i # j => \/ t[i].at + t[i].size <= t[j].at
                                          \/ t[j].at + t[j].size <= t[i].at
    <3> SUFFICES ASSUME NEW i \in 1 .. n + 1, NEW j \in 1 .. n + 1, i # j
                 PROVE  \/ t[i].at + t[i].size <= t[j].at
                        \/ t[j].at + t[j].size <= t[i].at
      OBVIOUS
    <3>1. CASE i = c + 1
      BY <3>1, <2>5, <1>11a
    <3>2. CASE j = c + 1
      BY <3>2, <2>5, <1>11a
    <3>3. CASE i # c + 1 /\ j # c + 1
      BY <3>3, <2>1, <2>2, <2>3
    <3> QED
      BY <3>1, <3>2, <3>3
  <2> QED
    BY <2>4, <2>6, <1>6, <1>8, <1>12 DEF Laid
<1>15. HasRoom(d)
  <2>1. PICK g : Sums(g, s) /\ g[n] <= PageSize - q
    BY <1>3, <1>7, <1>9 DEF Sound, HasRoom
  <2>3. t[k].size \in Nat /\ t[k].size = z
    BY <1>5, <1>11
  <2>4. PICK h : Sums(h, t) /\ h[n + 1] = g[n] + z
    <3>1. /\ Len(s) = n /\ \A i \in 1 .. n : s[i].size \in Nat
          /\ Sums(g, s) /\ Sized(s) /\ Inserted(t, s, k)
      BY <2>1, <1>9, <1>11 DEF Sized
    <3>2. \E h : Sums(h, t) /\ h[n + 1] = g[n] + t[k].size
      BY <3>1, <2>3, SumsInsert
    <3> QED
      BY <3>2, <2>3
  <2>5. g[n] \in Nat
    BY <2>1, <1>9 DEF Sums
  <2>6. h[n + 1] <= PageSize - (q - z)
    BY <2>1, <2>4, <2>5, WordInt
  <2> QED
    BY <2>4, <2>6, <1>6, <1>8, <1>10 DEF HasRoom
<1> QED
  BY <1>2, <1>3, <1>5, <1>6, <1>7, <1>8, <1>9, <1>10, <1>13, <1>14, <1>15 DEF Sound

-----------------------------------------------------------------------------
(* Rebuilt pages.                                                          *)

\* The page that n of the slots make, put on a fresh page from its end on.
Packed(type, slots, g, n) ==
    [type  |-> type,
     slots |-> [i \in 1 .. n |-> [key |-> slots[i].key, size |-> slots[i].size,
                                  at |-> PageSize - g[i]]],
     cont  |-> PageSize - Header - g[n] - Slot * n,
     total |-> PageSize - Header - g[n] - Slot * n,
     ptr   |-> PageSize - g[n]]

\* The recursive function in Rebuilt.
Builds(type, slots, build) ==
    build = [n \in 0 .. Len(slots) |->
                IF n = 0 THEN Fresh(type) ELSE Placed(build[n - 1], slots[n])]

LEMMA RebuiltBuilds ==
    ASSUME NEW type, NEW slots, \E build : Builds(type, slots, build)
    PROVE  \E build : Builds(type, slots, build) /\ Rebuilt(type, slots) = build[Len(slots)]
<1> DEFINE w == CHOOSE build : Builds(type, slots, build)
<1>1. Builds(type, slots, w)
  OBVIOUS
<1>2. Rebuilt(type, slots) = w[Len(slots)]
  BY DEF Rebuilt, Builds
<1> QED
  BY <1>1, <1>2

\* A sorted page's worth of slots.
Fits(slots, g) == /\ slots \in Slots /\ Sorted(slots) /\ Sums(g, slots)
                  /\ Header + Slot * Len(slots) + g[Len(slots)] <= PageSize

LEMMA PackedSpace ==
    ASSUME NEW slots, NEW g, Fits(slots, g), NEW n \in 0 .. Len(slots)
    PROVE  /\ g[n] \in Nat /\ Slot * n \in Nat /\ Header + Slot * n + g[n] <= PageSize
           /\ n # 0 => /\ g[n] = g[n - 1] + slots[n].size
                       /\ Slot * n = Slot * (n - 1) + Slot
                       /\ g[n - 1] \in Nat /\ Slot * (n - 1) \in Nat
<1>1. PICK m \in Nat : m = Len(slots) /\ n \in 0 .. m
  BY SlotFacts DEF Fits
<1>2. /\ g \in [0 .. m -> Nat] /\ \A i \in 1 .. m : g[i] = g[i - 1] + slots[i].size
      /\ Sums(g, slots)
  BY <1>1 DEF Fits, Sums
<1>3. g[n] <= g[m]
  <2>1. Len(slots) \in Nat /\ \A i \in 1 .. Len(slots) : slots[i].size \in Nat
    BY SlotFacts DEF Fits
  <2>2. m \in 0 .. Len(slots) /\ n <= m
    BY <1>1
  <2> QED
    BY <2>1, <2>2, <1>2, SumsGrow, <1>1
<1>4. g[n] \in Nat /\ g[m] \in Nat
  BY <1>1, <1>2
<1>5. \A a, x, y \in Nat : x <= y => a * x \in Nat /\ a * y \in Nat /\ a * x <= a * y
  <2> SUFFICES ASSUME NEW a \in Nat, NEW x \in Nat, NEW y \in Nat, x <= y
               PROVE  a * x \in Nat /\ a * y \in Nat /\ a * x <= a * y
    OBVIOUS
  <2>1. PICK w \in Nat : y = x + w
    <3>1. y - x \in Nat /\ y = x + (y - x)
      OBVIOUS
    <3> QED
      BY <3>1
  <2>2. a * x \in Nat /\ a * w \in Nat
    OBVIOUS
  <2>3. a * y = a * x + a * w
    BY <2>1
  <2> QED
    BY <2>2, <2>3
<1>6. Slot * n \in Nat /\ Slot * m \in Nat /\ Slot * n <= Slot * m
  BY <1>1, <1>5, WordInt
<1>7. Header + Slot * n + g[n] <= PageSize
  <2>1. Header + Slot * m + g[m] <= PageSize
    BY <1>1 DEF Fits
  <2>2. PICK b \in Nat, c \in Nat, d \in Nat, e \in Nat :
            b = Slot * n /\ c = Slot * m /\ d = g[n] /\ e = g[m] /\ b <= c /\ d <= e
    BY <1>3, <1>4, <1>6
  <2>3. Header + c + e <= PageSize
    BY <2>1, <2>2
  <2>4. Header + b + d <= PageSize
    <3>1. b <= c /\ d <= e
      BY <2>2
    <3> QED
      BY <3>1, <2>3, WordInt
  <2> QED
    BY <2>2, <2>4
<1>8. ASSUME n # 0
      PROVE  /\ g[n] = g[n - 1] + slots[n].size
             /\ Slot * n = Slot * (n - 1) + Slot
             /\ g[n - 1] \in Nat /\ Slot * (n - 1) \in Nat
  <2>1. n \in 1 .. m /\ n - 1 \in 0 .. m /\ n - 1 \in Nat
    BY <1>1, <1>8
  <2>2. PICK x \in Nat : x = n - 1 /\ n = x + 1
    BY <2>1
  <2>3. Slot * (x + 1) = Slot * x + Slot
    BY <2>2, WordInt
  <2>4. Slot * x \in Nat
    BY <2>2, WordInt
  <2> QED
    BY <2>1, <2>2, <2>3, <2>4, <1>2
<1> QED
  BY <1>4, <1>6, <1>7, <1>8

LEMMA PackedPage ==
    ASSUME NEW type \in {"Leaf", "Node"}, NEW slots, NEW g, Fits(slots, g), NEW n \in 0 .. Len(slots),
           NEW p, p = Packed(type, slots, g, n)
    PROVE  /\ p \in PageRec /\ p.type = type /\ p.ptr = PageSize - g[n]
           /\ p.cont = PageSize - Header - g[n] - Slot * n /\ p.total = p.cont
           /\ Len(p.slots) = n /\ Sorted(p.slots)
           /\ \A i \in 1 .. n : p.slots[i] = [key |-> slots[i].key, size |-> slots[i].size,
                                              at |-> PageSize - g[i]]
<1>1. PICK m \in Nat : /\ m = Len(slots) /\ DOMAIN slots = 1 .. m /\ n \in 0 .. m
                       /\ \A i \in 1 .. m : slots[i].key \in Key /\ slots[i].size \in Sizes
  BY SlotFacts DEF Fits
<1>2. \A i \in 0 .. n : g[i] \in Nat /\ g[i] <= PageSize
  <2> TAKE i \in 0 .. n
  <2>1. g[i] \in Nat /\ Slot * i \in Nat /\ Header + Slot * i + g[i] <= PageSize
    BY <1>1, PackedSpace
  <2> QED
    BY <2>1, WordInt
<1>3. g[n] \in Nat /\ Slot * n \in Nat /\ Header + Slot * n + g[n] <= PageSize
  BY PackedSpace
<1>4. PICK s : s = [i \in 1 .. n |-> [key |-> slots[i].key, size |-> slots[i].size,
                                      at |-> PageSize - g[i]]]
  OBVIOUS
<1>5. \A i \in 1 .. n : s[i] \in Rec
  <2> TAKE i \in 1 .. n
  <2>1. PageSize - g[i] \in 0 .. PageSize
    BY <1>2, WordInt
  <2> QED
    BY <2>1, <1>1, <1>4 DEF Rec
<1>6. s \in Seq(Rec) /\ Len(s) = n /\ DOMAIN s = 1 .. n
  <2>1. n \in Nat
    BY <1>1
  <2>2. s \in [1 .. n -> Rec]
    BY <1>4, <1>5
  <2> QED
    BY <2>1, <2>2, LenProperties, SeqDef
<1>7. Sorted(s)
  BY <1>1, <1>4, <1>6 DEF Sorted, Fits
<1>8. PageSize - Header - g[n] - Slot * n \in 0 .. (Word - 1) /\ PageSize - g[n] \in 0 .. PageSize
  BY <1>3, WordInt
<1>9. p = [type |-> type, slots |-> s, cont |-> PageSize - Header - g[n] - Slot * n,
           total |-> PageSize - Header - g[n] - Slot * n, ptr |-> PageSize - g[n]]
  BY <1>4 DEF Packed
<1>10. s \in Slots
  BY <1>6 DEF Slots, Rec
<1>11. p \in PageRec
  BY <1>8, <1>9, <1>10 DEF PageRec
<1> QED
  BY <1>4, <1>6, <1>7, <1>9, <1>11

LEMMA PackedStep ==
    ASSUME NEW type \in {"Leaf", "Node"}, NEW slots, NEW g, Fits(slots, g), NEW n \in 1 .. Len(slots)
    PROVE  Placed(Packed(type, slots, g, n - 1), slots[n]) = Packed(type, slots, g, n)
<1>1. PICK m \in Nat : /\ m = Len(slots) /\ DOMAIN slots = 1 .. m /\ n \in 1 .. m /\ n - 1 \in 0 .. m
                       /\ \A i \in 1 .. m : /\ slots[i].key \in Key /\ slots[i].key \in Nat
                                            /\ slots[i].size \in Sizes /\ slots[i].size \in Nat
  BY SlotFacts DEF Fits
<1>2. PICK p : p = Packed(type, slots, g, n - 1)
  OBVIOUS
<1>3. /\ p \in PageRec /\ p.type = type /\ p.ptr = PageSize - g[n - 1]
      /\ p.cont = PageSize - Header - g[n - 1] - Slot * (n - 1) /\ p.total = p.cont
      /\ Len(p.slots) = n - 1 /\ Sorted(p.slots)
      /\ \A i \in 1 .. n - 1 : p.slots[i] = [key |-> slots[i].key, size |-> slots[i].size,
                                             at |-> PageSize - g[i]]
  <2>1. n - 1 \in 0 .. Len(slots) /\ n - 1 \in Nat
    BY <1>1
  <2> QED
    BY <2>1, <1>2, PackedPage
<1>4. /\ g[n] \in Nat /\ Slot * n \in Nat /\ Header + Slot * n + g[n] <= PageSize
      /\ g[n] = g[n - 1] + slots[n].size /\ Slot * n = Slot * (n - 1) + Slot
      /\ g[n - 1] \in Nat /\ Slot * (n - 1) \in Nat
  <2>1. n \in 0 .. Len(slots) /\ n # 0
    BY <1>1
  <2> QED
    BY <2>1, PackedSpace
<1>5. PICK z \in Nat : z = slots[n].size /\ z \in Sizes
  BY <1>1
<1>6. PICK k \in Nat : k = slots[n].key /\ k \in Key
  BY <1>1
<1>6a. PICK a, b, u, v \in Nat : a = g[n - 1] /\ b = g[n] /\ u = Slot * (n - 1) /\ v = Slot * n
  BY <1>4
<1>6b. /\ b = a + z /\ v = u + Slot /\ Header + v + b <= PageSize
       /\ p.ptr = PageSize - a /\ p.cont = PageSize - Header - a - u
  BY <1>3, <1>4, <1>5, <1>6a
<1>7. z <= p.ptr /\ p.ptr - z = PageSize - g[n] /\ PageSize - g[n] \in 0 .. PageSize
  <2>1. z <= PageSize - a /\ (PageSize - a) - z = PageSize - b /\ PageSize - b \in 0 .. PageSize
    BY <1>6b, WordInt
  <2> QED
    BY <2>1, <1>6a, <1>6b
<1>8. PICK e : e = [key |-> k, size |-> z, at |-> PageSize - g[n]]
  OBVIOUS
<1>9. e \in Rec
  BY <1>5, <1>6, <1>7, <1>8 DEF Rec
<1>10. PICK d : d = Placed(p, slots[n])
  OBVIOUS
<1>11. /\ d.type = type /\ d.slots = InsertAt(p.slots, PartitionUpper(p.slots, k) + 1, e)
       /\ d.ptr = PageSize - g[n]
       /\ d.cont = U32(p.cont - z - Slot) /\ d.total = U32(p.cont - z - Slot)
       /\ d = [type |-> d.type, slots |-> d.slots, cont |-> d.cont, total |-> d.total, ptr |-> d.ptr]
  <2>1. slots[n].key \in Key /\ slots[n].size \in Sizes /\ slots[n].size <= p.ptr
    BY <1>5, <1>6, <1>7
  <2>2. /\ d.type = p.type
        /\ d.slots = InsertAt(p.slots, PartitionUpper(p.slots, slots[n].key) + 1,
                              [key |-> slots[n].key, size |-> slots[n].size,
                               at |-> p.ptr - slots[n].size])
        /\ d.ptr = p.ptr - slots[n].size
        /\ d.cont = U32(p.cont - slots[n].size - Slot)
        /\ d.total = U32(p.total - slots[n].size - Slot)
        /\ d = [type |-> d.type, slots |-> d.slots, cont |-> d.cont, total |-> d.total, ptr |-> d.ptr]
    BY <1>3, <1>10, <2>1, PlacedFields
  <2> QED
    BY <2>2, <1>3, <1>5, <1>6, <1>7, <1>8
<1>12. /\ d.cont = PageSize - Header - g[n] - Slot * n
       /\ d.total = PageSize - Header - g[n] - Slot * n
  <2>1. p.cont - z - Slot = PageSize - Header - g[n] - Slot * n
    <3>1. (PageSize - Header - a - u) - z - Slot = PageSize - Header - b - v
      BY <1>6b, WordInt
    <3> QED
      BY <3>1, <1>6a, <1>6b
  <2>2. PageSize - Header - g[n] - Slot * n \in 0 .. (Word - 1)
    <3>1. PageSize - Header - b - v \in 0 .. (Word - 1)
      BY <1>6b, WordInt
    <3> QED
      BY <3>1, <1>6a
  <2>3. PageSize - Header - g[n] - Slot * n \in Int
    BY <2>2, WordInt
  <2> QED
    BY <2>1, <2>2, <2>3, <1>11, U32Bounds
<1>13. p.slots \in Slots /\ p.slots \in Seq(Rec)
  BY <1>3, SlotFacts DEF PageRec
<1>14. PartitionUpper(p.slots, k) = n - 1
  <2>1. PICK c : c = PartitionUpper(p.slots, k)
    OBVIOUS
  <2>2. c \in 0 .. n - 1 /\ \A i \in 1 .. n - 1 : p.slots[i].key <= k <=> i <= c
    <3>1. PICK s : s = p.slots /\ s \in Slots /\ Sorted(s) /\ Len(s) = n - 1
      BY <1>3, <1>13
    <3>2. c = PartitionUpper(s, k)
      BY <2>1, <3>1
    <3>3. c \in 0 .. Len(s) /\ \A i \in 1 .. Len(s) : s[i].key <= k <=> i <= c
      BY <3>1, <3>2, PartitionSplits
    <3> QED
      BY <3>1, <3>3
  <2>3. CASE n = 1
    BY <2>1, <2>2, <2>3
  <2>4. CASE n # 1
    <3>1. n - 1 \in 1 .. n - 1 /\ n - 1 \in 1 .. m /\ n - 1 < n
      BY <2>4, <1>1
    <3>2. p.slots[n - 1].key = slots[n - 1].key
      <4>1. PICK x : x = n - 1 /\ x \in 1 .. n - 1
        BY <3>1
      <4>2. p.slots[x] = [key |-> slots[x].key, size |-> slots[x].size, at |-> PageSize - g[x]]
        BY <4>1, <1>3
      <4> QED
        BY <4>1, <4>2
    <3>3. slots[n - 1].key < slots[n].key
      BY <3>1, <1>1 DEF Sorted, Fits
    <3>4. p.slots[n - 1].key <= k
      BY <3>1, <3>2, <3>3, <1>1, <1>6
    <3>5. n - 1 <= c
      BY <2>2, <3>1, <3>4
    <3> QED
      BY <2>1, <2>2, <3>5
  <2> QED
    BY <2>3, <2>4
<1>15. PICK t : t = d.slots /\ t = InsertAt(p.slots, n, e)
  <2>1. (n - 1) + 1 = n
    BY <1>1
  <2> QED
    BY <2>1, <1>11, <1>14
<1>16. /\ t \in Seq(Rec) /\ Len(t) = n
       /\ \A i \in 1 .. n - 1 : t[i] = p.slots[i]
       /\ t[n] = e
  <2>1. n \in 1 .. Len(p.slots) + 1 /\ Len(p.slots) + 1 = n
    BY <1>1, <1>3
  <2>2. /\ t \in Seq(Rec) /\ Len(t) = Len(p.slots) + 1
        /\ \A i \in 1 .. n - 1 : t[i] = p.slots[i]
        /\ t[n] = e
    BY <2>1, <1>9, <1>13, <1>15, InsertAtElements
  <2> QED
    BY <2>1, <2>2
<1>17. \A i \in 1 .. n : t[i] = [key |-> slots[i].key, size |-> slots[i].size, at |-> PageSize - g[i]]
  <2> TAKE i \in 1 .. n
  <2>1. CASE i = n
    BY <2>1, <1>5, <1>6, <1>8, <1>16
  <2>2. CASE i # n
    <3>1. i \in 1 .. n - 1
      BY <2>2, <1>1
    <3> QED
      BY <3>1, <1>3, <1>16
  <2> QED
    BY <2>1, <2>2
<1>18. t = [i \in 1 .. n |-> [key |-> slots[i].key, size |-> slots[i].size, at |-> PageSize - g[i]]]
  <2>1. t \in [1 .. n -> Rec]
    BY <1>16, LenProperties
  <2> QED
    BY <2>1, <1>17
<1> QED
  BY <1>2, <1>10, <1>11, <1>12, <1>15, <1>18 DEF Packed

\* Rebuilding slots that fit on a page packs them, in order, at its end.
LEMMA RebuiltIsPacked ==
    ASSUME NEW type \in {"Leaf", "Node"}, NEW slots, NEW g, Fits(slots, g)
    PROVE  Rebuilt(type, slots) = Packed(type, slots, g, Len(slots))
<1>1. PICK m \in Nat : m = Len(slots)
  BY SlotFacts DEF Fits
<1> DEFINE P(n) == Packed(type, slots, g, n)
<1>2. P(0) = Fresh(type)
  <2>1. P(0).slots = <<>>
    <3>1. [i \in 1 .. 0 |-> [key |-> slots[i].key, size |-> slots[i].size, at |-> PageSize - g[i]]] = <<>>
      OBVIOUS
    <3> QED
      BY <3>1 DEF Packed
  <2>2. g[0] = 0 /\ Slot * 0 = 0
    BY WordInt DEF Fits, Sums
  <2>3. PageSize - Header - g[0] - Slot * 0 = PageSize - Header /\ PageSize - g[0] = PageSize
    BY <2>2, WordInt
  <2> QED
    BY <2>1, <2>3 DEF Packed, Fresh
<1>3. \A n \in 1 .. m : Placed(P(n - 1), slots[n]) = P(n)
  BY <1>1, PackedStep
<1> HIDE DEF P
<1>4. Builds(type, slots, [n \in 0 .. m |-> P(n)])
  <2> DEFINE b == [n \in 0 .. m |-> P(n)]
  <2>1. ASSUME NEW n \in 0 .. m
        PROVE  P(n) = IF n = 0 THEN Fresh(type) ELSE Placed(b[n - 1], slots[n])
    <3>1. CASE n = 0
      BY <3>1, <1>2
    <3>2. CASE n # 0
      <4>1. n \in 1 .. m /\ n - 1 \in 0 .. m
        BY <3>2
      <4>2. b[n - 1] = P(n - 1)
        BY <4>1
      <4> QED
        BY <3>2, <4>1, <4>2, <1>3
    <3> QED
      BY <3>1, <3>2
  <2>2. b = [n \in 0 .. m |-> IF n = 0 THEN Fresh(type) ELSE Placed(b[n - 1], slots[n])]
    BY <2>1
  <2> QED
    BY <2>2, <1>1 DEF Builds
<1>5. PICK b : Builds(type, slots, b) /\ Rebuilt(type, slots) = b[m]
  <2>1. \E b : Builds(type, slots, b)
    BY <1>4
  <2>2. \E b : Builds(type, slots, b) /\ Rebuilt(type, slots) = b[Len(slots)]
    BY <2>1, RebuiltBuilds
  <2> QED
    BY <2>2, <1>1
<1>6. \A n \in 0 .. m : b[n] = IF n = 0 THEN Fresh(type) ELSE Placed(b[n - 1], slots[n])
  BY <1>1, <1>5 DEF Builds
<1> DEFINE I == {n \in 0 .. m : b[n] # P(n)}
<1>7. I = {}
  <2> SUFFICES ASSUME I # {} PROVE FALSE
    OBVIOUS
  <2>1. PICK x \in I : \A y \in I : x <= y
    <3>1. I \in SUBSET Nat
      OBVIOUS
    <3> HIDE DEF I
    <3> QED
      BY <3>1, Least
  <2>2. x \in 0 .. m /\ b[x] # P(x) /\ x # 0
    BY <2>1, <1>2, <1>6
  <2>3. x - 1 \in 0 .. m /\ x \in 1 .. m /\ ~(x <= x - 1)
    BY <2>2
  <2>4. b[x - 1] = P(x - 1)
    BY <2>1, <2>3
  <2> QED
    BY <2>2, <2>3, <2>4, <1>3, <1>6
<1> QED
  <2>1. m \in 0 .. m /\ b[m] = P(m)
    BY <1>7
  <2> QED
    BY <2>1, <1>1, <1>5 DEF P

LEMMA RebuiltSound ==
    ASSUME NEW type \in {"Leaf", "Node"}, NEW slots, NEW g, Fits(slots, g),
           NEW r, r = Rebuilt(type, slots)
    PROVE  /\ Sound(r) /\ r.type = type /\ Len(r.slots) = Len(slots)
           /\ r.ptr = PageSize - g[Len(slots)]
           /\ r.cont = PageSize - Header - g[Len(slots)] - Slot * Len(slots) /\ r.total = r.cont
           /\ \A i \in 1 .. Len(slots) : r.slots[i].key = slots[i].key
           /\ KeysOf(r.slots) = KeysOf(slots)
<1>1. PICK n \in Nat : /\ n = Len(slots) /\ DOMAIN slots = 1 .. n
                       /\ \A i \in 1 .. n : slots[i].size \in Nat
  BY SlotFacts DEF Fits
<1>2. r = Packed(type, slots, g, n)
  BY <1>1, RebuiltIsPacked
<1>3. /\ r \in PageRec /\ r.type = type /\ r.ptr = PageSize - g[n]
      /\ r.cont = PageSize - Header - g[n] - Slot * n /\ r.total = r.cont
      /\ Len(r.slots) = n /\ Sorted(r.slots)
      /\ \A i \in 1 .. n : r.slots[i] = [key |-> slots[i].key, size |-> slots[i].size,
                                         at |-> PageSize - g[i]]
  <2>1. n \in 0 .. Len(slots)
    BY <1>1
  <2> QED
    BY <2>1, <1>2, PackedPage
<1>4. PICK t : t = r.slots /\ t \in Slots /\ Len(t) = n /\ DOMAIN t = 1 .. n
  BY <1>3, SlotFacts DEF PageRec
<1>5. \A i \in 1 .. n : t[i].key = slots[i].key /\ t[i].size = slots[i].size /\ t[i].at = PageSize - g[i]
  <2> TAKE i \in 1 .. n
  <2>1. t[i] = [key |-> slots[i].key, size |-> slots[i].size, at |-> PageSize - g[i]]
    BY <1>3, <1>4
  <2> QED
    BY <2>1
<1>6. /\ g \in [0 .. n -> Nat] /\ \A i \in 1 .. n : g[i] = g[i - 1] + slots[i].size
      /\ Sums(g, slots)
  BY <1>1 DEF Fits, Sums
<1>7. \A i, j \in 0 .. n : i <= j => g[i] <= g[j]
  <2>1. Len(slots) \in Nat /\ \A i \in 1 .. Len(slots) : slots[i].size \in Nat
    BY <1>1
  <2>2. \A i, j \in 0 .. Len(slots) : i <= j => g[i] <= g[j]
    <3> TAKE i, j \in 0 .. Len(slots)
    <3> QED
      BY <2>1, <1>6, SumsGrow
  <2> QED
    BY <2>2, <1>1
<1>8. \A i \in 1 .. n : t[i].at + t[i].size = PageSize - g[i - 1]
  <2> TAKE i \in 1 .. n
  <2>1. PICK a, b, z \in Nat : a = g[i - 1] /\ b = g[i] /\ z = slots[i].size /\ b = a + z
    <3>1. i - 1 \in 0 .. n /\ i \in 0 .. n
      OBVIOUS
    <3> QED
      BY <3>1, <1>1, <1>6
  <2>2. (PageSize - b) + z = PageSize - a
    BY <2>1, WordInt
  <2> QED
    BY <2>1, <2>2, <1>5
<1>9. Laid(r)
  <2>1. \A i \in 1 .. n : r.ptr <= t[i].at /\ t[i].at + t[i].size <= PageSize
    <3> TAKE i \in 1 .. n
    <3>1. i \in 0 .. n /\ n \in 0 .. n /\ i <= n /\ i - 1 \in 0 .. n
      OBVIOUS
    <3>2. g[i] \in Nat /\ g[n] \in Nat /\ g[i] <= g[n] /\ g[i - 1] \in Nat
      BY <3>1, <1>6, <1>7
    <3>3. r.ptr <= t[i].at
      BY <3>2, <1>3, <1>5, WordInt
    <3>4. t[i].at + t[i].size <= PageSize
      BY <3>2, <1>8, WordInt
    <3> QED
      BY <3>3, <3>4
  <2>2. ASSUME NEW i \in 1 .. n, NEW j \in 1 .. n, i < j
        PROVE  t[j].at + t[j].size <= t[i].at
    <3>1. i \in 0 .. n /\ j - 1 \in 0 .. n /\ i <= j - 1
      BY <2>2
    <3>2. PICK a, b \in Nat : a = g[i] /\ b = g[j - 1] /\ a <= b
      BY <3>1, <1>6, <1>7
    <3>3. t[j].at + t[j].size = PageSize - b /\ t[i].at = PageSize - a
      BY <3>2, <1>5, <1>8
    <3> QED
      BY <3>2, <3>3, WordInt
  <2>3. \A i, j \in 1 .. n : i # j => \/ t[i].at + t[i].size <= t[j].at
                                      \/ t[j].at + t[j].size <= t[i].at
    <3> SUFFICES ASSUME NEW i \in 1 .. n, NEW j \in 1 .. n, i # j
                 PROVE  \/ t[i].at + t[i].size <= t[j].at
                        \/ t[j].at + t[j].size <= t[i].at
      OBVIOUS
    <3>1. i < j \/ j < i
      OBVIOUS
    <3> QED
      BY <3>1, <2>2
  <2> QED
    BY <2>1, <2>3, <1>4 DEF Laid
<1>10. HasRoom(r)
  <2>1. Sums(g, t)
    BY <1>1, <1>4, <1>5, <1>6 DEF Sums
  <2>2. g[n] <= PageSize - r.ptr
    <3>1. g[n] \in Nat
      BY <1>6
    <3> QED
      BY <3>1, <1>3, WordInt
  <2> QED
    BY <2>1, <2>2, <1>4 DEF HasRoom
<1>11. KeysOf(r.slots) = KeysOf(slots)
  BY <1>1, <1>4, <1>5 DEF KeysOf
<1> QED
  BY <1>1, <1>3, <1>4, <1>5, <1>9, <1>10, <1>11 DEF Sound

\* The header says what room there is.
Exact(p) == p.cont = p.total /\ p.cont = p.ptr - SlotEnd(p)

LEMMA RebuiltExact ==
    ASSUME NEW type \in {"Leaf", "Node"}, NEW slots, NEW g, Fits(slots, g),
           NEW r, r = Rebuilt(type, slots)
    PROVE  Exact(r) /\ ~Collided(r)
<1>1. /\ Len(r.slots) = Len(slots) /\ r.ptr = PageSize - g[Len(slots)]
      /\ r.cont = PageSize - Header - g[Len(slots)] - Slot * Len(slots) /\ r.total = r.cont
  BY RebuiltSound
<1>2. PICK n \in Nat : n = Len(slots)
  BY SlotFacts DEF Fits
<1>3. PICK a, v \in Nat : a = g[n] /\ v = Slot * n /\ Header + v + a <= PageSize
  <2>1. n \in 0 .. Len(slots)
    BY <1>2
  <2> QED
    BY <2>1, PackedSpace
<1>4. r.ptr = PageSize - a /\ SlotEnd(r) = Header + v /\ r.cont = PageSize - Header - a - v
  BY <1>1, <1>2, <1>3 DEF SlotEnd
<1>5. Exact(r)
  <2>1. PageSize - Header - a - v = (PageSize - a) - (Header + v)
    BY <1>3, WordInt
  <2> QED
    BY <1>1, <1>4, <2>1 DEF Exact
<1>6. ~Collided(r)
  <2>1. ~(PageSize - a < Header + v)
    BY <1>3, WordInt
  <2> QED
    BY <1>4, <2>1 DEF Collided
<1> QED
  BY <1>5, <1>6

\* What is on a page fits on one, and so do its parts.
LEMMA PageFits ==
    ASSUME NEW p, Sound(p), ~Collided(p)
    PROVE  \E g : Fits(p.slots, g)
<1>1. PICK g : Sums(g, p.slots) /\ g[Len(p.slots)] <= PageSize - p.ptr
  BY DEF Sound, HasRoom
<1>2. PICK n \in Nat : n = Len(p.slots)
  BY SlotFacts DEF Sound, PageRec
<1>3. PICK a, v \in Nat : a = g[n] /\ v = Slot * n
  BY <1>1, <1>2, WordInt DEF Sums
<1>4. PICK q \in Nat : q = p.ptr /\ q <= PageSize
  BY WordInt DEF Sound, PageRec
<1>5. Header + v <= q
  BY <1>2, <1>3, <1>4, WordInt DEF Collided, SlotEnd
<1>6. Header + v + a <= PageSize
  <2>1. a <= PageSize - q
    BY <1>1, <1>2, <1>3, <1>4
  <2> QED
    BY <2>1, <1>5, WordInt
<1> QED
  BY <1>1, <1>2, <1>3, <1>6 DEF Fits, Sound, PageRec

FitsWith(slots, size) == \E g : Fits(slots, g) /\ g[Len(slots)] = size

\* slots in two parts, the first of c slots
Cut(a, b, slots, c) == a = SubSeq(slots, 1, c) /\ b = SubSeq(slots, c + 1, Len(slots))

LEMMA PartsFit ==
    ASSUME NEW slots, NEW g, Fits(slots, g), NEW c \in 0 .. Len(slots),
           NEW a, NEW b, Cut(a, b, slots, c)
    PROVE  /\ Len(a) = c /\ Len(b) = Len(slots) - c
           /\ FitsWith(a, g[c]) /\ FitsWith(b, g[Len(slots)] - g[c])
<1>1. PICK n \in Nat : /\ n = Len(slots) /\ c \in 0 .. n
                       /\ \A i \in 1 .. n : slots[i].size \in Nat
  BY SlotFacts DEF Fits
<1>2. slots \in Slots /\ Sorted(slots) /\ Sums(g, slots)
  BY DEF Fits
<1>3. /\ a \in Slots /\ Sorted(a) /\ Part(a, slots, 0, c) /\ Len(a) = c
      /\ b \in Slots /\ Sorted(b) /\ Part(b, slots, c, n - c) /\ Len(b) = n - c
  <2>1. /\ a \in Slots /\ Sorted(a) /\ Part(a, slots, 0, c)
        /\ b \in Slots /\ Sorted(b) /\ Part(b, slots, c, Len(slots) - c)
    <3>1. a = SubSeq(slots, 1, c) /\ b = SubSeq(slots, c + 1, Len(slots))
      BY DEF Cut
    <3> QED
      BY <3>1, <1>2, CutSorted
  <2> QED
    BY <2>1, <1>1 DEF Part
<1>4. (\E h : Sums(h, a) /\ h[c] = g[c]) /\ \E h : Sums(h, b) /\ h[n - c] = g[n] - g[c]
  <2>1. /\ Len(slots) = n /\ Sized(slots)
        /\ SameSizes(a, slots, 0, c) /\ SameSizes(b, slots, c, n - c)
    BY <1>1, <1>3 DEF Part, SameSizes, Sized
  <2>2. c \in 0 .. n /\ Sums(g, slots)
    BY <1>1, <1>2
  <2>3. \E h : Sums(h, a) /\ h[c] = g[c]
    BY <2>1, <2>2, SumsCut
  <2>4. \E h : Sums(h, b) /\ h[n - c] = g[n] - g[c]
    BY <2>1, <2>2, SumsCut
  <2> QED
    BY <2>3, <2>4
<1>5. PICK x, u \in Nat : x = g[c] /\ u = Slot * c /\ Header + u + x <= PageSize
  BY PackedSpace
<1>6. PICK y, v \in Nat : y = g[n] /\ v = Slot * n /\ Header + v + y <= PageSize
  <2>1. n \in 0 .. Len(slots)
    BY <1>1
  <2> QED
    BY <2>1, PackedSpace
<1>7. PICK w \in Nat : w = Slot * (n - c) /\ v = u + w
  <2>1. PICK k \in Nat : k = n - c /\ n = c + k
    <3>1. n - c \in Nat /\ n = c + (n - c)
      BY <1>1
    <3> QED
      BY <3>1
  <2>2. c \in Nat /\ Slot * (c + k) = Slot * c + Slot * k /\ Slot * k \in Nat
    BY <2>1, <1>1, WordInt
  <2> QED
    BY <2>1, <2>2, <1>5, <1>6
<1>8. Header + w + (y - x) <= PageSize
  <2>1. v = u + w /\ Header + v + y <= PageSize
    BY <1>6, <1>7
  <2> QED
    BY <2>1, WordInt
<1>9. \E h : Fits(a, h) /\ h[c] = g[c]
  <2>1. PICK h : Sums(h, a) /\ h[c] = g[c]
    BY <1>4
  <2>2. Header + Slot * Len(a) + h[Len(a)] <= PageSize
    BY <2>1, <1>3, <1>5
  <2> QED
    BY <2>1, <2>2, <1>3 DEF Fits
<1>10. \E h : Fits(b, h) /\ h[n - c] = g[n] - g[c]
  <2>1. PICK h : Sums(h, b) /\ h[n - c] = g[n] - g[c]
    BY <1>4
  <2>2. Header + Slot * Len(b) + h[Len(b)] <= PageSize
    BY <2>1, <1>1, <1>3, <1>5, <1>6, <1>7, <1>8
  <2> QED
    BY <2>1, <2>2, <1>3 DEF Fits
<1> QED
  BY <1>1, <1>3, <1>9, <1>10 DEF FitsWith

-----------------------------------------------------------------------------
(* The operations.                                                         *)

\* The contiguous space is there on a page that check_space accepts.
There(p) == p.cont <= p.ptr - SlotEnd(p)

LEMMA SoundFacts ==
    ASSUME NEW p, Sound(p)
    PROVE  /\ p \in PageRec /\ p.type \in {"Leaf", "Node"} /\ p.slots \in Slots
           /\ p.cont \in Nat /\ p.cont < Word /\ p.total \in Nat /\ p.ptr \in Nat /\ p.ptr <= PageSize
           /\ Len(p.slots) \in Nat /\ Slot * Len(p.slots) \in Nat
           /\ SlotEnd(p) = Header + Slot * Len(p.slots) /\ SlotEnd(p) \in Nat
<1>1. p \in PageRec /\ p.slots \in Slots
  BY DEF Sound, PageRec
<1>2. Len(p.slots) \in Nat
  BY <1>1, SlotFacts
<1>3. Slot * Len(p.slots) \in Nat
  BY <1>2, WordInt
<1> QED
  BY <1>1, <1>2, <1>3, WordInt DEF PageRec, SlotEnd

LEMMA TupleFacts ==
    ASSUME NEW tuple \in Tuple
    PROVE  tuple.key \in Key /\ tuple.key \in Nat /\ tuple.size \in Sizes /\ tuple.size \in Nat /\ tuple.size > 0
<1>1. tuple.key \in Key /\ tuple.size \in Sizes
  BY DEF Tuple
<1>2. (\A x \in Key : x \in Nat) /\ \A x \in Sizes : x \in Nat /\ x > 0
  BY PageAssumption
<1> QED
  BY <1>1, <1>2

\* With one slot more the slot array ends one slot later.
LEMMA SlotMore ==
    ASSUME NEW n \in Nat
    PROVE  Slot * (n + 1) = Slot * n + Slot
  BY WordInt

\* An insertion after which slots and tuples do not overlap keeps the header true.
LEMMA PlacedThere ==
    ASSUME NEW p, Sound(p), There(p), NEW tuple \in Tuple, tuple.key \notin KeysOf(p.slots),
           tuple.size <= p.ptr, NEW d, d = Placed(p, tuple)
    PROVE  /\ Sound(d) /\ d.type = p.type /\ KeysOf(d.slots) = KeysOf(p.slots) \cup {tuple.key}
           /\ p.cont >= tuple.size + Slot => /\ There(d) /\ ~Collided(d)
                                             /\ Exact(p) => Exact(d)
           /\ Exact(p) /\ ~Collided(d) => There(d)
<1>1. PICK z \in Nat : z = tuple.size /\ z > 0 /\ z \in Sizes /\ tuple.key \in Key
  BY TupleFacts
<1>2. /\ Sound(d) /\ d.type = p.type /\ Len(d.slots) = Len(p.slots) + 1
      /\ KeysOf(d.slots) = KeysOf(p.slots) \cup {tuple.key}
      /\ d.ptr = p.ptr - z
      /\ d.cont = U32(p.cont - z - Slot) /\ d.total = U32(p.total - z - Slot)
  BY <1>1, PlacedSound
<1>3. PICK e \in Nat : e = SlotEnd(p) /\ SlotEnd(d) = e + Slot
  <2>1. PICK n \in Nat : /\ n = Len(p.slots) /\ n + 1 = Len(d.slots)
                         /\ SlotEnd(p) = Header + Slot * n /\ Slot * n \in Nat
                         /\ SlotEnd(d) = Header + Slot * (n + 1)
    BY <1>2, SoundFacts
  <2>2. Slot * (n + 1) = Slot * n + Slot
    BY SlotMore
  <2> QED
    BY <2>1, <2>2, WordInt
<1>4. PICK a, q, b \in Nat : a = p.cont /\ q = p.ptr /\ b = p.total /\ a < Word /\ a <= q - e
  BY <1>3, SoundFacts DEF There
<1>5. d.ptr = q - z /\ d.cont = U32(a - z - Slot) /\ d.total = U32(b - z - Slot)
  BY <1>2, <1>4
<1>6. a >= z + Slot => U32(a - z - Slot) = a - z - Slot
  <2>1. HAVE a >= z + Slot
  <2>2. a - z - Slot \in 0 .. (Word - 1) /\ a - z - Slot \in Int
    BY <2>1, <1>4, WordInt
  <2> QED
    BY <2>2, U32Bounds
<1>7. ASSUME a >= z + Slot
      PROVE  There(d) /\ ~Collided(d) /\ (Exact(p) => Exact(d))
  <2>1. d.cont = a - z - Slot
    BY <1>5, <1>6, <1>7
  <2>2. a - z - Slot <= (q - z) - (e + Slot) /\ ~(q - z < e + Slot)
    BY <1>4, <1>7, WordInt
  <2>3. There(d) /\ ~Collided(d)
    BY <2>1, <2>2, <1>3, <1>5 DEF There, Collided
  <2>4. ASSUME Exact(p) PROVE Exact(d)
    <3>1. a = b /\ a = q - e
      BY <2>4, <1>3, <1>4 DEF Exact
    <3>2. a - z - Slot = (q - z) - (e + Slot)
      BY <3>1, WordInt
    <3> QED
      BY <2>1, <3>1, <3>2, <1>3, <1>5 DEF Exact
  <2> QED
    BY <2>3, <2>4
<1>8. ASSUME Exact(p), ~Collided(d)
      PROVE  There(d)
  <2>1. a = q - e
    BY <1>3, <1>4, <1>8 DEF Exact
  <2>2. ~(q - z < e + Slot)
    BY <1>3, <1>5, <1>8 DEF Collided
  <2>3. a >= z + Slot
    BY <2>1, <2>2, WordInt
  <2> QED
    BY <2>3, <1>7
<1> QED
  BY <1>1, <1>2, <1>4, <1>7, <1>8

LEMMA Verdicts ==
    ASSUME NEW p, NEW tuple
    PROVE  /\ Verdict(p, tuple) \in {"Ok", "NeedsCollapse", "OutOfSpace"}
           /\ Verdict(p, tuple) = "Ok" <=> p.cont >= tuple.size + Slot
           /\ Exact(p) => Verdict(p, tuple) # "NeedsCollapse"
  BY DEF Verdict, CheckSpace, Exact

LEMMA CollapseSound ==
    ASSUME NEW p, Sound(p), ~Collided(p), NEW r, r = Collapse(p)
    PROVE  /\ Sound(r) /\ Exact(r) /\ ~Collided(r) /\ There(r) /\ r.type = p.type
           /\ KeysOf(r.slots) = KeysOf(p.slots)
<1>1. PICK g : Fits(p.slots, g)
  BY PageFits
<1>2. PICK n \in Nat : n = Len(p.slots) /\ n \in 0 .. n /\ DOMAIN p.slots = 1 .. n
  BY SlotFacts DEF Sound, PageRec
<1>3. PICK a : a = SubSeq(p.slots, 1, n)
  OBVIOUS
<1>4. r = Rebuilt(p.type, a)
  BY <1>2, <1>3 DEF Collapse, KeepLeft
<1>5. PICK h : Fits(a, h)
  <2>1. PICK b : b = SubSeq(p.slots, n + 1, Len(p.slots))
    OBVIOUS
  <2>2. n \in 0 .. Len(p.slots)
    BY <1>2
  <2> QED
    <3>0. Cut(a, b, p.slots, n)
      BY <2>1, <1>3 DEF Cut
    <3>1. FitsWith(a, g[n])
      BY <3>0, <2>2, <1>1, PartsFit
    <3> QED
      BY <3>1 DEF FitsWith
<1>6. p.type \in {"Leaf", "Node"}
  BY SoundFacts
<1>7. Sound(r) /\ r.type = p.type /\ KeysOf(r.slots) = KeysOf(a) /\ Exact(r) /\ ~Collided(r)
  BY <1>4, <1>5, <1>6, RebuiltSound, RebuiltExact
<1>8. There(r)
  BY <1>7, SoundFacts DEF Exact, There
<1>9. KeysOf(a) = KeysOf(p.slots)
  <2>1. Part(a, p.slots, 0, n) /\ a \in Slots
    BY <1>1, <1>2, <1>3, CutSorted DEF Fits
  <2>2. DOMAIN a = 1 .. n /\ \A i \in 1 .. n : a[i] = p.slots[i]
    BY <2>1, SlotFacts DEF Part
  <2> QED
    BY <2>2, <1>2 DEF KeysOf
<1> QED
  BY <1>7, <1>8, <1>9

\* Where a full page is cut.
LEMMA SplitIdxBounds ==
    ASSUME NEW slots \in Slots, Sorted(slots), NEW tuple \in Tuple
    PROVE  SplitIdx(slots, tuple) \in 0 .. Len(slots)
<1>1. PICK n \in Nat : n = Len(slots)
  BY SlotFacts
<1>2. PICK c : c = PartitionUpper(slots, tuple.key)
  OBVIOUS
<1>3. c \in 0 .. n
  BY <1>1, <1>2, TupleFacts, PartitionSplits
<1>4. PICK mid : mid = (n + 1) \div 2
  OBVIOUS
<1>5. mid \in 0 .. n
  BY <1>4
<1> QED
  BY <1>1, <1>2, <1>3, <1>4, <1>5 DEF SplitIdx

\* The keys of n slots from the first after c on.
KeysFrom(slots, c, n) == {slots[c + i].key : i \in 1 .. n}

\* What split_half makes of a page: both halves are rebuilt pages.
IsHalf(r, p, c, n) ==
    /\ Sound(r) /\ Exact(r) /\ ~Collided(r) /\ There(r) /\ r.type = p.type
    /\ Len(r.slots) = n /\ KeysOf(r.slots) = KeysFrom(p.slots, c, n)

LEMMA RebuiltPart ==
    ASSUME NEW p, Sound(p), NEW c \in Nat, NEW n \in Nat, NEW a, a \in Slots, Part(a, p.slots, c, n),
           NEW g, Fits(a, g), NEW r, r = Rebuilt(p.type, a)
    PROVE  IsHalf(r, p, c, n) /\ r.cont = PageSize - Header - g[n] - Slot * n
<1>1. Len(a) = n /\ DOMAIN a = 1 .. n /\ \A i \in 1 .. n : a[i] = p.slots[c + i]
  BY SlotFacts DEF Part
<1>2. p.type \in {"Leaf", "Node"}
  BY SoundFacts
<1>3. /\ Sound(r) /\ r.type = p.type /\ Len(r.slots) = Len(a) /\ KeysOf(r.slots) = KeysOf(a)
      /\ r.cont = PageSize - Header - g[Len(a)] - Slot * Len(a)
      /\ Exact(r) /\ ~Collided(r)
  BY <1>2, RebuiltSound, RebuiltExact
<1>4. There(r)
  BY <1>3, SoundFacts DEF Exact, There
<1>5. KeysOf(a) = KeysFrom(p.slots, c, n)
  BY <1>1 DEF KeysOf, KeysFrom
<1> QED
  BY <1>1, <1>3, <1>4, <1>5 DEF IsHalf

LEMMA HalvesAre ==
    ASSUME NEW p, Sound(p), ~Collided(p), NEW tuple \in Tuple, NEW h, h = Halves(p, tuple)
    PROVE  \E n, c, g :
              /\ n \in Nat /\ c \in Nat
              /\ n = Len(p.slots) /\ c = SplitIdx(p.slots, tuple) /\ c \in 0 .. n
              /\ Fits(p.slots, g)
              /\ IsHalf(h.left, p, 0, c) /\ IsHalf(h.right, p, c, n - c)
              /\ h.left.cont = PageSize - Header - g[c] - Slot * c
              /\ h.right.cont = PageSize - Header - (g[n] - g[c]) - Slot * (n - c)
<1>1. PICK g : Fits(p.slots, g)
  BY PageFits
<1>2. PICK s : s = p.slots /\ s \in Slots /\ Sorted(s) /\ Fits(s, g)
  BY <1>1, SoundFacts DEF Sound
<1>3. PICK n \in Nat : n = Len(s)
  BY <1>2, SlotFacts
<1>4. PICK c \in Nat : c = SplitIdx(s, tuple) /\ c \in 0 .. n
  BY <1>2, <1>3, SplitIdxBounds
<1>5. PICK a : a = SubSeq(s, 1, c)
  OBVIOUS
<1>5b. PICK b : b = SubSeq(s, c + 1, Len(s))
  OBVIOUS
<1>6. h.left = Rebuilt(p.type, a) /\ h.right = Rebuilt(p.type, b)
  BY <1>2, <1>4, <1>5, <1>5b DEF Halves, KeepLeft
<1>7. c \in 0 .. Len(s)
  BY <1>3, <1>4
<1>8. /\ a \in Slots /\ Part(a, s, 0, c)
      /\ b \in Slots /\ Part(b, s, c, Len(s) - c)
  BY <1>2, <1>5, <1>5b, <1>7, CutSorted
<1>9. /\ Len(a) = c /\ Len(b) = Len(s) - c
      /\ FitsWith(a, g[c]) /\ FitsWith(b, g[Len(s)] - g[c])
  <2>1. Fits(s, g) /\ Cut(a, b, s, c)
    BY <1>2, <1>5, <1>5b DEF Cut
  <2>2. Len(a) = c /\ FitsWith(a, g[c])
    BY <2>1, <1>7, PartsFit
  <2>3. Len(b) = Len(s) - c /\ FitsWith(b, g[Len(s)] - g[c])
    BY <2>1, <1>7, PartsFit
  <2> QED
    BY <2>2, <2>3
<1>10. IsHalf(h.left, p, 0, c) /\ h.left.cont = PageSize - Header - g[c] - Slot * c
  <2>1. PICK f : Fits(a, f) /\ f[c] = g[c]
    BY <1>9 DEF FitsWith
  <2>2. 0 \in Nat /\ Part(a, p.slots, 0, c)
    BY <1>2, <1>8
  <2>3. IsHalf(h.left, p, 0, c) /\ h.left.cont = PageSize - Header - f[c] - Slot * c
    BY <2>1, <2>2, <1>6, <1>8, RebuiltPart
  <2> QED
    BY <2>1, <2>3
<1>11. IsHalf(h.right, p, c, n - c) /\ h.right.cont = PageSize - Header - (g[n] - g[c]) - Slot * (n - c)
  <2>1. PICK f : Fits(b, f) /\ f[n - c] = g[n] - g[c]
    BY <1>3, <1>9 DEF FitsWith
  <2>2. PICK m \in Nat : m = n - c
    BY <1>4
  <2>3. Part(b, p.slots, c, m)
    BY <2>2, <1>2, <1>3, <1>8
  <2>4. IsHalf(h.right, p, c, m) /\ h.right.cont = PageSize - Header - f[m] - Slot * m
    BY <2>1, <2>3, <1>6, <1>8, RebuiltPart
  <2> QED
    BY <2>1, <2>2, <2>4
<1> QED
  BY <1>1, <1>2, <1>3, <1>4, <1>10, <1>11

-----------------------------------------------------------------------------
(* The invariant: the tuples of a page lie apart and have room for their    *)
(* bytes; the contiguous space of the header is there as long as the page   *)
(* is whole; and both numbers are exact until a tuple is deleted.           *)

PageInv ==
    /\ TypeOK
    /\ Sound(page)
    /\ ~Collided(page) => There(page)
    /\ ~fragmented => Exact(page)

LEMMA TypeIsPageRec == TypeOK <=> page \in PageRec /\ outcome \in Outcome /\ fragmented \in BOOLEAN
  BY DEF TypeOK, PageRec

LEMMA FreshInv == Init => PageInv
<1> SUFFICES ASSUME Init PROVE PageInv
  OBVIOUS
<1>1. PICK type \in {"Leaf", "Node"} : page = Fresh(type)
  BY DEF Init
<1>2. /\ page = [type |-> type, slots |-> <<>>, cont |-> PageSize - Header,
                 total |-> PageSize - Header, ptr |-> PageSize]
      /\ outcome = "Ok" /\ fragmented = FALSE
  BY <1>1 DEF Init, Fresh
<1>3. PICK s : s = <<>> /\ page.slots = s
  BY <1>2
<1>4. s \in Slots /\ Len(s) = 0 /\ DOMAIN s = {} /\ \A i \in 1 .. 0 : FALSE
  <2>1. <<>> \in Slots /\ Len(<<>>) = 0
    BY EmptySeq DEF Slots
  <2>2. \A i \in 1 .. 0 : FALSE
    OBVIOUS
  <2>3. DOMAIN s = 1 .. 0
    BY <2>1, <1>3, LenProperties DEF Slots
  <2> QED
    BY <2>1, <2>2, <2>3, <1>3
<1>5. page \in PageRec
  <2>1. PageSize - Header \in 0 .. (Word - 1) /\ PageSize \in 0 .. PageSize
    BY WordInt
  <2> QED
    BY <2>1, <1>2, <1>3, <1>4 DEF PageRec
<1>6. Sorted(page.slots) /\ Laid(page)
  BY <1>3, <1>4 DEF Sorted, Laid
<1>7. HasRoom(page)
  <2>1. PICK g : g = [i \in 0 .. 0 |-> 0]
    OBVIOUS
  <2>2. g \in [0 .. 0 -> Nat] /\ g[0] = 0
    BY <2>1
  <2>3. Sums(g, s)
    BY <2>2, <1>4 DEF Sums
  <2>4. page.ptr = PageSize /\ 0 <= PageSize - PageSize
    BY <1>2, WordInt
  <2> QED
    BY <2>2, <2>3, <2>4, <1>3, <1>4 DEF HasRoom
<1>8. SlotEnd(page) = Header
  BY <1>3, <1>4, WordInt DEF SlotEnd
<1>9. Exact(page) /\ There(page)
  BY <1>2, <1>8, WordInt DEF Exact, There
<1>10. TypeOK
  BY <1>2, <1>5, TypeIsPageRec DEF Outcome
<1> QED
  BY <1>5, <1>6, <1>7, <1>9, <1>10 DEF PageInv, Sound

LEMMA InsertInv ==
    ASSUME PageInv, NEW tuple \in Tuple, Insert(tuple)
    PROVE  PageInv'
<1>1. /\ Sound(page) /\ ~Collided(page) /\ There(page) /\ fragmented' = fragmented
      /\ fragmented \in BOOLEAN /\ (~fragmented => Exact(page)) /\ outcome \in Outcome
  BY TypeIsPageRec DEF PageInv, Insert, Usable
<1>2. outcome' \in Outcome
  BY DEF Insert, Returns, Outcome
<1>3. SUFFICES /\ Sound(page') /\ (~Collided(page') => There(page'))
               /\ (~fragmented => Exact(page'))
  <2>1. ASSUME Sound(page') PROVE TypeOK'
    <3>1. page' \in PageRec
      BY <2>1 DEF Sound
    <3> QED
      BY <3>1, <1>1, <1>2 DEF TypeOK, PageRec
  <2> QED
    BY <2>1, <1>1 DEF PageInv, Sound, Collided, There, Exact, Sorted, Laid, HasRoom, SlotEnd
<1>4. CASE page' = page
  BY <1>1, <1>4
<1>5. CASE /\ tuple.key \notin KeysOf(page.slots) /\ Verdict(page, tuple) # "OutOfSpace"
           /\ \/ page' = Ready(page, tuple) /\ Ready(page, tuple).ptr < tuple.size
              \/ page' = Placed(Ready(page, tuple), tuple) /\ ~(Ready(page, tuple).ptr < tuple.size)
  <2>1. PICK p : p = page
    OBVIOUS
  <2>2. PICK r : r = Ready(p, tuple)
    OBVIOUS
  <2>3. PICK d : d = page'
    OBVIOUS
  <2>4. PICK z \in Nat : z = tuple.size /\ tuple.key \in Key
    BY TupleFacts
  <2>5. /\ Sound(p) /\ ~Collided(p) /\ There(p) /\ (~fragmented => Exact(p))
        /\ tuple.key \notin KeysOf(p.slots) /\ Verdict(p, tuple) # "OutOfSpace"
    BY <1>1, <1>5, <2>1
  <2>6. \/ d = r /\ r.ptr < tuple.size
        \/ d = Placed(r, tuple) /\ ~(r.ptr < tuple.size)
    <3>1. r = Ready(page, tuple)
      BY <2>1, <2>2
    <3> QED
      BY <3>1, <1>5, <2>3
  <2>7. CASE Verdict(p, tuple) = "Ok"
    <3>1. r = p
      BY <2>2, <2>7 DEF Ready
    <3>2. CASE d = Placed(p, tuple) /\ ~(p.ptr < tuple.size)
      <4>1. p.cont >= tuple.size + Slot /\ tuple.size <= p.ptr
        <5>1. p.ptr \in Nat
          BY <2>5, SoundFacts
        <5> QED
          BY <5>1, <3>2, <2>4, <2>7, Verdicts
      <4>2. Sound(d) /\ There(d) /\ (Exact(p) => Exact(d))
        BY <4>1, <3>2, <2>5, PlacedThere
      <4> QED
        BY <4>2, <2>3, <2>5
    <3>3. CASE d = p
      BY <3>3, <2>3, <2>5
    <3> QED
      BY <3>1, <3>2, <3>3, <2>6
  <2>8. CASE Verdict(p, tuple) = "NeedsCollapse"
    <3>1. r = Collapse(p)
      BY <2>2, <2>8 DEF Ready
    <3>2. /\ Sound(r) /\ Exact(r) /\ ~Collided(r) /\ There(r)
          /\ KeysOf(r.slots) = KeysOf(p.slots)
      BY <3>1, <2>5, CollapseSound
    <3>3. fragmented
      BY <2>5, <2>8, Verdicts
    <3>4. CASE d = r
      BY <3>2, <3>3, <3>4, <2>3
    <3>5. CASE d = Placed(r, tuple) /\ ~(r.ptr < tuple.size)
      <4>1. tuple.size <= r.ptr /\ tuple.key \notin KeysOf(r.slots)
        <5>1. r.ptr \in Nat
          BY <3>2, SoundFacts
        <5> QED
          BY <5>1, <3>2, <3>5, <2>4, <2>5
      <4>2. Sound(d) /\ (Exact(r) /\ ~Collided(d) => There(d))
        BY <4>1, <3>2, <3>5, PlacedThere
      <4> QED
        BY <4>2, <3>2, <3>3, <2>3
    <3> QED
      BY <3>4, <3>5, <2>6
  <2> QED
    BY <2>5, <2>7, <2>8, Verdicts
<1> QED
  BY <1>4, <1>5 DEF Insert, Returns

LEMMA SplitInv ==
    ASSUME PageInv, NEW tuple \in Tuple, Split(tuple)
    PROVE  PageInv'
<1>1. /\ Sound(page) /\ ~Collided(page) /\ tuple.key \notin KeysOf(page.slots)
      /\ fragmented' = FALSE
  BY DEF PageInv, Split, Usable
<1>2. outcome' \in Outcome
  BY DEF Split, Returns, Outcome
<1>3. SUFFICES Sound(page') /\ There(page') /\ Exact(page')
  <2>1. ASSUME Sound(page') PROVE TypeOK'
    <3>1. page' \in PageRec
      BY <2>1 DEF Sound
    <3> QED
      BY <3>1, <1>1, <1>2 DEF TypeOK, PageRec
  <2> QED
    BY <2>1, <1>1 DEF PageInv, Sound, Collided, There, Exact, Sorted, Laid, HasRoom, SlotEnd
<1>4. PICK p : p = page
  OBVIOUS
<1>5. PICK h : h = Halves(p, tuple)
  OBVIOUS
<1>6. PICK side \in {"left", "right"} :
         IF SplitFits(p, tuple) THEN page' = Half(p, tuple, side) ELSE page' = h[side]
  BY <1>4, <1>5 DEF Split, Returns
<1>7. DOMAIN h = {"left", "right", "goes"} /\ h["left"] = h.left /\ h["right"] = h.right
  BY <1>5 DEF Halves
<1>8. PICK r : r = h[side]
  OBVIOUS
<1>9. Sound(r) /\ Exact(r) /\ ~Collided(r) /\ There(r)
  <2>1. \E n, c \in Nat : IsHalf(h.left, p, 0, c) /\ IsHalf(h.right, p, c, n - c)
    BY <1>1, <1>4, <1>5, HalvesAre
  <2> QED
    BY <2>1, <1>6, <1>7, <1>8 DEF IsHalf
<1>10. CASE page' = r
  BY <1>9, <1>10
<1>11. CASE SplitFits(p, tuple) /\ h.goes = side /\ page' = Placed(r, tuple)
  <2>1. tuple.key \notin KeysOf(r.slots) /\ Verdict(r, tuple) # "OutOfSpace"
    <3>1. h.goes # "up"
      BY <1>6, <1>11
    <3> QED
      BY <3>1, <1>5, <1>8, <1>11 DEF SplitFits
  <2>2. r.cont >= tuple.size + Slot
    BY <2>1, <1>9, Verdicts
  <2>3. tuple.size <= r.ptr
    <3>1. PICK a, q, e \in Nat : a = r.cont /\ q = r.ptr /\ e = SlotEnd(r)
      BY <1>9, SoundFacts
    <3>2. a <= q - e
      BY <3>1, <1>9 DEF There
    <3>3. PICK z \in Nat : z = tuple.size
      BY TupleFacts
    <3> QED
      BY <3>1, <3>2, <3>3, <2>2, WordInt
  <2>4. PICK d : d = Placed(r, tuple)
    OBVIOUS
  <2>5. Sound(d) /\ There(d) /\ Exact(d)
    BY <2>1, <2>2, <2>3, <2>4, <1>9, PlacedThere
  <2> QED
    BY <2>4, <2>5, <1>11
<1>12. CASE SplitFits(p, tuple) /\ page' = Half(p, tuple, side)
  <2>1. page' = IF h.goes = side THEN Placed(r, tuple) ELSE r
    BY <1>5, <1>8, <1>12 DEF Half
  <2> QED
    BY <2>1, <1>10, <1>11, <1>12
<1> QED
  BY <1>6, <1>8, <1>10, <1>12

\* A deletion leaves tuples and pointer where they are.
LEMMA DeletedSound ==
    ASSUME NEW p, Sound(p), There(p), NEW k \in 1 .. Len(p.slots), NEW d, d = Deleted(p, k)
    PROVE  Sound(d) /\ There(d)
<1>1. p \in PageRec /\ p.slots \in Slots /\ Sorted(p.slots) /\ p.total \in Nat
  BY SoundFacts DEF Sound
<1>2. PICK s : s = p.slots /\ s \in Slots /\ Sorted(s)
  BY <1>1
<1>3. PICK n \in Nat : /\ n = Len(s) /\ DOMAIN s = 1 .. n /\ k \in 1 .. n
                       /\ \A i \in 1 .. n : s[i].size \in Nat
  BY <1>2, SlotFacts
<1>4. PICK t : t = RemoveAt(s, k)
  OBVIOUS
<1>5. /\ d = [type |-> d.type, slots |-> d.slots, cont |-> d.cont, total |-> d.total, ptr |-> d.ptr]
      /\ d.type = p.type /\ d.slots = t /\ d.cont = p.cont /\ d.ptr = p.ptr
      /\ d.total = U32(p.total - (s[k].size + Slot))
  BY <1>1, <1>2, <1>4 DEF Deleted, PageRec
<1>6. t \in Slots /\ Len(t) = n - 1 /\ Sorted(t) /\ Removed(t, s, k)
  <2>1. k \in 1 .. Len(s)
    BY <1>3
  <2>2. t \in Slots /\ Len(t) = Len(s) - 1 /\ Sorted(t) /\ Removed(t, s, k)
    BY <2>1, <1>2, <1>4, RemoveSorted
  <2> QED
    BY <2>2, <1>3
<1>7. DOMAIN t = 1 .. n - 1
  BY <1>6, SlotFacts
<1>8. d \in PageRec
  <2>1. p.total - (s[k].size + Slot) \in Int
    BY <1>1, <1>3, WordInt
  <2>2. d.total \in 0 .. (Word - 1)
    BY <2>1, <1>5, U32Bounds
  <2> QED
    BY <2>2, <1>1, <1>5, <1>6 DEF PageRec
<1>9. Laid(d)
  <2> DEFINE o(i) == IF i < k THEN i ELSE i + 1
  <2>1. \A i \in 1 .. n - 1 : o(i) \in 1 .. n /\ t[i] = s[o(i)]
    <3> TAKE i \in 1 .. n - 1
    <3>1. CASE i < k
      <4>1. i \in 1 .. k - 1
        BY <3>1, <1>3
      <4> QED
        BY <4>1, <3>1, <1>3, <1>6 DEF Removed
    <3>2. CASE ~(i < k)
      <4>1. i \in k .. Len(s) - 1
        BY <3>2, <1>3
      <4> QED
        BY <4>1, <3>2, <1>3, <1>6 DEF Removed
    <3> QED
      BY <3>1, <3>2
  <2>2. \A i, j \in 1 .. n - 1 : i # j => o(i) # o(j)
    BY <1>3
  <2> HIDE DEF o
  <2>3. /\ \A i \in 1 .. n : p.ptr <= s[i].at /\ s[i].at + s[i].size <= PageSize
        /\ \A i, j \in 1 .. n : i # j => \/ s[i].at + s[i].size <= s[j].at
                                         \/ s[j].at + s[j].size <= s[i].at
    BY <1>2, <1>3 DEF Sound, Laid
  <2>4. /\ \A i \in 1 .. n - 1 : p.ptr <= t[i].at /\ t[i].at + t[i].size <= PageSize
        /\ \A i, j \in 1 .. n - 1 : i # j => \/ t[i].at + t[i].size <= t[j].at
                                             \/ t[j].at + t[j].size <= t[i].at
    BY <2>1, <2>2, <2>3
  <2> QED
    BY <2>4, <1>5, <1>7 DEF Laid
<1>10. HasRoom(d)
  <2>1. PICK g : Sums(g, s) /\ g[n] <= PageSize - p.ptr
    BY <1>2, <1>3 DEF Sound, HasRoom
  <2>2. Len(s) = n /\ Sized(s)
    BY <1>3 DEF Sized
  <2>3. PICK h : Sums(h, t) /\ h[n - 1] = g[n] - s[k].size
    BY <2>1, <2>2, <1>3, <1>6, SumsRemove
  <2>4. PICK a, z, q \in Nat : a = g[n] /\ z = s[k].size /\ q = p.ptr
    BY <2>1, <2>2, <1>3, SoundFacts DEF Sums
  <2>5. a - z <= PageSize - q
    <3>1. a <= PageSize - q
      BY <2>1, <2>4
    <3> QED
      BY <3>1, WordInt
  <2>6. h[Len(t)] <= PageSize - d.ptr
    BY <2>3, <2>4, <2>5, <1>5, <1>6
  <2> QED
    BY <2>3, <2>6, <1>5 DEF HasRoom
<1>11. There(d)
  <2>1. PICK m \in Nat : m = n - 1 /\ n = m + 1
    <3>1. n - 1 \in Nat /\ n = (n - 1) + 1
      BY <1>3
    <3> QED
      BY <3>1
  <2>2. Slot * (m + 1) = Slot * m + Slot /\ Slot * m \in Nat
    BY SlotMore, WordInt
  <2>3. PICK e \in Nat : e = SlotEnd(d) /\ SlotEnd(p) = e + Slot
    <3>1. Len(d.slots) = m /\ Len(p.slots) = m + 1
      BY <2>1, <1>2, <1>3, <1>5, <1>6
    <3>2. SlotEnd(d) = Header + Slot * m /\ SlotEnd(p) = Header + Slot * (m + 1)
      BY <3>1 DEF SlotEnd
    <3> QED
      BY <3>2, <2>2, WordInt
  <2>4. PICK a, q \in Nat : a = p.cont /\ q = p.ptr
    BY SoundFacts
  <2>5. a <= q - (e + Slot)
    BY <2>3, <2>4 DEF There
  <2>6. a <= q - e
    BY <2>5, WordInt
  <2> QED
    BY <2>3, <2>4, <2>6, <1>5 DEF There
<1> QED
  BY <1>5, <1>6, <1>8, <1>9, <1>10, <1>11 DEF Sound

LEMMA DeleteInv ==
    ASSUME PageInv, NEW k \in Key, Delete(k)
    PROVE  PageInv'
<1>1. Sound(page) /\ ~Collided(page) /\ There(page) /\ fragmented \in BOOLEAN
  BY TypeIsPageRec DEF PageInv, Delete, Usable
<1>2. outcome' \in Outcome
  BY DEF Delete, Returns, Outcome
<1>3. CASE page' = page /\ fragmented' = fragmented
  BY <1>2, <1>3, TypeIsPageRec DEF PageInv, TypeOK, PageRec, Sound, Collided, There, Exact,
                                   Sorted, Laid, HasRoom, SlotEnd
<1>4. CASE fragmented' = TRUE /\ \E i \in DOMAIN page.slots : page' = Deleted(page, i)
  <2>1. PICK i \in DOMAIN page.slots : page' = Deleted(page, i)
    BY <1>4
  <2>2. i \in 1 .. Len(page.slots)
    BY <2>1, <1>1, SoundFacts, SlotFacts
  <2>3. PICK p, d : p = page /\ d = page'
    OBVIOUS
  <2>4. Sound(p) /\ There(p) /\ i \in 1 .. Len(p.slots) /\ d = Deleted(p, i)
    BY <2>1, <2>2, <2>3, <1>1
  <2>5. Sound(page') /\ There(page')
    BY <2>3, <2>4, DeletedSound
  <2>6. page' \in PageRec
    BY <2>5 DEF Sound
  <2> QED
    BY <2>5, <2>6, <1>2, <1>4 DEF PageInv, TypeOK, PageRec, Sound, Collided, There, Exact,
                                  Sorted, Laid, HasRoom, SlotEnd
<1> QED
  BY <1>3, <1>4 DEF Delete

LEMMA CollapseInv ==
    ASSUME PageInv, CollapseCall
    PROVE  PageInv'
<1>1. Sound(page) /\ ~Collided(page) /\ fragmented' = FALSE /\ page' = Collapse(page)
  BY DEF PageInv, CollapseCall, Usable
<1>2. outcome' \in Outcome
  BY DEF CollapseCall, Returns, Outcome
<1>3. PICK p : p = page
  OBVIOUS
<1>4. PICK r : r = Collapse(p)
  OBVIOUS
<1>5. Sound(r) /\ Exact(r) /\ ~Collided(r) /\ There(r)
  BY <1>1, <1>3, <1>4, CollapseSound
<1>6. page' = r
  BY <1>1, <1>3, <1>4
<1>7. r \in PageRec
  BY <1>5 DEF Sound
<1> QED
  BY <1>1, <1>2, <1>5, <1>6, <1>7 DEF PageInv, TypeOK, PageRec, Sound, Collided, There, Exact,
                                      Sorted, Laid, HasRoom, SlotEnd

\* On every page the calls of page.rs and split_and_insert produce, the header's
\* contiguous space is there, and header and pointer are exact unless a tuple
\* was deleted since the page was last rebuilt.
THEOREM PageInvariant == Spec => []PageInv
<1>1. Init => PageInv
  BY FreshInv
<1>2. PageInv /\ [Next]_vars => PageInv'
  <2> SUFFICES ASSUME PageInv, [Next]_vars PROVE PageInv'
    OBVIOUS
  <2>1. ASSUME NEW tuple \in Tuple, Insert(tuple) PROVE PageInv'
    BY <2>1, InsertInv
  <2>2. ASSUME NEW tuple \in Tuple, Split(tuple) PROVE PageInv'
    BY <2>2, SplitInv
  <2>3. ASSUME NEW k \in Key, Delete(k) PROVE PageInv'
    BY <2>3, DeleteInv
  <2>4. CASE CollapseCall
    BY <2>4, CollapseInv
  <2>5. CASE UNCHANGED vars
    BY <2>5 DEF vars, PageInv, TypeOK, Sound, PageRec, Collided, There, Exact,
                Sorted, Laid, HasRoom, SlotEnd
  <2> QED
    BY <2>1, <2>2, <2>3, <2>4, <2>5 DEF Next, Rest
<1> QED
  BY <1>1, <1>2, PTL DEF Spec

\* The header fields of a page stay 32-bit numbers and its pointer stays on it.
THEOREM PageTypes == Spec => []TypeOK
<1>1. PageInv => TypeOK
  BY DEF PageInv
<1> QED
  BY <1>1, PageInvariant, PTL

\* check_space never accepts a tuple for contiguous space that is not there
\* (276-277).
THEOREM SpaceIsThere == Spec => []ContiguousIsThere
<1>1. PageInv => ContiguousIsThere
  BY DEF PageInv, ContiguousIsThere, There
<1> QED
  BY <1>1, PageInvariant, PTL

\* Without a deletion since the last rebuilding the header says exactly what room
\* there is.
THEOREM HeaderExact == Spec => []SpaceExact
<1>1. PageInv => SpaceExact
  BY DEF PageInv, SpaceExact, Exact
<1> QED
  BY <1>1, PageInvariant, PTL

\* ... and neither slots and tuples nor two tuples overlap (352-355).
THEOREM NothingOverlaps == Spec => []CheckPreventsCollision
<1>1. PageInv => CheckPreventsCollision
  <2> SUFFICES ASSUME PageInv, ~fragmented PROVE NoCollision
    BY DEF CheckPreventsCollision
  <2>1. Sound(page) /\ Exact(page) /\ Laid(page)
    BY DEF PageInv, Sound
  <2>2. PICK p : p = page /\ Sound(p) /\ Exact(p) /\ Laid(p)
    BY <2>1
  <2>3. SlotEnd(p) <= p.ptr
    <3>1. PICK a, q, e \in Nat : a = p.cont /\ q = p.ptr /\ e = SlotEnd(p)
      BY <2>2, SoundFacts
    <3>2. a = q - e
      BY <2>2, <3>1 DEF Exact
    <3> QED
      BY <3>1, <3>2
  <2>4. ASSUME NEW i \in DOMAIN p.slots PROVE SlotEnd(p) <= p.slots[i].at
    <3>1. p.slots[i].at \in Nat /\ p.ptr <= p.slots[i].at /\ p.ptr \in Nat /\ SlotEnd(p) \in Nat
      <4>1. p.slots[i].at \in 0 .. PageSize
        BY <2>2, SoundFacts, SlotFacts
      <4>2. p.slots[i].at \in Nat
        BY <4>1, WordInt
      <4> QED
        BY <4>2, <2>2, SoundFacts DEF Laid
    <3> QED
      BY <3>1, <2>3
  <2> QED
    BY <2>2, <2>4 DEF NoCollision, Laid
<1> QED
  BY <1>1, PageInvariant, PTL

-----------------------------------------------------------------------------
(* Splits.                                                                 *)

\* The cut: the middle key is above the slots left of it and at most those right
\* of it, and is one of those or the new one; the tuple goes to the half that has
\* no more slots than the other.
LEMMA MiddleSplits ==
    ASSUME NEW slots \in Slots, Sorted(slots), NEW tuple \in Tuple, tuple.key \notin KeysOf(slots),
           NEW n \in Nat, n = Len(slots), NEW c, c = SplitIdx(slots, tuple),
           NEW mid, mid = Middle(slots, tuple)
    PROVE  /\ c \in 0 .. n /\ mid \in Nat
           /\ \A i \in 1 .. n : (i <= c => slots[i].key < mid) /\ (i > c => mid <= slots[i].key)
           /\ mid = tuple.key \/ mid \in KeysFrom(slots, c, n - c)
           /\ tuple.key < mid => c <= n - c
           /\ ~(tuple.key < mid) => n - c <= c
<1>1. /\ DOMAIN slots = 1 .. n
      /\ \A i \in 1 .. n : slots[i].key \in Nat /\ slots[i].key \in KeysOf(slots)
  BY SlotFacts
<1>2. PICK k \in Nat : k = tuple.key /\ k \notin KeysOf(slots)
  BY TupleFacts
<1>3. PICK u : u = PartitionUpper(slots, k)
  OBVIOUS
<1>4. u \in 0 .. n /\ \A i \in 1 .. n : slots[i].key <= k <=> i <= u
  BY <1>3, PartitionSplits
<1>5. PICK q \in Nat : q = (n + 1) \div 2 /\ 2 * q <= n + 1 /\ n <= 2 * q
  <2>1. (n + 1) \div 2 \in Nat /\ 2 * ((n + 1) \div 2) <= n + 1 /\ n <= 2 * ((n + 1) \div 2)
    OBVIOUS
  <2> QED
    BY <2>1
<1>6. c = (IF u < q THEN q - 1 ELSE q) /\ mid = (IF u = q THEN k ELSE slots[c + 1].key)
  BY <1>2, <1>3, <1>5 DEF SplitIdx, Middle
<1>7. \A i, j \in 1 .. n : i < j => slots[i].key < slots[j].key
  BY <1>1 DEF Sorted
<1>8. \A i \in 1 .. n : slots[i].key # k
  BY <1>1, <1>2
<1>9. \A i \in 1 .. n : (i <= u => slots[i].key < k) /\ (i > u => k < slots[i].key)
  <2> TAKE i \in 1 .. n
  <2>1. slots[i].key <= k <=> i <= u
    BY <1>4
  <2>2. slots[i].key # k /\ slots[i].key \in Nat
    BY <1>1, <1>8
  <2> QED
    BY <2>1, <2>2, <1>4
<1>10. CASE u = q
  <2>1. c = q /\ mid = k
    BY <1>6, <1>10
  <2>2. \A i \in 1 .. n : (i <= c => slots[i].key < mid) /\ (i > c => mid <= slots[i].key)
    BY <2>1, <1>1, <1>9, <1>10
  <2> QED
    BY <2>1, <2>2, <1>2, <1>4, <1>5, <1>10
<1>11. CASE u # q
  <2>1. c \in 0 .. n /\ c + 1 \in 1 .. n /\ mid = slots[c + 1].key
    BY <1>4, <1>5, <1>6, <1>11
  <2>2. PICK x \in 1 .. n : x = c + 1 /\ mid = slots[x].key
    BY <2>1
  <2>3. \A i \in 1 .. n : (i <= c => slots[i].key < mid) /\ (i > c => mid <= slots[i].key)
    <3> TAKE i \in 1 .. n
    <3>1. CASE i < x
      BY <3>1, <2>1, <2>2, <1>7
    <3>2. CASE i = x
      BY <3>2, <2>1, <2>2, <1>1
    <3>3. CASE x < i
      <4>1. mid < slots[i].key /\ mid \in Nat /\ slots[i].key \in Nat
        BY <3>3, <2>2, <1>1, <1>7
      <4> QED
        BY <4>1, <3>3, <2>1, <2>2
    <3> QED
      BY <3>1, <3>2, <3>3
  <2>4. mid \in Nat /\ mid \in KeysFrom(slots, c, n - c)
    <3>1. 1 \in 1 .. n - c
      BY <2>1
    <3> QED
      BY <3>1, <2>1, <2>2, <1>1 DEF KeysFrom
  <2>5. CASE u < q
    <3>1. c = q - 1 /\ k < mid
      BY <2>2, <2>5, <1>4, <1>5, <1>6, <1>9
    <3> QED
      BY <3>1, <2>1, <2>3, <2>4, <1>2, <1>5
  <2>6. CASE q < u
    <3>1. c = q /\ mid < k
      BY <2>2, <2>6, <1>4, <1>5, <1>6, <1>9
    <3>2. ~(k < mid)
      BY <3>1, <2>4
    <3> QED
      BY <3>1, <3>2, <2>1, <2>3, <2>4, <1>2, <1>5
  <2> QED
    BY <2>5, <2>6, <1>4, <1>5, <1>11
<1> QED
  BY <1>10, <1>11

LEMMA PlacedKeys ==
    ASSUME NEW p, Sound(p), NEW tuple \in Tuple
    PROVE  KeysOf(Placed(p, tuple).slots) = KeysOf(p.slots) \cup {tuple.key}
<1> DEFINE S == [key : Key, size : Sizes, at : Int]
<1>1. PICK s : s = p.slots /\ s \in Slots /\ Sorted(s)
  BY SoundFacts DEF Sound
<1>2. PICK n \in Nat : n = Len(s) /\ DOMAIN s = 1 .. n /\ s \in Seq(Rec)
  BY <1>1, SlotFacts
<1>3. s \in Seq(S)
  <2>1. \A r \in Rec : r \in S
    <3>1. 0 .. PageSize \subseteq Int
      OBVIOUS
    <3> QED
      BY <3>1 DEF Rec
  <2>2. \A i \in 1 .. n : s[i] \in S
    BY <2>1, <1>2, ElementOfSeq
  <2> HIDE DEF S
  <2>3. s \in [1 .. n -> S]
    BY <2>2, <1>2, LenProperties
  <2> QED
    BY <2>3, SeqDef
<1>4. PICK e : e = [key |-> tuple.key, size |-> tuple.size, at |-> p.ptr - tuple.size]
  OBVIOUS
<1>5. e \in S /\ e.key = tuple.key
  BY <1>4, TupleFacts, SoundFacts
<1> HIDE DEF S
<1>6. PICK u \in 1 .. n + 1 : u = PartitionUpper(s, tuple.key) + 1
  <2>1. PICK v : v = PartitionUpper(s, tuple.key)
    OBVIOUS
  <2>2. v \in 0 .. n
    BY <2>1, <1>1, <1>2, TupleFacts, PartitionSplits
  <2> QED
    BY <2>1, <2>2
<1>7. PICK d : d = InsertAt(s, u, e)
  OBVIOUS
<1>8. /\ Len(d) = n + 1 /\ DOMAIN d = 1 .. n + 1 /\ d[u] = e
      /\ \A i \in 1 .. u - 1 : d[i] = s[i]
      /\ \A i \in u .. n : d[i + 1] = s[i]
  <2>1. /\ d \in Seq(S) /\ Len(d) = Len(s) + 1
        /\ \A i \in 1 .. u - 1 : d[i] = s[i]
        /\ d[u] = e
        /\ \A i \in u .. Len(s) : d[i + 1] = s[i]
    <3>1. u \in 1 .. Len(s) + 1 /\ e \in S
      BY <1>2, <1>5
    <3> QED
      BY <3>1, <1>3, <1>7, InsertAtElements
  <2> QED
    BY <2>1, <1>2, LenProperties
<1>9. Placed(p, tuple).slots = d
  BY <1>1, <1>4, <1>6, <1>7, SoundFacts DEF Placed, PageRec
<1>10. KeysOf(d) = KeysOf(s) \cup {e.key}
  <2>1. ASSUME NEW x \in KeysOf(d) PROVE x \in KeysOf(s) \cup {e.key}
    <3>1. PICK i \in 1 .. n + 1 : x = d[i].key
      BY <1>8 DEF KeysOf
    <3>2. CASE i < u
      BY <3>1, <3>2, <1>2, <1>8 DEF KeysOf
    <3>3. CASE i = u
      BY <3>1, <3>3, <1>8
    <3>4. CASE i > u
      <4>1. i - 1 \in u .. n /\ i - 1 \in 1 .. n /\ (i - 1) + 1 = i
        BY <3>4
      <4>2. d[i] = s[i - 1]
        BY <4>1, <1>8
      <4> QED
        BY <4>1, <4>2, <3>1, <1>2 DEF KeysOf
    <3> QED
      BY <3>2, <3>3, <3>4
  <2>2. e.key \in KeysOf(d)
    BY <1>8 DEF KeysOf
  <2>3. ASSUME NEW x \in KeysOf(s) PROVE x \in KeysOf(d)
    <3>1. PICK i \in 1 .. n : x = s[i].key
      BY <1>2 DEF KeysOf
    <3>2. \E j \in 1 .. n + 1 : d[j] = s[i]
      <4>1. CASE i < u
        <5>1. i \in 1 .. u - 1 /\ i \in 1 .. n + 1
          BY <4>1
        <5> QED
          BY <5>1, <1>8
      <4>2. CASE i >= u
        <5>1. i \in u .. n /\ i + 1 \in 1 .. n + 1
          BY <4>2
        <5> QED
          BY <5>1, <1>8
      <4> QED
        BY <4>1, <4>2
    <3> QED
      BY <3>1, <3>2, <1>8 DEF KeysOf
  <2> QED
    BY <2>1, <2>2, <2>3
<1> QED
  BY <1>1, <1>5, <1>9, <1>10

\* A split keeps every tuple where later searches look for it.
LEMMA SplitKeys ==
    ASSUME NEW p, Sound(p), ~Collided(p), NEW tuple \in Tuple, tuple.key \notin KeysOf(p.slots),
           NEW mid, mid = Middle(p.slots, tuple),
           NEW left, left = KeysOf(Half(p, tuple, "left").slots),
           NEW right, right = KeysOf(Half(p, tuple, "right").slots)
    PROVE  /\ left \cup right \cup {mid} = KeysOf(p.slots) \cup {tuple.key}
           /\ p.type = "Leaf" => mid \in right
           /\ \A a \in left, b \in right : a < mid /\ mid <= b
<1>1. PICK s : s = p.slots /\ s \in Slots /\ Sorted(s) /\ tuple.key \notin KeysOf(s)
  BY SoundFacts DEF Sound
<1>2. PICK n \in Nat : /\ n = Len(s) /\ DOMAIN s = 1 .. n
                       /\ \A i \in 1 .. n : s[i].key \in Nat /\ s[i].key \in KeysOf(s)
                       /\ \A x \in KeysOf(s) : \E i \in 1 .. n : s[i].key = x
  <2>1. s \in Slots
    BY <1>1
  <2>2. Len(s) \in Nat /\ DOMAIN s = 1 .. Len(s)
    BY <2>1, SlotFacts
  <2>3. \A i \in 1 .. Len(s) : s[i].key \in Nat /\ s[i].key \in KeysOf(s)
    BY <2>1, SlotFacts
  <2>4. \A x \in KeysOf(s) : \E i \in 1 .. Len(s) : s[i].key = x
    BY <2>1, SlotFacts
  <2> QED
    BY <2>2, <2>3, <2>4
<1>3. PICK h : h = Halves(p, tuple)
  OBVIOUS
<1>4. PICK c \in Nat : /\ c = SplitIdx(s, tuple) /\ c \in 0 .. n
                       /\ IsHalf(h.left, p, 0, c) /\ IsHalf(h.right, p, c, n - c)
  <2>1. PICK l, c, g :
            /\ l \in Nat /\ c \in Nat
            /\ l = Len(p.slots) /\ c = SplitIdx(p.slots, tuple) /\ c \in 0 .. l
            /\ IsHalf(h.left, p, 0, c) /\ IsHalf(h.right, p, c, l - c)
    BY <1>1, <1>3, HalvesAre
  <2>2. l = n /\ c = SplitIdx(s, tuple)
    BY <2>1, <1>1, <1>2
  <2> QED
    BY <2>1, <2>2
<1>5. PICK k \in Nat : k = tuple.key
  BY TupleFacts
<1>6. /\ mid \in Nat
      /\ \A i \in 1 .. n : (i <= c => s[i].key < mid) /\ (i > c => mid <= s[i].key)
      /\ mid = k \/ mid \in KeysFrom(s, c, n - c)
  <2>1. s \in Slots /\ Sorted(s) /\ tuple.key \notin KeysOf(s)
    BY <1>1
  <2>2. n = Len(s) /\ c = SplitIdx(s, tuple) /\ mid = Middle(s, tuple)
    BY <1>1, <1>2, <1>4
  <2>3. /\ mid \in Nat
        /\ \A i \in 1 .. n : (i <= c => s[i].key < mid) /\ (i > c => mid <= s[i].key)
        /\ mid = tuple.key \/ mid \in KeysFrom(s, c, n - c)
    BY <2>1, <2>2, MiddleSplits
  <2> QED
    BY <2>3, <1>5
<1>7. PICK L, R : L = KeysFrom(s, 0, c) /\ R = KeysFrom(s, c, n - c)
  OBVIOUS
<1>8. KeysOf(s) = L \cup R
  <2>1. ASSUME NEW x \in KeysOf(s) PROVE x \in L \cup R
    <3>1. PICK i \in 1 .. n : s[i].key = x
      BY <1>2
    <3>2. CASE i <= c
      <4>1. i \in 1 .. c /\ 0 + i = i
        BY <3>2, <1>4
      <4> QED
        BY <4>1, <3>1, <1>7 DEF KeysFrom
    <3>3. CASE i > c
      <4>1. i - c \in 1 .. n - c /\ c + (i - c) = i
        BY <3>3, <1>4
      <4> QED
        BY <4>1, <3>1, <1>7 DEF KeysFrom
    <3> QED
      BY <3>2, <3>3, <1>4
  <2>2. (\A i \in 1 .. c : 0 + i \in 1 .. n) /\ \A i \in 1 .. n - c : c + i \in 1 .. n
    BY <1>4
  <2>3. L \subseteq KeysOf(s) /\ R \subseteq KeysOf(s)
    BY <2>2, <1>2, <1>7 DEF KeysFrom
  <2> QED
    BY <2>1, <2>3
<1>9. \A x \in L : x \in Nat /\ x < mid
  <2>1. \A i \in 1 .. c : 0 + i \in 1 .. n /\ 0 + i <= c
    BY <1>4
  <2> QED
    BY <2>1, <1>2, <1>6, <1>7 DEF KeysFrom
<1>10. \A x \in R : x \in Nat /\ mid <= x
  <2>1. \A i \in 1 .. n - c : c + i \in 1 .. n /\ c + i > c
    BY <1>4
  <2> QED
    BY <2>1, <1>2, <1>6, <1>7 DEF KeysFrom
<1>11. /\ Sound(h.left) /\ Sound(h.right)
       /\ KeysOf(h.left.slots) = L /\ KeysOf(h.right.slots) = R
  BY <1>1, <1>4, <1>7 DEF IsHalf
<1>12. /\ h["left"] = h.left /\ h["right"] = h.right
       /\ h.goes = IF k < mid THEN "left"
                   ELSE IF p.type = "Node" /\ k = mid THEN "up" ELSE "right"
  BY <1>3, <1>5 DEF Halves
<1>13. left = IF h.goes = "left" THEN L \cup {k} ELSE L
  BY <1>3, <1>5, <1>11, <1>12, PlacedKeys DEF Half
<1>14. right = IF h.goes = "right" THEN R \cup {k} ELSE R
  BY <1>3, <1>5, <1>11, <1>12, PlacedKeys DEF Half
<1>15. CASE k < mid
  <2>1. left = L \cup {k} /\ right = R /\ mid \in R
    BY <1>5, <1>6, <1>7, <1>12, <1>13, <1>14, <1>15
  <2> QED
    BY <2>1, <1>1, <1>5, <1>8, <1>9, <1>10, <1>15
<1>16. CASE ~(k < mid) /\ p.type = "Node" /\ k = mid
  <2>1. left = L /\ right = R
    BY <1>12, <1>13, <1>14, <1>16
  <2> QED
    BY <2>1, <1>1, <1>5, <1>8, <1>9, <1>10, <1>16
<1>17. CASE ~(k < mid) /\ ~(p.type = "Node" /\ k = mid)
  <2>1. left = L /\ right = R \cup {k}
    BY <1>12, <1>13, <1>14, <1>17
  <2>2. mid <= k /\ mid \in R \cup {k}
    BY <1>5, <1>6, <1>7, <1>17
  <2> QED
    BY <2>1, <2>2, <1>1, <1>5, <1>8, <1>9, <1>10
<1> QED
  BY <1>15, <1>16, <1>17

\* split_half and split_and_insert lose no tuple: all of them, the new one too,
\* end on the side of the middle key on which a search looks for them.
THEOREM SplitsPartition == Spec => []SplitPartitions
<1>1. PageInv => SplitPartitions
  <2> SUFFICES ASSUME PageInv, NEW tuple \in Tuple, Usable, tuple.key \notin KeysOf(page.slots),
                      NEW mid, mid = Middle(page.slots, tuple),
                      NEW left, left = KeysOf(Half(page, tuple, "left").slots),
                      NEW right, right = KeysOf(Half(page, tuple, "right").slots)
               PROVE  /\ left \cup right \cup {mid} = KeysOf(page.slots) \cup {tuple.key}
                      /\ page.type = "Leaf" => mid \in right
                      /\ \A a \in left, b \in right : a < mid /\ mid <= b
    BY DEF SplitPartitions
  <2>1. PICK p : p = page
    OBVIOUS
  <2>2. Sound(p) /\ ~Collided(p)
    BY <2>1 DEF PageInv, Usable
  <2> QED
    BY <2>1, <2>2, SplitKeys
<1> QED
  BY <1>1, PageInvariant, PTL

\* No tuple takes more than m times the space of another, and m + 1 of the largest
\* fit on an empty page.
Even(m) == \A x, y \in Sizes : /\ x + Slot <= m * (y + Slot)
                               /\ (m + 1) * (x + Slot) <= PageSize - Header

\* The space of the first i slots.
Used(g, i) == g[i] + Slot * i

LEMMA EvenStep ==
    ASSUME NEW m \in Nat, NEW a \in Nat, NEW b \in Nat, NEW e \in Nat, NEW f \in Nat,
           NEW u \in Nat, NEW v \in Nat, b - a <= m * (f - e), u <= m * v
    PROVE  (b + u) - a <= m * ((f + v) - e)
<1>1. PICK w \in Int : w = f - e
  OBVIOUS
<1>2. m * (w + v) = m * w + m * v /\ m * w \in Int /\ m * v \in Int
  BY <1>1
<1>3. (f + v) - e = w + v
  BY <1>1
<1>4. b - a <= m * w
  BY <1>1
<1>5. PICK r, t \in Int : r = m * w /\ t = m * v
  BY <1>2
<1>6. (b + u) - a <= r + t
  BY <1>4, <1>5
<1> QED
  BY <1>2, <1>3, <1>5, <1>6

\* A run of slots takes at most m times the space of another one as long.
LEMMA RunsEven ==
    ASSUME NEW slots, NEW g, Fits(slots, g), NEW m \in Nat, Even(m), NEW n \in Nat, n = Len(slots),
           NEW c \in 0 .. n, NEW d \in 0 .. n, NEW k \in Nat, c + k <= n, d + k <= n
    PROVE  Used(g, c + k) - Used(g, c) <= m * (Used(g, d + k) - Used(g, d))
<1>1. \A i \in 0 .. n : Used(g, i) \in Nat
  <2> TAKE i \in 0 .. n
  <2>1. g[i] \in Nat /\ Slot * i \in Nat
    BY PackedSpace
  <2> QED
    BY <2>1 DEF Used
<1>2. \A i \in 1 .. n : /\ slots[i].size \in Nat /\ slots[i].size \in Sizes
                        /\ Used(g, i) = Used(g, i - 1) + (slots[i].size + Slot)
  <2> TAKE i \in 1 .. n
  <2>1. slots[i].size \in Nat /\ slots[i].size \in Sizes
    BY SlotFacts DEF Fits
  <2>2. /\ g[i] = g[i - 1] + slots[i].size /\ Slot * i = Slot * (i - 1) + Slot
        /\ g[i - 1] \in Nat /\ Slot * (i - 1) \in Nat
    <3>1. i \in 0 .. Len(slots) /\ i # 0
      OBVIOUS
    <3> QED
      BY <3>1, PackedSpace
  <2>3. PICK a, u, z \in Nat : a = g[i - 1] /\ u = Slot * (i - 1) /\ z = slots[i].size
    BY <2>1, <2>2
  <2>4. (a + z) + (u + Slot) = (a + u) + (z + Slot)
    BY WordInt
  <2> QED
    BY <2>1, <2>2, <2>3, <2>4 DEF Used
<1> DEFINE P(j) == Used(g, c + j) - Used(g, c) <= m * (Used(g, d + j) - Used(g, d))
<1>3. P(0)
  <2>1. c + 0 = c /\ d + 0 = d
    OBVIOUS
  <2>2. Used(g, c) - Used(g, c) = 0 /\ m * (Used(g, d) - Used(g, d)) = 0
    <3>1. Used(g, c) \in Nat /\ Used(g, d) \in Nat
      BY <1>1
    <3>2. Used(g, c) - Used(g, c) = 0 /\ Used(g, d) - Used(g, d) = 0 /\ m * 0 = 0
      BY <3>1
    <3> QED
      BY <3>2
  <2> QED
    BY <2>1, <2>2
<1>4. ASSUME NEW j \in 1 .. k, P(j - 1) PROVE P(j)
  <2>1. /\ c + j \in 1 .. n /\ d + j \in 1 .. n
        /\ c + (j - 1) = (c + j) - 1 /\ d + (j - 1) = (d + j) - 1
        /\ (c + j) - 1 \in 0 .. n /\ (d + j) - 1 \in 0 .. n
    OBVIOUS
  <2>2. PICK x, y \in Nat : x = slots[c + j].size /\ y = slots[d + j].size /\ x \in Sizes /\ y \in Sizes
    BY <2>1, <1>2
  <2>3. PICK a, b, e, f \in Nat : /\ a = Used(g, c) /\ b = Used(g, (c + j) - 1)
                                  /\ e = Used(g, d) /\ f = Used(g, (d + j) - 1)
    BY <2>1, <1>1
  <2>4. Used(g, c + j) = b + (x + Slot) /\ Used(g, d + j) = f + (y + Slot)
    BY <2>1, <2>2, <2>3, <1>2
  <2>5. b - a <= m * (f - e)
    BY <2>1, <2>3, <1>4
  <2>6. x + Slot <= m * (y + Slot)
    BY <2>2 DEF Even
  <2>7. PICK u, v \in Nat : u = x + Slot /\ v = y + Slot
    <3>1. x + Slot \in Nat /\ y + Slot \in Nat
      BY WordInt
    <3> QED
      BY <3>1
  <2>8. (b + u) - a <= m * ((f + v) - e)
    BY <2>5, <2>6, <2>7, EvenStep
  <2> QED
    BY <2>1, <2>3, <2>4, <2>7, <2>8
<1> HIDE DEF P
<1> DEFINE I == {j \in 0 .. k : ~P(j)}
<1>5. I = {}
  <2> SUFFICES ASSUME I # {} PROVE FALSE
    OBVIOUS
  <2>1. PICK x \in I : \A y \in I : x <= y
    <3>1. I \in SUBSET Nat
      OBVIOUS
    <3> HIDE DEF I
    <3> QED
      BY <3>1, Least
  <2>2. x \in 0 .. k /\ ~P(x) /\ x # 0
    BY <2>1, <1>3
  <2>3. x - 1 \in 0 .. k /\ x \in 1 .. k /\ ~(x <= x - 1)
    BY <2>2
  <2>4. P(x - 1)
    BY <2>1, <2>3
  <2> QED
    BY <2>2, <2>3, <2>4, <1>4
<1> QED
  <2>1. k \in 0 .. k /\ P(k)
    BY <1>5
  <2> QED
    BY <2>1 DEF P

LEMMA UsedGrows ==
    ASSUME NEW slots, NEW g, Fits(slots, g), NEW i \in 0 .. Len(slots), NEW j \in 0 .. Len(slots), i <= j
    PROVE  Used(g, i) \in Nat /\ Used(g, j) \in Nat /\ Used(g, i) <= Used(g, j)
<1>1. g[i] \in Nat /\ Slot * i \in Nat /\ g[j] \in Nat /\ Slot * j \in Nat
  BY PackedSpace
<1>2. g[i] <= g[j]
  <2>1. Len(slots) \in Nat /\ (\A x \in 1 .. Len(slots) : slots[x].size \in Nat) /\ Sums(g, slots)
    BY SlotFacts DEF Fits
  <2> QED
    BY <2>1, SumsGrow
<1>3. Slot * i <= Slot * j
  <2>1. i \in Nat /\ j \in Nat
    OBVIOUS
  <2>2. PICK w \in Nat : j = i + w
    <3>1. j - i \in Nat /\ j = i + (j - i)
      BY <2>1
    <3> QED
      BY <3>1
  <2>3. Slot * (i + w) = Slot * i + Slot * w /\ Slot * w \in Nat
    BY <2>1, WordInt
  <2> QED
    BY <2>2, <2>3, <1>1
<1> QED
  BY <1>1, <1>2, <1>3 DEF Used

\* If one half takes at most m times the space of the other there is room in it.
LEMMA RoomInHalf ==
    ASSUME NEW m \in Nat, NEW x \in Nat, NEW y \in Nat, NEW z \in Nat, NEW all \in Nat,
           x <= m * y, x + y <= all, (m + 1) * z <= all
    PROVE  x + z <= all
<1> SUFFICES ASSUME ~(x + z <= all) PROVE FALSE
  OBVIOUS
<1>1. y < z
  OBVIOUS
<1>2. PICK w \in Nat : z = y + w
  <2>1. z - y \in Nat /\ z = y + (z - y)
    BY <1>1
  <2> QED
    BY <2>1
<1>3. m * y \in Nat /\ m * w \in Nat /\ m * z = m * y + m * w
  BY <1>2
<1>4. (m + 1) * z = m * z + z
  OBVIOUS
<1> QED
  BY <1>3, <1>4

\* Cut after c slots, neither half takes more than m times the space of the other
\* unless it has more slots.
Balanced(m, g, c, n) ==
    \E x, y \in Nat :
       /\ x = Used(g, c) /\ y = Used(g, n) - Used(g, c) /\ x + y <= PageSize - Header
       /\ c <= n - c => x <= m * y
       /\ n - c <= c => y <= m * x

LEMMA UsedBounds ==
    ASSUME NEW slots, NEW g, Fits(slots, g), NEW m \in Nat, Even(m), NEW n \in Nat, n = Len(slots),
           NEW c \in 0 .. n
    PROVE  Balanced(m, g, c, n)
<1>1. PICK x, t \in Nat : x = Used(g, c) /\ t = Used(g, n) /\ x <= t
  <2>1. c \in 0 .. Len(slots) /\ n \in 0 .. Len(slots) /\ c <= n
    OBVIOUS
  <2> QED
    BY <2>1, UsedGrows
<1>2. t <= PageSize - Header
  <2>1. n \in 0 .. Len(slots)
    OBVIOUS
  <2>2. PICK a, v \in Nat : a = g[n] /\ v = Slot * n /\ Header + v + a <= PageSize
    BY <2>1, PackedSpace
  <2>3. a + v <= PageSize - Header
    BY <2>2, WordInt
  <2> QED
    BY <2>2, <2>3, <1>1 DEF Used
<1>3. PICK y \in Nat : y = t - x /\ x + y = t
  <2>1. t - x \in Nat /\ x + (t - x) = t
    BY <1>1
  <2> QED
    BY <2>1
<1>4. Used(g, 0) = 0
  <2>1. g[0] = 0 /\ Slot * 0 = 0
    BY WordInt DEF Fits, Sums
  <2> QED
    BY <2>1 DEF Used
<1>5. \A a, b \in Nat : a <= b => m * a <= m * b /\ m * a \in Nat /\ m * b \in Nat
  <2> SUFFICES ASSUME NEW a \in Nat, NEW b \in Nat, a <= b
               PROVE  m * a <= m * b /\ m * a \in Nat /\ m * b \in Nat
    OBVIOUS
  <2>1. PICK w \in Nat : b = a + w
    <3>1. b - a \in Nat /\ b = a + (b - a)
      OBVIOUS
    <3> QED
      BY <3>1
  <2>2. m * b = m * a + m * w /\ m * w \in Nat /\ m * a \in Nat
    BY <2>1
  <2> QED
    BY <2>2
<1>6. ASSUME c <= n - c PROVE x <= m * y
  <2>1. PICK e \in 0 .. n : e = c + c /\ e <= n
    <3>1. c + c \in 0 .. n
      BY <1>6
    <3> QED
      BY <3>1
  <2>2. 0 \in 0 .. n /\ c \in Nat /\ 0 + c = c /\ 0 + c <= n /\ c + c <= n
    BY <2>1
  <2>3. Used(g, 0 + c) - Used(g, 0) <= m * (Used(g, c + c) - Used(g, c))
    BY <2>2, RunsEven
  <2>4. PICK u \in Nat : u = Used(g, e) /\ x <= u /\ u <= t
    <3>1. e \in 0 .. Len(slots) /\ c \in 0 .. Len(slots) /\ n \in 0 .. Len(slots) /\ c <= e /\ e <= n
      BY <2>1
    <3> QED
      BY <3>1, <1>1, UsedGrows
  <2>5. PICK r \in Nat : r = u - x /\ r <= y
    <3>1. u - x \in Nat /\ u - x <= t - x
      BY <2>4, <1>1
    <3> QED
      BY <3>1, <1>3
  <2>6. x - 0 <= m * r
    BY <2>1, <2>2, <2>3, <2>4, <2>5, <1>1, <1>4
  <2>7. m * r <= m * y /\ m * r \in Nat /\ m * y \in Nat
    BY <2>5, <1>5
  <2> QED
    BY <2>6, <2>7
<1>7. ASSUME n - c <= c PROVE y <= m * x
  <2>1. PICK e \in 0 .. n : e = n - c /\ e <= c
    <3>1. n - c \in 0 .. n
      OBVIOUS
    <3> QED
      BY <3>1, <1>7
  <2>2. 0 \in 0 .. n /\ e \in Nat /\ 0 + e = e /\ 0 + e <= n /\ c + e = n /\ c + e <= n
    BY <2>1
  <2>3. Used(g, c + e) - Used(g, c) <= m * (Used(g, 0 + e) - Used(g, 0))
    BY <2>2, RunsEven
  <2>4. PICK u \in Nat : u = Used(g, e) /\ u <= x
    <3>1. e \in 0 .. Len(slots) /\ c \in 0 .. Len(slots) /\ e <= c
      BY <2>1
    <3> QED
      BY <3>1, <1>1, UsedGrows
  <2>5. t - x <= m * (u - 0)
    BY <2>2, <2>3, <2>4, <1>1, <1>4
  <2>6. u - 0 = u
    OBVIOUS
  <2>7. m * u <= m * x /\ m * u \in Nat /\ m * x \in Nat
    BY <2>4, <1>5
  <2> QED
    BY <2>5, <2>6, <2>7, <1>3
<1> QED
  BY <1>1, <1>2, <1>3, <1>6, <1>7 DEF Balanced

LEMMA SplitRoom ==
    ASSUME NEW p, Sound(p), ~Collided(p), NEW tuple \in Tuple, tuple.key \notin KeysOf(p.slots),
           NEW m \in Nat, Even(m)
    PROVE  SplitFits(p, tuple)
<1>1. PICK h : h = Halves(p, tuple)
  OBVIOUS
<1>2. PICK n, c, g :
         /\ n \in Nat /\ c \in Nat
         /\ n = Len(p.slots) /\ c = SplitIdx(p.slots, tuple) /\ c \in 0 .. n
         /\ Fits(p.slots, g)
         /\ IsHalf(h.left, p, 0, c) /\ IsHalf(h.right, p, c, n - c)
         /\ h.left.cont = PageSize - Header - g[c] - Slot * c
         /\ h.right.cont = PageSize - Header - (g[n] - g[c]) - Slot * (n - c)
  BY <1>1, HalvesAre
<1>3. PICK x, y \in Nat :
         /\ x = Used(g, c) /\ y = Used(g, n) - Used(g, c) /\ x + y <= PageSize - Header
         /\ c <= n - c => x <= m * y
         /\ n - c <= c => y <= m * x
  <2>1. Fits(p.slots, g) /\ n = Len(p.slots) /\ c \in 0 .. n
    BY <1>2
  <2>2. Balanced(m, g, c, n)
    BY <2>1, UsedBounds
  <2> QED
    BY <2>2 DEF Balanced
<1>4. PICK all \in Nat : all = PageSize - Header
  <2>1. PageSize - Header \in Nat
    BY WordInt
  <2> QED
    BY <2>1
<1>5. PICK z \in Nat : z = tuple.size + Slot /\ (m + 1) * z <= all
  <2>1. tuple.size \in Sizes /\ tuple.size + Slot \in Nat
    BY TupleFacts, WordInt
  <2>2. (m + 1) * (tuple.size + Slot) <= PageSize - Header
    BY <2>1 DEF Even
  <2> QED
    BY <2>1, <2>2, <1>4
<1>6. h.left.cont = all - x /\ h.right.cont = all - y
  <2>1. PICK a, b, u, v \in Nat : a = g[c] /\ b = g[n] /\ u = Slot * c /\ v = Slot * n
    <3>1. c \in 0 .. Len(p.slots) /\ n \in 0 .. Len(p.slots)
      BY <1>2
    <3>2. g[c] \in Nat /\ Slot * c \in Nat /\ g[n] \in Nat /\ Slot * n \in Nat
      BY <3>1, <1>2, PackedSpace
    <3> QED
      BY <3>2
  <2>2. Slot * (n - c) = v - u
    <3>1. PICK k \in Nat : k = n - c /\ n = c + k
      <4>1. n - c \in Nat /\ n = c + (n - c)
        BY <1>2
      <4> QED
        BY <4>1
    <3>2. \A d \in Nat : Slot * (d + k) = Slot * d + Slot * k /\ Slot * k \in Nat
      BY WordInt
    <3>3. Slot * (c + k) = Slot * c + Slot * k
      BY <1>2, <3>2
    <3>4. PICK e \in Nat : e = Slot * k
      BY <3>2, <1>2
    <3> QED
      BY <2>1, <3>1, <3>3, <3>4
  <2>3. x = a + u /\ y = (b + v) - (a + u)
    BY <2>1, <1>3 DEF Used
  <2>4. (PageSize - Header) - a - u = (PageSize - Header) - (a + u)
    BY <2>1, WordInt
  <2>5. (PageSize - Header) - (b - a) - (v - u) = (PageSize - Header) - ((b + v) - (a + u))
    BY <2>1, WordInt
  <2> QED
    BY <2>1, <2>2, <2>3, <2>4, <2>5, <1>2, <1>4
<1>7. PICK mid : mid = Middle(p.slots, tuple)
  OBVIOUS
<1>8. (tuple.key < mid => c <= n - c) /\ (~(tuple.key < mid) => n - c <= c)
  <2>1. p.slots \in Slots /\ Sorted(p.slots)
    BY SoundFacts DEF Sound
  <2>2. n = Len(p.slots) /\ c = SplitIdx(p.slots, tuple)
    BY <1>2
  <2> QED
    BY <2>1, <2>2, <1>7, MiddleSplits
<1>9. /\ h["left"] = h.left /\ h["right"] = h.right
      /\ h.goes = IF tuple.key < mid THEN "left"
                  ELSE IF p.type = "Node" /\ tuple.key = mid THEN "up" ELSE "right"
  BY <1>1, <1>7 DEF Halves
<1>10. tuple.key \notin KeysOf(h.left.slots) /\ tuple.key \notin KeysOf(h.right.slots)
  <2>1. DOMAIN p.slots = 1 .. n
    BY <1>2, SoundFacts, SlotFacts
  <2>2. (\A i \in 1 .. c : 0 + i \in 1 .. n) /\ \A i \in 1 .. n - c : c + i \in 1 .. n
    BY <1>2
  <2>3. KeysFrom(p.slots, 0, c) \subseteq KeysOf(p.slots) /\ KeysFrom(p.slots, c, n - c) \subseteq KeysOf(p.slots)
    BY <2>1, <2>2 DEF KeysFrom, KeysOf
  <2> QED
    BY <2>3, <1>2 DEF IsHalf
<1>11. CASE tuple.key < mid
  <2>1. x + z <= all
    BY <1>3, <1>4, <1>5, <1>8, <1>11, RoomInHalf
  <2>2. h.left.cont >= z
    BY <2>1, <1>6
  <2>3. Verdict(h.left, tuple) = "Ok"
    BY <2>2, <1>5, Verdicts
  <2> QED
    BY <2>3, <1>1, <1>9, <1>10, <1>11 DEF SplitFits
<1>12. CASE ~(tuple.key < mid)
  <2>1. y + z <= all
    <3>1. y <= m * x /\ y + x <= all
      BY <1>3, <1>4, <1>8, <1>12
    <3> QED
      BY <3>1, <1>5, RoomInHalf
  <2>2. h.right.cont >= z
    BY <2>1, <1>6
  <2>3. Verdict(h.right, tuple) = "Ok"
    BY <2>2, <1>5, Verdicts
  <2> QED
    BY <2>3, <1>1, <1>9, <1>10, <1>12 DEF SplitFits
<1> QED
  BY <1>11, <1>12

\* When tuples are even enough in size a split makes room for the tuple that was
\* refused, so that the unwrapped insertion of split_and_insert does not panic.
THEOREM SplitsMakeRoom ==
    ASSUME \E m \in Nat : Even(m)
    PROVE  Spec => []SplitMakesRoom
<1>1. PageInv => SplitMakesRoom
  <2> SUFFICES ASSUME PageInv, NEW tuple \in Tuple, Usable, tuple.key \notin KeysOf(page.slots)
               PROVE  SplitFits(page, tuple)
    BY DEF SplitMakesRoom
  <2>1. PICK m \in Nat : Even(m)
    OBVIOUS
  <2>2. PICK p : p = page
    OBVIOUS
  <2>3. Sound(p) /\ ~Collided(p) /\ tuple.key \notin KeysOf(p.slots)
    BY <2>2 DEF PageInv, Usable
  <2> QED
    BY <2>1, <2>2, <2>3, SplitRoom
<1> QED
  BY <1>1, PageInvariant, PTL
=============================================================================
