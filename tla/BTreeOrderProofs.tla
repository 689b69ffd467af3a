---------------------------- MODULE BTreeOrderProofs ----------------------------
(***************************************************************************)
(* The order of the leaves: as long as a tree has one inner node at most    *)
(* and one thread inserts, its leaf chain is sorted, every search ends at   *)
(* the leaf of its key, and no scan misses a key that was there when it     *)
(* began.  The first two go wrong once an inner node splits (285) or        *)
(* insertions overlap (164-168).  A tree whose keys have room in one inner  *)
(* node never has a second one.                                             *)
(***************************************************************************)
EXTENDS BTreeKeysProofs

-----------------------------------------------------------------------------
(* The invariant. *)

\* The tree has one inner node at most, its root.
OneLevel == \A p \in DOMAIN pages : IsLeaf(p) \/ p = dbobjects[0]

\* The keys of a leaf are below the first of the next one.
Below(p, k) == pages[p].right # NULL_PTR => k < FirstKey(pages[p].right)
LeavesAscend ==
    \A p \in DOMAIN pages : IsLeaf(p) => \A k \in KeysIn(pages[p].items) : Below(p, k)

\* Every leaf but the first has a separator in the root, or an insertion carries it.
Carried(v) ==
    \E t \in Threads : \E c \in InsertCall : CallIs(op[t], c) /\ ~Pending(c) /\ c.tuple.value = v
LeavesHung ==
    \A v \in DOMAIN pages : IsLeaf(v) /\ v \notin ObjectID => ~Unhung(v) \/ Carried(v)
RootLeads == \A p \in DOMAIN pages : ~IsLeaf(p) => IsLeaf(pages[p].child)

\* An insertion at a leaf has a key below the next one.
AtPlace(c) == c.at \in {"insert", "split"} /\ IsLeaf(c.page) => Below(c.page, c.key)
AtPlaces == \A t \in Threads : \A c \in InsertCall : CallIs(op[t], c) => AtPlace(c)

\* A root that is not initialised yet is empty.
RootNew(s) == s \in RootCall => pages[s.root].items = <<>> /\ s.call.page # s.root
RootsNew == \A t \in Threads : RootNew(op[t])

\* Only inserters insert.
InsertersInsert ==
    \A t \in Threads : \A c \in InsertCall : CallIs(op[t], c) => t \in Inserters

InOrder == LeavesAscend /\ LeavesHung /\ RootLeads /\ AtPlaces /\ RootsNew
OrderInv == InsertersInsert /\ (OneLevel => InOrder)

\* The right sibling of a leaf is another leaf, and no first one.
LEMMA RightIsLater ==
    ASSUME IInv, Ranks, NEW p \in DOMAIN pages, IsLeaf(p),
           NEW q, q = pages[p].right, q # NULL_PTR
    PROVE  q \in DOMAIN pages /\ IsLeaf(q) /\ q \notin ObjectID /\ q # p
<1>1. PICK own, idx, len : Ranked(own, idx, len)
  BY DEF Ranks
<1>2. PICK b \in ObjectID, i \in Nat, l \in Nat :
         b = own[p] /\ i = idx[p] /\ l = len[b] /\ i \in 1 .. l
  BY <1>1 DEF Ranked, Linked
<1>3. i # l
  BY <1>1, <1>2 DEF Ranked, Linked
<1>4. q \in DOMAIN pages /\ IsLeaf(q) /\ idx[q] = i + 1
  BY <1>1, <1>2, <1>3 DEF Ranked, Linked
<1>5. \A o \in ObjectID : idx[o] = 1
  BY <1>1 DEF Ranked
<1>6. i + 1 # 1 /\ i + 1 # i
  BY <1>2
<1> QED
  BY <1>2, <1>4, <1>5, <1>6

-----------------------------------------------------------------------------
(* Steps that change no page. *)

LEMMA QuietPages ==
    ASSUME UNCHANGED <<pages, dbobjects>>
    PROVE  /\ OneLevel' <=> OneLevel
           /\ LeavesAscend' <=> LeavesAscend
           /\ RootLeads' <=> RootLeads
           /\ \A v : Unhung(v)' <=> Unhung(v)
           /\ \A p : IsLeaf(p)' <=> IsLeaf(p)
           /\ \A c : (Pending(c)' <=> Pending(c)) /\ (AtPlace(c)' <=> AtPlace(c))
           /\ \A s : RootNew(s)' <=> RootNew(s)
<1>1. \A p : (IsLeaf(p)' <=> IsLeaf(p)) /\ (Leftmost(p)' <=> Leftmost(p)) /\ FirstKey(p)' = FirstKey(p)
  BY DEF IsLeaf, Leftmost, FirstKey
<1>2. \A p, k : Below(p, k)' <=> Below(p, k)
  <2>1. \A p : FirstKey(pages[p].right)' = FirstKey(pages[p].right)
    BY DEF FirstKey
  <2> QED
    BY <2>1 DEF Below
<1>3. OneLevel' <=> OneLevel
  BY <1>1 DEF OneLevel
<1>4. LeavesAscend' <=> LeavesAscend
  BY <1>1, <1>2 DEF LeavesAscend
<1>5. RootLeads' <=> RootLeads
  <2>1. \A p : IsLeaf(pages[p].child)' <=> IsLeaf(pages[p].child)
    BY DEF IsLeaf
  <2> QED
    BY <2>1, <1>1 DEF RootLeads
<1>6. Spine' = Spine /\ \A p : Items(p)' = Items(p)
  BY <1>1 DEF Spine, Items
<1>7. \A v : Unhung(v)' <=> Unhung(v)
  BY <1>6 DEF Unhung
<1>8. \A c : (Pending(c)' <=> Pending(c)) /\ (AtPlace(c)' <=> AtPlace(c))
  BY <1>1, <1>2 DEF Pending, AtPlace
<1>9. \A s : RootNew(s)' <=> RootNew(s)
  BY DEF RootNew
<1> QED
  BY <1>1, <1>3, <1>4, <1>5, <1>7, <1>8, <1>9

\* What the new call of thread t has to know: it carries what the old one carried.
CarriesOn(s, old) ==
    \A c \in InsertCall : CallIs(old, c) /\ ~Pending(c) =>
       \E d \in InsertCall : CallIs(s, d) /\ ~Pending(d)' /\ d.tuple.value = c.tuple.value

LEMMA QuietKeepsOrder ==
    ASSUME IInv, OrderInv, UNCHANGED <<pages, dbobjects>>, NEW t \in Threads,
           NEW s, op' = [op EXCEPT ![t] = s],
           \A c \in InsertCall : CallIs(s, c) => t \in Inserters /\ (OneLevel => AtPlace(c)),
           OneLevel => CarriesOn(s, op[t]),
           OneLevel => RootNew(s)
    PROVE  OrderInv'
<1>1. op'[t] = s /\ \A u \in Threads : u # t => op'[u] = op[u]
  BY DEF IInv, TypeOK
<1>2. InsertersInsert'
  <2> SUFFICES ASSUME NEW u \in Threads, NEW c \in InsertCall, CallIs(op'[u], c)
               PROVE  u \in Inserters
    BY DEF InsertersInsert, CallIs
  <2> QED
    BY <1>1 DEF OrderInv, InsertersInsert
<1>3. ASSUME OneLevel' PROVE InOrder'
  <2>1. OneLevel /\ InOrder
    BY <1>3, QuietPages DEF OrderInv
  <2>2. LeavesAscend' /\ RootLeads'
    BY <2>1, QuietPages DEF InOrder
  <2>3. AtPlaces'
    <3> SUFFICES ASSUME NEW u \in Threads, NEW c \in InsertCall, CallIs(op'[u], c)
                 PROVE  AtPlace(c)'
      BY DEF AtPlaces, CallIs
    <3>1. AtPlace(c)
      BY <1>1, <2>1 DEF InOrder, AtPlaces
    <3> QED
      BY <3>1, QuietPages
  <2>4. RootsNew'
    <3> SUFFICES ASSUME NEW u \in Threads PROVE RootNew(op[u])'
      BY DEF RootsNew
    <3>1. PICK r : r = op'[u] /\ RootNew(r)
      BY <1>1, <2>1 DEF InOrder, RootsNew
    <3>2. RootNew(r)'
      BY <3>1, QuietPages
    <3> QED
      BY <3>1, <3>2 DEF RootNew
  <2>5. LeavesHung'
    <3> SUFFICES ASSUME NEW v \in DOMAIN pages', IsLeaf(v)', v \notin ObjectID, Unhung(v)'
                 PROVE  Carried(v)'
      BY DEF LeavesHung
    <3>1. Carried(v)
      BY <2>1, QuietPages DEF InOrder, LeavesHung
    <3>2. PICK u \in Threads : \E c \in InsertCall :
             CallIs(op[u], c) /\ ~Pending(c) /\ c.tuple.value = v
      BY <3>1 DEF Carried
    <3>3. PICK c \in InsertCall : CallIs(op[u], c) /\ ~Pending(c) /\ c.tuple.value = v
      BY <3>2
    <3>4. CASE u = t
      <4>1. PICK d \in InsertCall : CallIs(s, d) /\ ~Pending(d)' /\ d.tuple.value = v
        BY <3>3, <3>4, <2>1 DEF CarriesOn
      <4> QED
        BY <4>1, <1>1 DEF Carried, CallIs
    <3>5. CASE u # t
      <4>1. op'[u] = op[u] /\ ~Pending(c)'
        BY <3>3, <3>5, <1>1, QuietPages
      <4> QED
        BY <4>1, <3>3 DEF Carried, CallIs
    <3> QED
      BY <3>4, <3>5
  <2> QED
    BY <2>2, <2>3, <2>4, <2>5 DEF InOrder
<1> QED
  BY <1>2, <1>3 DEF OrderInv

-----------------------------------------------------------------------------
(* Searches. *)

AllHung == \A v \in DOMAIN pages : IsLeaf(v) /\ v \notin ObjectID => ~Unhung(v)

\* The leaf that a search for k goes to from the root ends above k.
LEMMA ChildEnds ==
    ASSUME IInv, PagesSorted, Ranks, TreeOK, OneLevel, LeavesAscend, AllHung,
           NEW p \in Spine, NEW k \in Key, NEW q, q = Child(pages[p], k), IsLeaf(q)
    PROVE  Below(q, k)
<1> SUFFICES ASSUME NEW r, r = pages[q].right, r # NULL_PTR PROVE k < FirstKey(r)
  BY DEF Below
<1>1. q \in DOMAIN pages
  BY ChildStarts
<1>2. r \in DOMAIN pages /\ IsLeaf(r) /\ r \notin ObjectID /\ r # q
  BY <1>1, RightIsLater
<1>3. PICK y \in Spine : \E x \in Items(y) : x.value = r
  BY <1>2 DEF AllHung, Unhung
<1>4. y = p
  BY DEF Spine, OneLevel
<1>5. PICK x \in Items(p) : x.value = r
  BY <1>3, <1>4
<1>6. Heads(x.key, r)
  BY <1>5 DEF TreeOK, SpineOK
<1>7. FirstKey(r) = x.key /\ FirstKey(r) \in KeysIn(pages[r].items)
  BY <1>2, <1>6, PageFacts DEF Heads
<1>8. p \in DOMAIN pages
  BY DEF Spine
<1>9. PICK page \in Page, items \in Seq(Tuple) :
         page = pages[p] /\ items = page.items /\ Sorted(items)
  BY <1>8, PageFacts
<1>10. PICK j \in DOMAIN items : items[j] = x
  BY <1>5, <1>9 DEF Items, ToSet
<1>11. PICK n \in Nat : n = Len(items) /\ DOMAIN items = 1 .. n
  BY <1>9, LenProperties
<1>12. k \in Nat /\ x.key \in Nat
  BY <1>9, <1>10, TuplesOf, TreeAssumption
<1>13. SUFFICES ASSUME x.key <= k PROVE FALSE
  BY <1>7, <1>12
<1>14. PICK found : found = PartitionUpper(items, k)
  OBVIOUS
<1>15. found \in 0 .. n
  BY <1>9, <1>11, <1>14, PartitionBounds
<1>16. \A i \in DOMAIN items : items[i].key <= k <=> i <= found
  BY <1>9, <1>12, <1>14, PartitionSplits
<1>17. j <= found
  BY <1>10, <1>13, <1>16
<1>18. found \in 1 .. n /\ found # 0
  BY <1>11, <1>15, <1>17
<1>19. q = items[found].value
  BY <1>9, <1>14, <1>18 DEF Child
<1>20. PICK z : z = items[found] /\ z \in Items(p)
  BY <1>9, <1>11, <1>18 DEF Items, ToSet
<1>21. Heads(z.key, q)
  BY <1>19, <1>20 DEF TreeOK, SpineOK
<1>22. FirstKey(q) = z.key /\ FirstKey(q) \in KeysIn(pages[q].items)
  BY <1>21, PageFacts DEF Heads
<1>23. z.key < x.key
  BY <1>1, <1>2, <1>7, <1>22 DEF LeavesAscend, Below
<1>24. z.key \in Nat
  BY <1>11, <1>18, <1>20, TuplesOf
<1>25. CASE j = found
  BY <1>2, <1>5, <1>10, <1>19, <1>25
<1>26. CASE j # found
  <2>1. j < found
    BY <1>11, <1>17, <1>18, <1>26
  <2>2. x.key < z.key
    BY <2>1, <1>9, <1>10, <1>11, <1>18, <1>20 DEF Sorted
  <2> QED
    BY <2>2, <1>12, <1>23, <1>24
<1> QED
  BY <1>25, <1>26

\* Two inserters are one.
Alone == \A t, u \in Inserters : t = u

\* A thread that has nothing to carry leaves nothing unhung.
LEMMA NoneCarried ==
    ASSUME OrderInv, OneLevel, Alone, NEW t \in Inserters,
           \A c \in InsertCall : CallIs(op[t], c) => Pending(c)
    PROVE  AllHung
<1> SUFFICES ASSUME NEW v \in DOMAIN pages, IsLeaf(v), v \notin ObjectID, Unhung(v)
             PROVE  FALSE
  BY DEF AllHung
<1>1. Carried(v)
  BY DEF OrderInv, InOrder, LeavesHung
<1>2. PICK u \in Threads : \E c \in InsertCall :
         CallIs(op[u], c) /\ ~Pending(c) /\ c.tuple.value = v
  BY <1>1 DEF Carried
<1>3. PICK c \in InsertCall : CallIs(op[u], c) /\ ~Pending(c)
  BY <1>2
<1>4. u = t
  BY <1>3 DEF OrderInv, InsertersInsert, Alone
<1> QED
  BY <1>3, <1>4

LEMMA BeginInsertKeepsOrder ==
    ASSUME IInv, PagesSorted, Ranks, OrderInv, Alone, ObjectID = {0},
           NEW t \in Inserters, NEW o \in ObjectID, NEW k \in Key, BeginInsert(t, o, k)
    PROVE  OrderInv'
<1>1. t \in Threads /\ op[t].at = "idle" /\ UNCHANGED <<pages, dbobjects>>
  BY BeginInsertDoes DEF Threads
<1>2. PICK s \in InsertCall : /\ op' = [op EXCEPT ![t] = s] /\ Reached(s)
                              /\ s.page = dbobjects[o]
  BY <1>1, BeginInsertDoes
<1>3. s.at \in {"insert", "descend"} /\ s.page = dbobjects[0] /\ s.page \in DOMAIN pages
  BY <1>2 DEF Reached, IInv, TypeOK
<1>4. \A c : ~CallIs(op[t], c)
  BY <1>1, CallIsOf
<1>5. \A d : CallIs(s, d) => d = s
  BY <1>3, CallIsOf
<1>6. ASSUME OneLevel PROVE AtPlace(s)
  <2> SUFFICES ASSUME IsLeaf(s.page), NEW q, q = pages[s.page].right, q # NULL_PTR PROVE FALSE
    BY DEF AtPlace, Below
  <2>1. q \in DOMAIN pages /\ IsLeaf(q) /\ q \notin ObjectID
    BY <1>3, RightIsLater
  <2>2. ~Unhung(q)
    BY <2>1, <1>4, <1>6, NoneCarried DEF AllHung
  <2>3. PICK p : p \in DOMAIN pages /\ ~IsLeaf(p)
    BY <2>2 DEF Unhung, Spine
  <2> QED
    BY <2>3, <1>3, <1>6 DEF OneLevel
<1>7. CarriesOn(s, op[t])
  BY <1>4 DEF CarriesOn
<1>8. RootNew(s)
  BY CallsApart DEF RootNew, CallState
<1> QED
  BY <1>1, <1>2, <1>5, <1>6, <1>7, <1>8, QuietKeepsOrder

LEMMA DescendKeepsOrder ==
    ASSUME IInv, PagesSorted, Ranks, KeysInv, OrderInv, Alone, NEW t \in Threads, Descend(t)
    PROVE  OrderInv'
<1>1. PICK c : c = op[t]
  OBVIOUS
<1>2. /\ c.at = "descend" /\ c.page \in DOMAIN pages /\ ~IsLeaf(c.page)
      /\ UNCHANGED <<pages, dbobjects>>
  BY <1>1, DescendDoes
<1>3. ASSUME c \in ScanCall, NEW s \in ScanCall, op' = [op EXCEPT ![t] = s] PROVE OrderInv'
  <2>1. \A d : ~CallIs(s, d) /\ ~CallIs(op[t], d)
    BY <1>1, <1>3, CallIsOf
  <2>2. CarriesOn(s, op[t])
    BY <2>1 DEF CarriesOn
  <2>3. RootNew(s)
    BY <1>3, CallsApart DEF RootNew, CallState
  <2> QED
    BY <2>1, <2>2, <2>3, <1>2, <1>3, QuietKeepsOrder
<1>4. ASSUME c \in InsertCall, NEW s \in InsertCall, op' = [op EXCEPT ![t] = s], Reached(s),
             s.key = c.key, s.page = Child(pages[c.page], c.key)
      PROVE  OrderInv'
  <2>1. CallIs(op[t], c) /\ (\A d : CallIs(op[t], d) => d = c) /\ OnWay(c)
    BY <1>1, <1>4, InCall
  <2>2. t \in Inserters
    BY <2>1, <1>4 DEF OrderInv, InsertersInsert
  <2>3. Pending(c)
    BY <1>2 DEF Pending
  <2>4. c.page \in Spine
    BY <2>1, <1>2 DEF OnWay
  <2>5. PICK p, k : p = c.page /\ k = c.key /\ k \in Key
    BY <1>4 DEF InsertCall
  <2>6. PICK q : q = s.page /\ q = Child(pages[p], k)
    BY <2>5, <1>4
  <2>7. ASSUME OneLevel PROVE AtPlace(s)
    <3>1. LeavesAscend /\ TreeOK
      BY <2>7 DEF OrderInv, InOrder, KeysInv
    <3>2. AllHung
      BY <2>1, <2>2, <2>3, <2>7, NoneCarried
    <3>3. IsLeaf(q) => Below(q, k)
      BY <2>4, <2>5, <2>6, <2>7, <3>1, <3>2, ChildEnds
    <3> QED
      BY <3>3, <2>5, <2>6, <1>4 DEF AtPlace
  <2>8. \A d : CallIs(s, d) => d = s
    BY <1>4, CallIsOf DEF Reached
  <2>9. CarriesOn(s, op[t])
    BY <2>1, <2>3 DEF CarriesOn
  <2>10. RootNew(s)
    BY <1>4, CallsApart DEF RootNew, CallState
  <2> QED
    BY <2>2, <2>7, <2>8, <2>9, <2>10, <1>2, <1>4, QuietKeepsOrder
<1>5. CASE \E s \in ScanCall : c \in ScanCall /\ op' = [op EXCEPT ![t] = s]
  BY <1>3, <1>5
<1>6. CASE ~\E s \in ScanCall : c \in ScanCall /\ op' = [op EXCEPT ![t] = s]
  <2>1. /\ c \in InsertCall
        /\ \E s \in InsertCall : /\ op' = [op EXCEPT ![t] = s] /\ Reached(s)
                                 /\ s.key = c.key /\ s.page = Child(pages[c.page], c.key)
    BY <1>1, <1>6, DescendDoes
  <2> QED
    BY <2>1, <1>4
<1> QED
  BY <1>5, <1>6

LEMMA PopParentKeepsOrder ==
    ASSUME IInv, KeysInv, OrderInv, NEW t \in Threads, PopParent(t)
    PROVE  OrderInv'
<1>1. PICK c : c = op[t]
  OBVIOUS
<1>2. c \in InsertCall /\ c.at = "parent" /\ UNCHANGED <<pages, dbobjects>>
  BY <1>1, PopParentDoes
<1>3. PICK s : op' = [op EXCEPT ![t] = s] /\ TurnsBack(s, c) /\ s.at = "insert" /\ s.tuple = c.tuple
  BY <1>1, PopParentDoes DEF TurnsBack
<1>4. /\ CallIs(op[t], c) /\ (\A d : CallIs(op[t], d) => d = c) /\ OnWay(c)
  BY <1>1, <1>2, InCall
<1>5. t \in Inserters
  BY <1>2, <1>4 DEF OrderInv, InsertersInsert
<1>6. s.page \in Spine
  BY <1>3, <1>4 DEF OnWay, TurnsBack
<1>7. ~IsLeaf(s.page)
  BY <1>6 DEF Spine
<1>8. s \in InsertCall
  <2>1. IInv'
    BY PopParentKeeps
  <2>2. op'[t] = s
    BY <1>3 DEF IInv, TypeOK
  <2>3. s \in CallState
    BY <2>1, <2>2 DEF IInv, TypeOK, CallState
  <2> QED
    BY <2>3, <1>3, CallsApart
<1>9. CallIs(s, s) /\ \A d : CallIs(s, d) => d = s
  BY <1>3, <1>8, CallIsOf
<1>10. AtPlace(s)
  BY <1>7 DEF AtPlace
<1>11. ~Pending(s)'
  BY <1>2, <1>3, <1>7 DEF Pending, IsLeaf
<1>12. CarriesOn(s, op[t])
  BY <1>3, <1>4, <1>8, <1>9, <1>11 DEF CarriesOn
<1>13. RootNew(s)
  BY <1>8, CallsApart DEF RootNew, CallState
<1> QED
  BY <1>2, <1>3, <1>5, <1>9, <1>10, <1>12, <1>13, QuietKeepsOrder

\* A scan, or a step that leaves a call where it is.
LEMMA ScanKeepsOrder ==
    ASSUME IInv, OrderInv, NEW t \in Threads,
           \/ \E o \in ObjectID, a, b \in Key : BeginScan(t, o, a, b)
           \/ Position(t) \/ Advance(t) \/ Fetch(t) \/ EndScan(t)
    PROVE  OrderInv'
<1>1. UNCHANGED <<pages, dbobjects>> /\ \A d : ~CallIs(op[t], d)
  BY ScanDoes DEF NoInsertion
<1>2. PICK s : op' = [op EXCEPT ![t] = s] /\ NoInsertion(s)
  BY ScanDoes
<1>3. CarriesOn(s, op[t])
  BY <1>1 DEF CarriesOn
<1>4. RootNew(s)
  BY <1>2 DEF NoInsertion, RootNew, RootCall
<1> QED
  BY <1>1, <1>2, <1>3, <1>4, QuietKeepsOrder DEF NoInsertion

LEMMA StutterKeepsOrder ==
    ASSUME IInv, OrderInv, UNCHANGED <<pages, dbobjects, op>>
    PROVE  OrderInv'
<1>1. InsertersInsert'
  BY DEF OrderInv, InsertersInsert, CallIs
<1>2. ASSUME OneLevel' PROVE InOrder'
  <2>1. OneLevel /\ InOrder
    BY <1>2, QuietPages DEF OrderInv
  <2>2. LeavesAscend' /\ RootLeads'
    BY <2>1, QuietPages DEF InOrder
  <2>3. AtPlaces'
    <3> SUFFICES ASSUME NEW u \in Threads, NEW c \in InsertCall, CallIs(op[u], c)
                 PROVE  AtPlace(c)'
      BY DEF AtPlaces, CallIs
    <3>1. AtPlace(c)
      BY <2>1 DEF InOrder, AtPlaces
    <3> QED
      BY <3>1, QuietPages
  <2>4. RootsNew'
    BY <2>1 DEF InOrder, RootsNew, RootNew
  <2>5. LeavesHung'
    <3> SUFFICES ASSUME NEW v \in DOMAIN pages', IsLeaf(v)', v \notin ObjectID, Unhung(v)'
                 PROVE  Carried(v)'
      BY DEF LeavesHung
    <3>1. Carried(v)
      BY <2>1, QuietPages DEF InOrder, LeavesHung
    <3>2. PICK u \in Threads : \E c \in InsertCall :
             CallIs(op[u], c) /\ ~Pending(c) /\ c.tuple.value = v
      BY <3>1 DEF Carried
    <3>3. PICK c \in InsertCall : CallIs(op[u], c) /\ ~Pending(c) /\ c.tuple.value = v
      BY <3>2
    <3>4. ~Pending(c)'
      BY <3>3, QuietPages
    <3> QED
      BY <3>3, <3>4 DEF Carried, CallIs
  <2> QED
    BY <2>2, <2>3, <2>4, <2>5 DEF InOrder
<1> QED
  BY <1>1, <1>2 DEF OrderInv

-----------------------------------------------------------------------------
(* Steps that change pages. *)

CarriedBy(s, v) ==
    \E c \in InsertCall : CallIs(s, c) /\ ~Pending(c) /\ c.tuple.value = v
NewHung(s) ==
    \A v \in DOMAIN pages : IsLeaf(v) /\ v \notin ObjectID => ~Unhung(v) \/ CarriedBy(s, v)
NewInOrder(s) ==
    /\ LeavesAscend /\ RootLeads /\ NewHung(s) /\ RootNew(s)
    /\ \A c \in InsertCall : CallIs(s, c) => AtPlace(c)

\* The inserter is the only thread with an insertion.
LEMMA ChangeKeepsOrder ==
    ASSUME IInv, OrderInv, Alone, NEW t \in Inserters, NEW s, op' = [op EXCEPT ![t] = s],
           OneLevel' => NewInOrder(s)'
    PROVE  OrderInv'
<1>1. t \in Threads /\ op'[t] = s /\ \A u \in Threads : u # t => op'[u] = op[u]
  BY DEF IInv, TypeOK, Threads
<1>2. ASSUME NEW u \in Threads, u # t, NEW c \in InsertCall PROVE ~CallIs(op'[u], c)
  <2>1. CallIs(op'[u], c) => u \in Inserters
    BY <1>1, <1>2 DEF OrderInv, InsertersInsert
  <2> QED
    BY <2>1, <1>2 DEF Alone
<1>3. InsertersInsert'
  <2> SUFFICES ASSUME NEW u \in Threads, NEW c \in InsertCall, CallIs(op'[u], c)
               PROVE  u \in Inserters
    BY DEF InsertersInsert, CallIs
  <2> QED
    BY <1>2
<1>4. ASSUME OneLevel' PROVE InOrder'
  <2>1. NewInOrder(s)'
    BY <1>4
  <2>2. LeavesAscend' /\ RootLeads'
    BY <2>1 DEF NewInOrder
  <2>3. AtPlaces'
    <3> SUFFICES ASSUME NEW u \in Threads, NEW c \in InsertCall, CallIs(op'[u], c)
                 PROVE  AtPlace(c)'
      BY DEF AtPlaces, CallIs
    <3>1. u = t /\ CallIs(s, c)
      BY <1>1, <1>2
    <3>2. \A d \in InsertCall : CallIs(s, d) => AtPlace(d)'
      BY <2>1 DEF NewInOrder, CallIs
    <3> QED
      BY <3>1, <3>2
  <2>4. RootsNew'
    <3> SUFFICES ASSUME NEW u \in Threads, NEW r, r = op'[u] PROVE RootNew(r)'
      BY DEF RootsNew, RootNew
    <3>1. CASE u = t
      <4>1. RootNew(s)'
        BY <2>1 DEF NewInOrder
      <4> QED
        BY <3>1, <4>1, <1>1
    <3>2. CASE u # t
      <4>1. r \notin RootCall
        BY <3>2, <1>2 DEF RootCall, CallIs
      <4> QED
        BY <4>1 DEF RootNew
    <3> QED
      BY <3>1, <3>2
  <2>5. LeavesHung'
    <3> SUFFICES ASSUME NEW v \in DOMAIN pages', IsLeaf(v)', v \notin ObjectID, Unhung(v)'
                 PROVE  Carried(v)'
      BY DEF LeavesHung
    <3>1. CarriedBy(s, v)'
      BY <2>1 DEF NewInOrder, NewHung
    <3>2. PICK c \in InsertCall : CallIs(s, c) /\ ~Pending(c)' /\ c.tuple.value = v
      BY <3>1 DEF CarriedBy, CallIs
    <3> QED
      BY <3>2, <1>1 DEF Carried, CallIs
  <2> QED
    BY <2>2, <2>3, <2>4, <2>5 DEF InOrder
<1> QED
  BY <1>3, <1>4 DEF OrderInv

\* Separators that stay keep their leaves hung.
LEMMA HungStays ==
    ASSUME EdgeStays, \A p \in Spine : Items(p) \subseteq Items(p)'
    PROVE  \A v : ~Unhung(v) => ~Unhung(v)'
<1> SUFFICES ASSUME NEW v, NEW p \in Spine, NEW x \in Items(p), x.value = v PROVE ~Unhung(v)'
  BY DEF Unhung
<1>1. p \in Spine' /\ x \in Items(p)'
  BY EdgeKeeps
<1> QED
  BY <1>1 DEF Unhung

\* A step that changes no leaf and adds none leaves them in order.
LEMMA AscendStays ==
    ASSUME IInv, Ranks, LeavesAscend, EdgeStays,
           \A p \in DOMAIN pages : IsLeaf(p) => pages'[p] = pages[p],
           \A p \in DOMAIN pages' : IsLeaf(p)' => p \in DOMAIN pages
    PROVE  LeavesAscend'
<1> SUFFICES ASSUME NEW p \in DOMAIN pages', IsLeaf(p)', NEW k \in KeysIn(pages'[p].items),
                    NEW q, q = pages'[p].right, q # NULL_PTR
             PROVE  k < FirstKey(q)'
  BY DEF LeavesAscend, Below
<1>1. p \in DOMAIN pages /\ IsLeaf(p) /\ pages'[p] = pages[p]
  BY DEF EdgeStays
<1>2. q \in DOMAIN pages /\ IsLeaf(q) /\ q = pages[p].right
  BY <1>1, RightIsLater
<1>3. FirstKey(q)' = FirstKey(q)
  BY <1>2 DEF FirstKey
<1> QED
  BY <1>1, <1>2, <1>3 DEF LeavesAscend, Below

\* The root leads to a leaf as long as it keeps its first child.
LEMMA RootLeadStays ==
    ASSUME IInv, RootLeads, EdgeStays,
           \A p \in DOMAIN pages' : ~IsLeaf(p)' =>
              p \in DOMAIN pages /\ pages'[p].child = pages[p].child
    PROVE  RootLeads'
<1> SUFFICES ASSUME NEW p \in DOMAIN pages', ~IsLeaf(p)', NEW q, q = pages'[p].child
             PROVE  IsLeaf(q)'
  BY DEF RootLeads, IsLeaf
<1>1. p \in DOMAIN pages /\ ~IsLeaf(p) /\ q = pages[p].child
  BY DEF EdgeStays
<1>2. IsLeaf(q)
  BY <1>1 DEF RootLeads, IsLeaf
<1>3. q \in DOMAIN pages
  BY <1>1 DEF IInv, TypeOK, Children, IsLeaf, Page
<1> QED
  BY <1>2, <1>3 DEF EdgeStays

\* The tree still has one level when no page of it is new.
LEMMA OneLevelBefore ==
    ASSUME EdgeStays, dbobjects' = dbobjects, OneLevel'
    PROVE  OneLevel
  BY DEF OneLevel, EdgeStays

\* An insertion at a leaf puts its key there.
LEMMA LeafPutKeepsOrder ==
    ASSUME IInv, PagesSorted, Ranks, KeysInv, OrderInv, Alone,
           NEW t \in Inserters, NEW c \in InsertCall, c = op[t], InsertOK(c), c.at = "insert",
           NEW p, NEW tuple, p = c.page, tuple = c.tuple, PutIn(p, tuple), IsLeaf(p),
           dbobjects' = dbobjects, op' = [op EXCEPT ![t] = Idle]
    PROVE  OrderInv'
<1>1. t \in Threads
  BY DEF Threads
<1>2. CallIs(op[t], c) /\ (\A d : CallIs(op[t], d) => d = c) /\ OnWay(c) /\ Fresh(c)
  BY <1>1, InCall
<1>3. tuple.key = c.key /\ Pending(c)
  BY DEF InsertOK, Pending
<1>4. tuple.key \notin LeafKeys /\ (p \notin ObjectID => FirstKey(p) < tuple.key)
  BY <1>2, <1>3 DEF Fresh, OnWay
<1>5. TreeOK
  BY DEF KeysInv
<1>6. EdgeStays
  BY <1>4, <1>5, LeafPut
<1>7. SUFFICES ASSUME OneLevel' PROVE NewInOrder(Idle)'
  BY ChangeKeepsOrder
<1>8. OneLevel /\ LeavesAscend /\ RootLeads /\ AtPlace(c)
  BY <1>2, <1>6, <1>7, <1>1, OneLevelBefore DEF OrderInv, InOrder, AtPlaces
<1>9. AllHung
  BY <1>2, <1>3, <1>8, NoneCarried
<1>10. /\ p \in DOMAIN pages /\ DOMAIN pages' = DOMAIN pages /\ tuple \in Tuple
       /\ pages'[p] = [pages[p] EXCEPT !.items = Inserted(@, tuple)]
       /\ \A x \in DOMAIN pages : x # p => pages'[x] = pages[x]
       /\ tuple.key \notin KeysIn(pages[p].items)
  BY DEF PutIn
<1>11. pages[p] \in Page /\ pages[p].items \in Seq(Tuple) /\ Sorted(pages[p].items)
  BY <1>10, PageFacts
<1>12. /\ pages'[p].right = pages[p].right
       /\ KeysIn(pages'[p].items) = KeysIn(pages[p].items) \cup {tuple.key}
  <2>1. PICK d : d = Inserted(pages[p].items, tuple)
    OBVIOUS
  <2>2. KeysIn(d) = KeysIn(pages[p].items) \cup {tuple.key}
    BY <2>1, <1>10, <1>11, InsertedSorted
  <2> QED
    BY <2>1, <2>2, <1>10, <1>11 DEF Page
<1>13. LeavesAscend'
  <2> SUFFICES ASSUME NEW x \in DOMAIN pages', IsLeaf(x)', NEW k \in KeysIn(pages'[x].items),
                      NEW q, q = pages'[x].right, q # NULL_PTR
               PROVE  k < FirstKey(q)'
    BY DEF LeavesAscend, Below
  <2>1. x \in DOMAIN pages /\ IsLeaf(x) /\ q = pages[x].right
    BY <1>6, <1>10, <1>12 DEF EdgeStays
  <2>2. q \in DOMAIN pages /\ IsLeaf(q) /\ q \notin ObjectID
    BY <2>1, RightIsLater
  <2>3. FirstKey(q)' = FirstKey(q)
    BY <2>2, <1>6 DEF EdgeStays
  <2>4. k \in KeysIn(pages[x].items) \/ (x = p /\ k = c.key)
    BY <2>1, <1>3, <1>10, <1>12
  <2>5. Below(x, k)
    BY <2>1, <2>4, <1>8 DEF LeavesAscend, AtPlace
  <2> QED
    BY <2>1, <2>3, <2>5 DEF Below
<1>14. \A x \in DOMAIN pages' : ~IsLeaf(x)' =>
          x \in DOMAIN pages /\ ~IsLeaf(x) /\ x # p /\ pages'[x] = pages[x]
  BY <1>6, <1>10 DEF EdgeStays
<1>15. RootLeads'
  BY <1>6, <1>8, <1>14, RootLeadStays
<1>16. NewHung(Idle)'
  <2>1. \A x \in Spine : Items(x) \subseteq Items(x)'
    BY <1>10 DEF Spine, Items
  <2>2. \A v : ~Unhung(v) => ~Unhung(v)'
    BY <2>1, <1>6, HungStays
  <2> SUFFICES ASSUME NEW v \in DOMAIN pages', IsLeaf(v)', v \notin ObjectID PROVE ~Unhung(v)'
    BY DEF NewHung
  <2>3. v \in DOMAIN pages /\ IsLeaf(v)
    BY <1>6, <1>10 DEF EdgeStays
  <2> QED
    BY <2>2, <2>3, <1>9 DEF AllHung
<1>17. RootNew(Idle)' /\ \A d : ~CallIs(Idle, d)
  BY NoCallIs DEF RootNew, RootCall, Idle
<1> QED
  BY <1>13, <1>15, <1>16, <1>17 DEF NewInOrder, CallIs

\* A call hangs the leaf that it carries.
LEMMA NodePutKeepsOrder ==
    ASSUME IInv, PagesSorted, Ranks, KeysInv, OrderInv, Alone,
           NEW t \in Inserters, NEW c \in InsertCall, c = op[t], InsertOK(c), c.at = "insert",
           NEW p, NEW tuple, p = c.page, tuple = c.tuple, PutIn(p, tuple), ~IsLeaf(p),
           dbobjects' = dbobjects, op' = [op EXCEPT ![t] = Idle]
    PROVE  OrderInv'
<1>1. t \in Threads
  BY DEF Threads
<1>2. CallIs(op[t], c) /\ (\A d : CallIs(op[t], d) => d = c) /\ OnWay(c) /\ Fresh(c)
  BY <1>1, InCall
<1>3. ~Pending(c) /\ p \in Spine
  BY <1>2 DEF Pending, OnWay
<1>4. Heads(tuple.key, tuple.value) /\ Unhung(tuple.value)
  BY <1>2, <1>3 DEF Fresh
<1>5. TreeOK
  BY DEF KeysInv
<1>6. EdgeStays
  BY <1>3, <1>4, <1>5, NodePut
<1>7. SUFFICES ASSUME OneLevel' PROVE NewInOrder(Idle)'
  BY ChangeKeepsOrder
<1>8. OneLevel /\ LeavesAscend /\ RootLeads /\ LeavesHung
  BY <1>6, <1>7, OneLevelBefore DEF OrderInv, InOrder
<1>9. /\ p \in DOMAIN pages /\ DOMAIN pages' = DOMAIN pages /\ tuple \in Tuple
      /\ pages'[p] = [pages[p] EXCEPT !.items = Inserted(@, tuple)]
      /\ \A x \in DOMAIN pages : x # p => pages'[x] = pages[x]
      /\ tuple.key \notin KeysIn(pages[p].items)
  BY DEF PutIn
<1>10. pages[p] \in Page /\ pages[p].items \in Seq(Tuple) /\ Sorted(pages[p].items)
  BY <1>9, PageFacts
<1>11. /\ pages'[p].child = pages[p].child
       /\ Items(p)' = Items(p) \cup {tuple}
  <2>1. PICK d : d = Inserted(pages[p].items, tuple)
    OBVIOUS
  <2>2. ToSet(d) = ToSet(pages[p].items) \cup {tuple}
    BY <2>1, <1>9, <1>10, InsertedSorted
  <2> QED
    BY <2>1, <2>2, <1>9, <1>10 DEF Page, Items
<1>12. \A x \in DOMAIN pages' : IsLeaf(x)' => x \in DOMAIN pages
  BY <1>9
<1>13. \A x \in DOMAIN pages : IsLeaf(x) => pages'[x] = pages[x]
  BY <1>9
<1>14. LeavesAscend'
  BY <1>6, <1>8, <1>12, <1>13, AscendStays
<1>15. RootLeads'
  <2>1. \A x \in DOMAIN pages' : ~IsLeaf(x)' =>
           x \in DOMAIN pages /\ pages'[x].child = pages[x].child
    BY <1>9, <1>11
  <2> QED
    BY <2>1, <1>6, <1>8, RootLeadStays
<1>16. NewHung(Idle)'
  <2>1. \A x \in Spine : Items(x) \subseteq Items(x)'
    BY <1>9, <1>11 DEF Spine, Items
  <2>2. \A v : ~Unhung(v) => ~Unhung(v)'
    BY <2>1, <1>6, HungStays
  <2>3. ~Unhung(tuple.value)'
    BY <1>3, <1>6, <1>11, EdgeKeeps DEF Unhung
  <2> SUFFICES ASSUME NEW v \in DOMAIN pages', IsLeaf(v)', v \notin ObjectID PROVE ~Unhung(v)'
    BY DEF NewHung
  <2>4. v \in DOMAIN pages /\ IsLeaf(v)
    BY <1>6, <1>9 DEF EdgeStays
  <2>5. CASE Carried(v)
    <3>1. PICK u \in Threads : \E d \in InsertCall : CallIs(op[u], d) /\ d.tuple.value = v
      BY <2>5 DEF Carried
    <3>2. u = t
      BY <3>1 DEF OrderInv, InsertersInsert, Alone
    <3>3. tuple.value = v
      BY <3>1, <3>2, <1>2
    <3> QED
      BY <2>3, <3>3
  <2>6. CASE ~Carried(v)
    BY <2>2, <2>4, <2>6, <1>8 DEF LeavesHung
  <2> QED
    BY <2>5, <2>6
<1>17. RootNew(Idle)' /\ \A d : ~CallIs(Idle, d)
  BY NoCallIs DEF RootNew, RootCall, Idle
<1> QED
  BY <1>14, <1>15, <1>16, <1>17 DEF NewInOrder, CallIs

\* The tuple that an insertion of the only tree puts somewhere is new there, so
\* the attempt does not panic.
LEMMA TryInsertKeepsOrder ==
    ASSUME IInv, PagesSorted, Ranks, KeysInv, OrderInv, Alone, NEW t \in Threads, TryInsert(t)
    PROVE  OrderInv'
<1>1. PICK c : c = op[t]
  OBVIOUS
<1>2. /\ c \in InsertCall /\ InsertOK(c) /\ c.at = "insert" /\ dbobjects' = dbobjects
      /\ \/ c.tuple.key \in KeysIn(pages[c.page].items)
         \/ PutIn(c.page, c.tuple) /\ op' = [op EXCEPT ![t] = Idle]
         \/ op' = [op EXCEPT ![t] = [c EXCEPT !.at = "split"]] /\ UNCHANGED pages
  BY <1>1, TryInsertDoes
<1>3. CallIs(op[t], c) /\ \A d : CallIs(op[t], d) => d = c
  BY <1>1, <1>2, InCall
<1>4. t \in Inserters
  BY <1>2, <1>3 DEF OrderInv, InsertersInsert
<1>5. c.tuple.key \notin KeysIn(pages[c.page].items)
  BY <1>1, <1>2, KeyIsNew
<1>6. CASE PutIn(c.page, c.tuple) /\ op' = [op EXCEPT ![t] = Idle]
  <2>1. PICK p, tuple : p = c.page /\ tuple = c.tuple /\ PutIn(p, tuple)
    BY <1>6
  <2>2. op' = [op EXCEPT ![t] = Idle]
    BY <1>6
  <2>3. CASE IsLeaf(p)
    BY <2>1, <2>2, <2>3, <1>1, <1>2, <1>4, LeafPutKeepsOrder
  <2>4. CASE ~IsLeaf(p)
    BY <2>1, <2>2, <2>4, <1>1, <1>2, <1>4, NodePutKeepsOrder
  <2> QED
    BY <2>3, <2>4
<1>7. CASE op' = [op EXCEPT ![t] = [c EXCEPT !.at = "split"]] /\ UNCHANGED pages
  <2>1. PICK s : s = [c EXCEPT !.at = "split"]
    OBVIOUS
  <2>2. s.at = "split" /\ s.page = c.page /\ s.key = c.key /\ s.tuple = c.tuple /\ s \in InsertCall
    BY <2>1, <1>2 DEF InsertCall
  <2>3. CallIs(s, s) /\ \A d : CallIs(s, d) => d = s
    BY <2>2, CallIsOf
  <2>4. OneLevel => AtPlace(s)
    <3>1. OneLevel => AtPlace(c)
      BY <1>2, <1>3 DEF OrderInv, InOrder, AtPlaces
    <3> QED
      BY <3>1, <2>2, <1>2 DEF AtPlace
  <2>5. Pending(s)' <=> Pending(c)
    BY <2>2, <1>2, <1>7 DEF Pending, IsLeaf
  <2>6. CarriesOn(s, op[t])
    BY <2>2, <2>3, <2>5, <1>3 DEF CarriesOn
  <2>7. RootNew(s)
    BY <2>2, CallsApart DEF RootNew, CallState
  <2> QED
    BY <2>1, <2>3, <2>4, <2>6, <2>7, <1>2, <1>4, <1>7, QuietKeepsOrder
<1> QED
  BY <1>2, <1>5, <1>6, <1>7

\* A leaf is split between its keys and the next leaf.
LEMMA LeafSplitKeepsOrder ==
    ASSUME IInv, PagesSorted, Ranks, KeysInv, OrderInv, Alone,
           NEW t \in Inserters, NEW c \in InsertCall, c = op[t], InsertOK(c), c.at = "split",
           NEW p, NEW tuple, p = c.page, tuple = c.tuple, NEW s, Halved(p, tuple, s), IsLeaf(p),
           dbobjects' = dbobjects, NEW n, n = AfterSplit(c, s.up), op' = [op EXCEPT ![t] = n]
    PROVE  OrderInv'
<1>1. t \in Threads
  BY DEF Threads
<1>2. CallIs(op[t], c) /\ (\A d : CallIs(op[t], d) => d = c) /\ OnWay(c) /\ Fresh(c)
  BY <1>1, InCall
<1>3. tuple.key = c.key /\ Pending(c)
  BY DEF InsertOK, Pending
<1>4. tuple.key \notin LeafKeys /\ (p \notin ObjectID => FirstKey(p) < tuple.key)
  BY <1>2, <1>3 DEF Fresh, OnWay
<1>5. TreeOK
  BY DEF KeysInv
<1>6. EdgeStays /\ Heads(s.up.key, s.up.value)'
  BY <1>4, <1>5, LeafSplit
<1>7. SUFFICES ASSUME OneLevel' PROVE NewInOrder(n)'
  BY ChangeKeepsOrder
<1>8. OneLevel /\ LeavesAscend /\ RootLeads /\ AtPlace(c)
  BY <1>2, <1>6, <1>7, <1>1, OneLevelBefore DEF OrderInv, InOrder, AtPlaces
<1>9. AllHung
  BY <1>2, <1>3, <1>8, NoneCarried
<1>10. PICK q \in PageID : q = NewID /\ q \notin DOMAIN pages /\ DOMAIN pages \subseteq PageID
  BY NewIDProperties DEF IInv, PageID
<1>11. PICK page : page = pages[p]
  OBVIOUS
<1>12. /\ p \in DOMAIN pages /\ tuple \in Tuple /\ Filled(p)
       /\ s = SplitLeaf(page, p, q, tuple)
       /\ DOMAIN pages' = DOMAIN pages \cup {q}
       /\ pages'[q] = s.right /\ pages'[p] = s.left
       /\ \A x \in DOMAIN pages : x # p => pages'[x] = pages[x]
  BY <1>10, <1>11 DEF Halved, Added
<1>13. page \in Page /\ Sorted(page.items) /\ p \in PageID /\ page.items \in Seq(Tuple)
  BY <1>11, <1>12, PageFacts
<1>14. HasTuples(page)
  BY <1>11, <1>12 DEF HasTuples, Filled
<1>15. tuple.key \notin KeysIn(page.items)
  BY <1>4, <1>11, <1>12, PageFacts
<1>16. /\ s.left.type = "Leaf" /\ s.left.right = q
       /\ s.right.type = "Leaf" /\ s.right.right = page.right
       /\ s.up.value = q
  BY <1>12, <1>13, <1>14, SplitLeafProperties
<1>17. /\ \A a \in KeysIn(s.left.items), b \in KeysIn(s.right.items) : a < b
       /\ SplitKeys(s, page.items, tuple.key)
  BY <1>12, <1>13, <1>14, <1>15, SplitLeafSorted
<1>18. KeysIn(s.left.items) \cup KeysIn(s.right.items) = KeysIn(page.items) \cup {tuple.key}
  BY <1>17 DEF SplitKeys
<1>19. FirstKey(q)' \in KeysIn(s.right.items)
  <2>1. HasTuples(s.right) /\ s.right \in Page
    BY <1>12, <1>13, <1>14, SplitLeafProperties
  <2>2. PICK items \in Seq(Tuple) : items = s.right.items /\ items # <<>>
    BY <2>1 DEF HasTuples, Page
  <2>3. 1 \in DOMAIN items
    BY <2>2, EmptySeq, LenProperties
  <2>4. items[1].key \in KeysIn(items)
    BY <2>3 DEF KeysIn
  <2> QED
    BY <2>2, <2>4, <1>12 DEF FirstKey
<1>20. ASSUME NEW r, r = page.right, r # NULL_PTR
       PROVE  /\ r \in DOMAIN pages /\ FirstKey(r)' = FirstKey(r)
              /\ \A k \in KeysIn(page.items) \cup {tuple.key} : k < FirstKey(r)
  <2>1. r \in DOMAIN pages /\ IsLeaf(r) /\ r \notin ObjectID
    BY <1>11, <1>12, <1>20, RightIsLater
  <2>2. FirstKey(r)' = FirstKey(r)
    BY <2>1, <1>6 DEF EdgeStays
  <2>3. \A k \in KeysIn(page.items) : k < FirstKey(r)
    BY <1>8, <1>11, <1>12, <1>20 DEF LeavesAscend, Below
  <2>4. tuple.key < FirstKey(r)
    BY <1>3, <1>8, <1>11, <1>20 DEF AtPlace, Below
  <2> QED
    BY <2>1, <2>2, <2>3, <2>4
<1>21. LeavesAscend'
  <2> SUFFICES ASSUME NEW x \in DOMAIN pages', IsLeaf(x)', NEW k \in KeysIn(pages'[x].items),
                      NEW y, y = pages'[x].right, y # NULL_PTR
               PROVE  k < FirstKey(y)'
    BY DEF LeavesAscend, Below
  <2>1. CASE x = p
    <3>1. y = q /\ k \in KeysIn(s.left.items)
      BY <2>1, <1>12, <1>16
    <3> QED
      BY <3>1, <1>17, <1>19
  <2>2. CASE x = q
    <3>1. y = page.right /\ k \in KeysIn(page.items) \cup {tuple.key}
      BY <2>2, <1>12, <1>16, <1>18
    <3> QED
      BY <3>1, <1>20
  <2>3. CASE x # p /\ x # q
    <3>1. x \in DOMAIN pages /\ IsLeaf(x) /\ pages'[x] = pages[x]
      BY <2>3, <1>6, <1>12 DEF EdgeStays
    <3>2. y \in DOMAIN pages /\ IsLeaf(y) /\ y \notin ObjectID /\ y = pages[x].right
      BY <3>1, RightIsLater
    <3>3. FirstKey(y)' = FirstKey(y)
      BY <3>2, <1>6 DEF EdgeStays
    <3> QED
      BY <3>1, <3>2, <3>3, <1>8 DEF LeavesAscend, Below
  <2> QED
    BY <2>1, <2>2, <2>3
<1>22. IsLeaf(p)' /\ IsLeaf(q)'
  BY <1>12, <1>16 DEF IsLeaf
<1>23. RootLeads'
  <2>1. \A x \in DOMAIN pages' : ~IsLeaf(x)' =>
           x \in DOMAIN pages /\ pages'[x].child = pages[x].child
    BY <1>12, <1>22
  <2> QED
    BY <2>1, <1>6, <1>8, RootLeadStays
<1>24. /\ n \in InsertCall /\ n.at = "parent" /\ n.tuple = s.up
  <2>1. s.up \in Tuple
    BY <1>12, <1>13, <1>14, SplitLeafProperties
  <2> QED
    BY <2>1 DEF InsertCall, AfterSplit
<1>25. CallIs(n, n) /\ (\A d : CallIs(n, d) => d = n) /\ ~Pending(n)' /\ AtPlace(n)'
  BY <1>24, CallIsOf DEF Pending, AtPlace
<1>26. NewHung(n)'
  <2>1. \A x \in Spine : Items(x) \subseteq Items(x)'
    BY <1>12 DEF Spine, Items
  <2>2. \A v : ~Unhung(v) => ~Unhung(v)'
    BY <2>1, <1>6, HungStays
  <2>3. CarriedBy(n, q)'
    BY <1>16, <1>24, <1>25 DEF CarriedBy, CallIs
  <2> SUFFICES ASSUME NEW v \in DOMAIN pages', IsLeaf(v)', v \notin ObjectID, v # q
               PROVE  ~Unhung(v)'
    BY <2>3 DEF NewHung
  <2>4. v \in DOMAIN pages /\ IsLeaf(v)
    BY <1>6, <1>12 DEF EdgeStays
  <2> QED
    BY <2>2, <2>4, <1>9 DEF AllHung
<1>27. RootNew(n)'
  BY <1>24, CallsApart DEF RootNew, CallState
<1> QED
  BY <1>21, <1>23, <1>25, <1>26, <1>27 DEF NewInOrder, CallIs

\* A tree that splits an inner node has more than one level.
LEMMA NodeSplitKeepsOrder ==
    ASSUME IInv, OrderInv, Alone, NEW t \in Inserters, NEW c \in InsertCall,
           NEW s, Halved(c.page, c.tuple, s), ~IsLeaf(c.page), ObjectID = {0},
           dbobjects' = dbobjects, NEW n, op' = [op EXCEPT ![t] = n]
    PROVE  OrderInv'
<1>1. SUFFICES ASSUME OneLevel' PROVE FALSE
  BY ChangeKeepsOrder
<1>2. PICK q : q = NewID /\ q \notin DOMAIN pages
  BY NewIDProperties DEF IInv
<1>3. /\ c.page \in DOMAIN pages /\ c.tuple \in Tuple
      /\ s = SplitNode(pages[c.page], c.page, q, c.tuple)
      /\ q \in DOMAIN pages' /\ pages'[q] = s.right
  BY <1>2 DEF Halved, Added
<1>4. s.right.type = "Node"
  BY <1>3 DEF SplitNode, NodePage
<1>5. dbobjects[0] \in DOMAIN pages
  BY DEF IInv, TypeOK
<1> QED
  BY <1>1, <1>2, <1>3, <1>4, <1>5 DEF OneLevel, IsLeaf

LEMMA SplitKeepsOrder ==
    ASSUME IInv, PagesSorted, Ranks, KeysInv, OrderInv, Alone, ObjectID = {0},
           NEW t \in Threads, Split(t)
    PROVE  OrderInv'
<1>1. PICK c : c = op[t]
  OBVIOUS
<1>2. /\ c \in InsertCall /\ InsertOK(c) /\ c.at = "split" /\ dbobjects' = dbobjects
      /\ \/ UNCHANGED <<pages, op>>
         \/ \E s : Halved(c.page, c.tuple, s) /\ op' = [op EXCEPT ![t] = AfterSplit(c, s.up)]
  BY <1>1, SplitDoes
<1>3. CallIs(op[t], c)
  BY <1>1, <1>2, InCall
<1>4. t \in Inserters
  BY <1>2, <1>3 DEF OrderInv, InsertersInsert
<1>5. CASE UNCHANGED <<pages, op>>
  BY <1>2, <1>5, StutterKeepsOrder
<1>6. ASSUME NEW s, Halved(c.page, c.tuple, s), op' = [op EXCEPT ![t] = AfterSplit(c, s.up)]
      PROVE  OrderInv'
  <2>1. PICK p, tuple : p = c.page /\ tuple = c.tuple /\ Halved(p, tuple, s)
    BY <1>6
  <2>2. PICK n : n = AfterSplit(c, s.up) /\ op' = [op EXCEPT ![t] = n]
    BY <1>6
  <2>3. CASE IsLeaf(p)
    BY <2>1, <2>2, <2>3, <1>1, <1>2, <1>4, LeafSplitKeepsOrder
  <2>4. CASE ~IsLeaf(p)
    BY <2>1, <2>2, <2>4, <1>2, <1>4, <1>6, NodeSplitKeepsOrder
  <2> QED
    BY <2>3, <2>4
<1> QED
  BY <1>2, <1>5, <1>6

\* A new root is the first inner node.
LEMMA PublishRootKeepsOrder ==
    ASSUME IInv, PagesSorted, Ranks, KeysInv, OrderInv, Alone, ObjectID = {0},
           NEW t \in Threads, PublishRoot(t)
    PROVE  OrderInv'
<1>1. PICK c : c = op[t]
  OBVIOUS
<1>2. PICK r : r = NewID /\ r \notin DOMAIN pages
  BY NewIDProperties DEF IInv
<1>3. PICK s : s = [at |-> "init", root |-> r, call |-> c]
  OBVIOUS
<1>4. /\ c \in InsertCall /\ InsertOK(c) /\ c.at = "parent" /\ RootAdded
      /\ dbobjects' = [dbobjects EXCEPT ![c.object] = NewID]
      /\ op' = [op EXCEPT ![t] = s]
  BY <1>1, <1>2, <1>3, PublishRootDoes
<1>5. CallIs(op[t], c) /\ (\A d : CallIs(op[t], d) => d = c) /\ PlaceOK(c)
  BY <1>1, <1>4, InCall
<1>6. t \in Inserters
  BY <1>4, <1>5 DEF OrderInv, InsertersInsert
<1>7. PICK o \in ObjectID : o = c.object /\ o = 0
  BY <1>4 DEF InsertCall
<1>8. EdgeStays
  BY <1>4, <1>7, RootAdd DEF KeysInv
<1>9. dbobjects'[0] = r
  BY <1>2, <1>4, <1>7 DEF IInv, TypeOK
<1>10. /\ DOMAIN pages' = DOMAIN pages \cup {r} /\ pages'[r] = ZeroPage
       /\ \A x \in DOMAIN pages : pages'[x] = pages[x]
  BY <1>2, <1>4 DEF RootAdded, Added
<1>11. SUFFICES ASSUME OneLevel' PROVE NewInOrder(s)'
  BY <1>4, <1>6, ChangeKeepsOrder
<1>12. \A x \in DOMAIN pages : IsLeaf(x)
  BY <1>2, <1>8, <1>9, <1>11 DEF OneLevel, EdgeStays
<1>13. OneLevel /\ Spine = {}
  BY <1>12 DEF OneLevel, Spine
<1>14. LeavesAscend /\ LeavesHung
  BY <1>13 DEF OrderInv, InOrder
<1>15. ~IsLeaf(r)' /\ pages'[r].child = 0 /\ pages'[r].items = <<>>
  BY <1>10 DEF IsLeaf, ZeroPage
<1>16. LeavesAscend'
  <2>1. \A x \in DOMAIN pages' : IsLeaf(x)' => x \in DOMAIN pages
    BY <1>10, <1>15
  <2>2. \A x \in DOMAIN pages : IsLeaf(x) => pages'[x] = pages[x]
    BY <1>10
  <2> QED
    BY <2>1, <2>2, <1>8, <1>14, AscendStays
<1>17. RootLeads'
  <2>1. 0 \in DOMAIN pages /\ IsLeaf(0)'
    BY <1>8 DEF IInv, FirstLeaves, EdgeStays
  <2>2. \A x \in DOMAIN pages' : ~IsLeaf(x)' => x = r
    BY <1>8, <1>10, <1>12 DEF EdgeStays
  <2> QED
    BY <2>1, <2>2, <1>15 DEF RootLeads, IsLeaf
<1>18. \A d : CallIs(s, d) => d = c
  BY <1>3, CallIsOf
<1>19. CallIs(s, c) /\ ~Pending(c)'
  <2>1. r \in PageID
    BY <1>2, NewIDProperties DEF IInv, PageID
  <2>2. c.parents = <<>>
    BY <1>1, <1>4, PublishRootDoes
  <2>3. s \in RootCall /\ s.call = c
    BY <2>1, <1>3, <1>4 DEF RootCall
  <2> QED
    BY <2>3, <1>4 DEF CallIs, Pending
<1>20. NewHung(s)'
  <2> SUFFICES ASSUME NEW v \in DOMAIN pages', IsLeaf(v)', v \notin ObjectID
               PROVE  CarriedBy(s, v)'
    BY DEF NewHung
  <2>1. v \in DOMAIN pages /\ IsLeaf(v)
    BY <1>8, <1>10, <1>15 DEF EdgeStays
  <2>2. Carried(v)
    BY <2>1, <1>13, <1>14 DEF LeavesHung, Unhung
  <2>3. PICK u \in Threads : \E d \in InsertCall : CallIs(op[u], d) /\ d.tuple.value = v
    BY <2>2 DEF Carried
  <2>4. u = t
    BY <2>3, <1>6 DEF OrderInv, InsertersInsert, Alone
  <2>5. c.tuple.value = v
    BY <2>3, <2>4, <1>5
  <2> QED
    BY <2>5, <1>4, <1>19 DEF CarriedBy, CallIs
<1>21. RootNew(s)'
  <2>1. s.root = r /\ s.call = c
    BY <1>3
  <2>2. c.page # r
    BY <1>2, <1>5 DEF PlaceOK
  <2> QED
    BY <2>1, <2>2, <1>15 DEF RootNew
<1>22. \A d \in InsertCall : CallIs(s, d) => AtPlace(d)'
  BY <1>4, <1>18 DEF AtPlace
<1> QED
  BY <1>16, <1>17, <1>20, <1>21, <1>22 DEF NewInOrder, CallIs

\* Nothing hangs at a new root when it is initialised.
LEMMA InitRootKeepsOrder ==
    ASSUME IInv, PagesSorted, Ranks, KeysInv, OrderInv, Alone, ObjectID = {0},
           NEW t \in Threads, InitRoot(t)
    PROVE  OrderInv'
<1>1. PICK c, r : c = op[t].call /\ r = op[t].root
  OBVIOUS
<1>2. PICK s : s = InNewRoot(c, r)
  OBVIOUS
<1>3. /\ op[t] \in RootCall /\ RootOK(op[t])
      /\ c \in InsertCall /\ InsertOK(c) /\ c.at = "parent" /\ dbobjects' = dbobjects
      /\ RootMade(r, c.page) /\ op' = [op EXCEPT ![t] = s]
  BY <1>1, <1>2, InitRootDoes
<1>4. CallIs(op[t], c) /\ \A d : CallIs(op[t], d) => d = c
  BY <1>1, <1>3, CallIsOf DEF CallIs, RootCall
<1>5. t \in Inserters
  BY <1>3, <1>4 DEF OrderInv, InsertersInsert
<1>6. OnWay(c) /\ c.parents = <<>>
  BY <1>1, <1>3, <1>4 DEF KeysInv, WaysOK, RootOK
<1>7. PICK child : child = c.page /\ Leftmost(child)
  BY <1>6 DEF OnWay
<1>8. EdgeStays
  BY <1>3, <1>7, RootMake DEF KeysInv
<1>9. SUFFICES ASSUME OneLevel' PROVE NewInOrder(s)'
  BY <1>3, <1>5, ChangeKeepsOrder
<1>10. OneLevel /\ LeavesAscend /\ LeavesHung /\ RootNew(op[t])
  BY <1>3, <1>8, <1>9, OneLevelBefore DEF OrderInv, InOrder, RootsNew
<1>11. /\ r \in DOMAIN pages /\ ~IsLeaf(r) /\ child \in DOMAIN pages
       /\ DOMAIN pages' = DOMAIN pages
       /\ pages'[r] = NodePage(<<>>, NULL_PTR, NULL_PTR, child)
       /\ \A x \in DOMAIN pages : x # r => pages'[x] = pages[x]
  BY <1>3, <1>7 DEF RootMade
<1>12. pages[r].items = <<>> /\ child # r
  BY <1>1, <1>3, <1>7, <1>10 DEF RootNew
<1>13. r = dbobjects[0]
  BY <1>10, <1>11 DEF OneLevel
<1>14. \A x \in DOMAIN pages : ~IsLeaf(x) => x = r
  BY <1>10, <1>13 DEF OneLevel
<1>15. LeavesAscend'
  <2>1. \A x \in DOMAIN pages' : IsLeaf(x)' => x \in DOMAIN pages
    BY <1>11
  <2>2. \A x \in DOMAIN pages : IsLeaf(x) => pages'[x] = pages[x]
    BY <1>11
  <2> QED
    BY <2>1, <2>2, <1>8, <1>10, AscendStays
<1>16. RootLeads'
  <2>1. IsLeaf(child)'
    BY <1>8, <1>11, <1>12, <1>14 DEF EdgeStays
  <2>2. \A x \in DOMAIN pages' : ~IsLeaf(x)' => x = r
    BY <1>8, <1>11, <1>14 DEF EdgeStays
  <2>3. pages'[r].child = child
    BY <1>11 DEF NodePage
  <2> QED
    BY <2>1, <2>2, <2>3 DEF RootLeads, IsLeaf
<1>17. ~IsLeaf(r)'
  BY <1>8, <1>11 DEF EdgeStays
<1>18. s \in InsertCall
  <2>1. IInv'
    BY InitRootKeeps
  <2>2. op'[t] = s
    BY <1>3 DEF IInv, TypeOK
  <2>3. s \in CallState
    BY <2>1, <2>2 DEF IInv, TypeOK, CallState
  <2>4. s.at = "insert"
    BY <1>2, <1>3 DEF InsertCall, InNewRoot
  <2> QED
    BY <2>3, <2>4, CallsApart
<1>19. s.at = "insert" /\ s.page = r /\ s.tuple = c.tuple
  BY <1>2, <1>3 DEF InsertCall, InNewRoot
<1>20. CallIs(s, s) /\ (\A d : CallIs(s, d) => d = s) /\ ~Pending(s)' /\ AtPlace(s)'
  BY <1>17, <1>18, <1>19, CallIsOf DEF Pending, AtPlace
<1>21. NewHung(s)'
  <2> SUFFICES ASSUME NEW v \in DOMAIN pages', IsLeaf(v)', v \notin ObjectID
               PROVE  CarriedBy(s, v)'
    BY DEF NewHung
  <2>1. v \in DOMAIN pages /\ IsLeaf(v)
    BY <1>8, <1>11 DEF EdgeStays
  <2>2. Items(r) = {}
    BY <1>12 DEF Items, ToSet
  <2>3. Unhung(v)
    BY <2>2, <1>14 DEF Unhung, Spine
  <2>4. Carried(v)
    BY <2>1, <2>3, <1>10 DEF LeavesHung
  <2>5. PICK u \in Threads : \E d \in InsertCall : CallIs(op[u], d) /\ d.tuple.value = v
    BY <2>4 DEF Carried
  <2>6. u = t
    BY <2>5, <1>5 DEF OrderInv, InsertersInsert, Alone
  <2>7. c.tuple.value = v
    BY <2>5, <2>6, <1>4
  <2> QED
    BY <2>7, <1>18, <1>19, <1>20 DEF CarriedBy, CallIs
<1>22. RootNew(s)'
  BY <1>18, CallsApart DEF RootNew, CallState
<1> QED
  BY <1>15, <1>16, <1>20, <1>21, <1>22 DEF NewInOrder, CallIs

LEMMA InitInOrder == ASSUME Init PROVE OrderInv
<1>1. /\ DOMAIN pages = ObjectID /\ op = [t \in Threads |-> Idle]
      /\ \A p \in DOMAIN pages : IsLeaf(p) /\ pages[p].items = <<>>
  BY DEF Init, LeafPage, IsLeaf
<1>2. \A t \in Threads : op[t] = Idle
  BY <1>1
<1>3. InsertersInsert /\ AtPlaces
  BY <1>2, NoCallIs DEF InsertersInsert, AtPlaces
<1>4. RootsNew
  BY <1>2 DEF RootsNew, RootNew, RootCall, Idle
<1>5. LeavesAscend
  BY <1>1 DEF LeavesAscend, KeysIn
<1>6. LeavesHung /\ RootLeads
  BY <1>1 DEF LeavesHung, RootLeads
<1> QED
  BY <1>3, <1>4, <1>5, <1>6 DEF OrderInv, InOrder

LEMMA NextKeepsOrder ==
    ASSUME ObjectID = {0}, Alone, IInv, PagesSorted, Ranks, KeysInv, OrderInv, [Next]_vars
    PROVE  OrderInv'
<1>1. ASSUME NEW t \in Inserters, NEW o \in ObjectID, NEW k \in Key, BeginInsert(t, o, k)
      PROVE  OrderInv'
  BY <1>1, BeginInsertKeepsOrder
<1>2. ASSUME NEW t \in Threads, Descend(t) PROVE OrderInv'
  BY <1>2, DescendKeepsOrder
<1>3. ASSUME NEW t \in Threads, TryInsert(t) PROVE OrderInv'
  BY <1>3, TryInsertKeepsOrder
<1>4. ASSUME NEW t \in Threads, Split(t) PROVE OrderInv'
  BY <1>4, SplitKeepsOrder
<1>5. ASSUME NEW t \in Threads, PopParent(t) PROVE OrderInv'
  BY <1>5, PopParentKeepsOrder
<1>6. ASSUME NEW t \in Threads, PublishRoot(t) PROVE OrderInv'
  BY <1>6, PublishRootKeepsOrder
<1>7. ASSUME NEW t \in Threads, InitRoot(t) PROVE OrderInv'
  BY <1>7, InitRootKeepsOrder
<1>8. ASSUME NEW t \in Scanners, NEW o \in ObjectID, NEW a \in Key, NEW b \in Key,
             BeginScan(t, o, a, b)
      PROVE  OrderInv'
  BY <1>8, ScanKeepsOrder DEF Threads
<1>9. ASSUME NEW t \in Threads, Position(t) \/ Advance(t) \/ Fetch(t) \/ EndScan(t)
      PROVE  OrderInv'
  BY <1>9, ScanKeepsOrder
<1>10. CASE UNCHANGED vars
  BY <1>10, StutterKeepsOrder DEF vars
<1>11. Inserters \subseteq Threads /\ Scanners \subseteq Threads
  BY DEF Threads
<1> QED
  BY <1>1, <1>2, <1>3, <1>4, <1>5, <1>6, <1>7, <1>8, <1>9, <1>10, <1>11
     DEF Next, InsertStep, ScanStep, Rest

\* As long as one thread inserts, and the only tree has one inner node at most,
\* the leaves are in the order of their keys, every leaf but the first hangs at
\* the root or at the insertion that split it off, and an insertion is at the
\* leaf its key belongs to (164-168, 218-249, 303-304).
THEOREM LeavesInOrder ==
    ASSUME Objects = 1, ~Duplicates, Alone PROVE Spec => []OrderInv
<1>1. ObjectID = {0}
  BY DEF ObjectID
<1>2. Init => OrderInv
  BY InitInOrder
<1>3. IInv /\ PagesSorted /\ Ranks /\ KeysInv /\ OrderInv /\ [Next]_vars => OrderInv'
  BY <1>1, NextKeepsOrder
<1> QED
  BY <1>2, <1>3, Invariant, PagesInOrder, LeavesFormChains, KeysStayApart, PTL DEF Spec

-----------------------------------------------------------------------------
(* The order of the whole chain. *)

\* The keys of leaf p are below the first of leaf q.
Before(p, q) == \A k \in KeysIn(pages[p].items) : k < FirstKey(q)

LEMMA KeysAreNats ==
    ASSUME IInv, PagesSorted, NEW p \in DOMAIN pages
    PROVE  /\ KeysIn(pages[p].items) \subseteq Key /\ KeysIn(pages[p].items) \subseteq Nat
           /\ IsLeaf(p) /\ p \notin ObjectID =>
                 FirstKey(p) \in KeysIn(pages[p].items) /\ FirstKey(p) \in Nat
<1>1. PICK items \in Seq(Tuple) : items = pages[p].items
  BY PageFacts
<1>2. KeysIn(items) \subseteq Key /\ KeysIn(items) \subseteq Nat
  BY KeysAreOfTuples, TreeAssumption
<1> QED
  BY <1>1, <1>2, PageFacts

\* From one leaf to the next, and so to all that follow.
LEMMA LeavesFollow ==
    ASSUME IInv, PagesSorted, LeavesAscend,
           NEW own, NEW idx, NEW len, Ranked(own, idx, len)
    PROVE  \A p, q \in DOMAIN pages :
              IsLeaf(p) /\ IsLeaf(q) /\ own[p] = own[q] /\ idx[p] < idx[q] => Before(p, q)
<1> DEFINE Bad(d, p, q) == /\ IsLeaf(p) /\ IsLeaf(q) /\ own[p] = own[q]
                           /\ idx[q] = idx[p] + d /\ ~Before(p, q)
           I == {d \in Nat : d # 0 /\ \E p, q \in DOMAIN pages : Bad(d, p, q)}
<1>1. ASSUME NEW p \in DOMAIN pages, IsLeaf(p)
      PROVE  own[p] \in ObjectID /\ idx[p] \in Nat /\ len[own[p]] \in Nat /\ idx[p] <= len[own[p]]
  <2>1. own[p] \in ObjectID /\ idx[p] \in 1 .. len[own[p]]
    BY <1>1 DEF Ranked, Linked
  <2>2. len[own[p]] \in Nat
    BY <2>1 DEF Ranked
  <2> QED
    BY <2>1, <2>2
<1>2. I = {}
  <2> SUFFICES ASSUME I # {} PROVE FALSE
    OBVIOUS
  <2>1. PICK d \in I : \A y \in I : d <= y
    <3>1. I \in SUBSET Nat
      OBVIOUS
    <3> HIDE DEF I
    <3> QED
      BY <3>1, Least
  <2>2. PICK p \in DOMAIN pages, q \in DOMAIN pages : Bad(d, p, q)
    OBVIOUS
  <2>3. IsLeaf(p) /\ IsLeaf(q) /\ own[p] = own[q] /\ idx[q] = idx[p] + d /\ ~Before(p, q)
    BY <2>2
  <2>4. PICK m \in Nat : d = m + 1
    OBVIOUS
  <2>5. PICK i \in Nat, j \in Nat, l \in Nat :
           i = idx[p] /\ j = idx[q] /\ l = len[own[p]] /\ j <= l
    BY <2>3, <1>1
  <2>6. i # l
    BY <2>3, <2>4, <2>5
  <2>7. PICK r \in DOMAIN pages : /\ pages[p].right = r /\ IsLeaf(r)
                                  /\ own[r] = own[p] /\ idx[r] = i + 1
    BY <2>3, <2>5, <2>6 DEF Ranked, Linked
  <2>8. r # NULL_PTR /\ r \notin ObjectID
    <3>1. r # NULL_PTR
      BY NewIDProperties, TreeAssumption DEF IInv
    <3> QED
      BY <3>1, <2>3, <2>7, RightIsLater DEF Ranks
  <2>9. Before(p, r)
    BY <2>3, <2>7, <2>8 DEF LeavesAscend, Below, Before
  <2>10. CASE m = 0
    <3>1. idx[q] = idx[r]
      BY <2>3, <2>4, <2>5, <2>7, <2>10
    <3>2. \A a, b \in DOMAIN pages :
             IsLeaf(a) /\ IsLeaf(b) /\ own[a] = own[b] /\ idx[a] = idx[b] => a = b
      BY DEF Ranked
    <3>3. q = r
      BY <3>1, <3>2, <2>3, <2>7
    <3> QED
      BY <3>3, <2>3, <2>9
  <2>11. CASE m # 0
    <3>1. idx[q] = idx[r] + m
      BY <2>3, <2>4, <2>5, <2>7
    <3>2. m \notin I
      BY <2>1, <2>4
    <3>3. ~Bad(m, r, q)
      BY <3>2, <2>11
    <3>4. Before(r, q)
      BY <3>1, <3>3, <2>3, <2>7
    <3>5. FirstKey(r) \in KeysIn(pages[r].items) /\ FirstKey(r) \in Nat
      BY <2>7, <2>8, KeysAreNats
    <3>6. FirstKey(r) < FirstKey(q)
      BY <3>4, <3>5 DEF Before
    <3>7. q \notin ObjectID
      <4>1. \A o \in ObjectID : idx[o] = 1
        BY DEF Ranked
      <4>2. i \in 1 .. l
        BY <2>3, <2>5 DEF Ranked, Linked
      <4>3. j # 1
        BY <4>2, <2>3, <2>4, <2>5
      <4> QED
        BY <4>1, <4>3, <2>5
    <3>8. FirstKey(q) \in Nat
      BY <2>3, <3>7, KeysAreNats
    <3>9. ASSUME NEW k \in KeysIn(pages[p].items) PROVE k < FirstKey(q)
      <4>1. k \in Nat
        BY KeysAreNats
      <4>2. k < FirstKey(r)
        BY <2>9 DEF Before
      <4> QED
        BY <4>1, <4>2, <3>5, <3>6, <3>8
    <3> QED
      BY <3>9, <2>3 DEF Before
  <2> QED
    BY <2>10, <2>11
<1>3. SUFFICES ASSUME NEW p \in DOMAIN pages, NEW q \in DOMAIN pages,
                      IsLeaf(p), IsLeaf(q), own[p] = own[q], idx[p] < idx[q]
               PROVE  Before(p, q)
  OBVIOUS
<1>4. PICK i \in Nat, j \in Nat : i = idx[p] /\ j = idx[q] /\ i < j
  BY <1>1, <1>3
<1>5. PICK d \in Nat : d # 0 /\ j = i + d
  <2>1. j - i \in Nat /\ j - i # 0 /\ j = i + (j - i)
    BY <1>4
  <2> QED
    BY <2>1
<1>6. ~Bad(d, p, q)
  BY <1>2, <1>5
<1> QED
  BY <1>3, <1>4, <1>5, <1>6

\* The keys of a leaf are not below its first one.
LEMMA FirstIsLeast ==
    ASSUME IInv, PagesSorted, NEW p \in DOMAIN pages, NEW k \in KeysIn(pages[p].items)
    PROVE  k \in Nat /\ FirstKey(p) \in Nat /\ FirstKey(p) <= k
<1>1. PICK items \in Seq(Tuple) : items = pages[p].items /\ Sorted(items)
  BY PageFacts
<1>2. PICK n \in Nat : n = Len(items) /\ DOMAIN items = 1 .. n
  BY <1>1, TuplesOf
<1>3. PICK i \in 1 .. n : items[i].key = k
  BY <1>1, <1>2 DEF KeysIn
<1>4. 1 \in 1 .. n /\ items[1].key \in Nat /\ items[i].key \in Nat
  BY <1>2, <1>3, TuplesOf
<1>5. i = 1 \/ items[1].key < items[i].key
  BY <1>1, <1>2, <1>4 DEF Sorted
<1> QED
  BY <1>1, <1>3, <1>4, <1>5 DEF FirstKey

LEMMA AscentSorts ==
    ASSUME IInv, PagesSorted, Ranks, LeavesAscend
    PROVE  ChainSorted
<1>1. PICK own, idx, len : Ranked(own, idx, len)
  BY DEF Ranks
<1>2. PICK R : R = {x \in Key \X Key : x[1] < x[2]}
  OBVIOUS
<1>3. KeysOrdered(R)
  BY <1>2 DEF KeysOrdered
<1>4. ASSUME NEW o \in ObjectID, NEW s, s = ChainKeys(o)
      PROVE  \A i \in 2 .. Len(s) : s[i - 1] < s[i]
  <2>1. LeavesOrdered(o, own, idx, R)
    <3> SUFFICES ASSUME NEW p \in DOMAIN pages, NEW q \in DOMAIN pages, IsLeaf(p), IsLeaf(q),
                        own[p] = o, own[q] = o, idx[p] < idx[q],
                        NEW a \in KeysIn(pages[p].items), NEW b \in KeysIn(pages[q].items)
                 PROVE  <<a, b>> \in R
      BY DEF LeavesOrdered
    <3>1. a < FirstKey(q)
      BY <1>1, LeavesFollow DEF Before
    <3>2. FirstKey(q) <= b /\ FirstKey(q) \in Nat /\ a \in Nat /\ b \in Nat
      BY FirstIsLeast
    <3>3. a \in Key /\ b \in Key
      BY PageFacts, KeysAreOfTuples
    <3>4. a < b
      BY <3>1, <3>2
    <3> QED
      BY <3>3, <3>4, <1>2
  <2>2. s \in Seq(Key) /\ Ordered(s, R)
    BY <2>1, <1>1, <1>3, <1>4, ChainKeysProperties
  <2>3. PICK n \in Nat : n = Len(s) /\ DOMAIN s = 1 .. n
    BY <2>2, LenProperties
  <2> TAKE i \in 2 .. Len(s)
  <2>4. PICK j \in 1 .. n : j = i - 1 /\ j < i /\ i \in 1 .. n
    BY <2>3
  <2>5. <<s[j], s[i]>> \in R
    BY <2>2, <2>3, <2>4 DEF Ordered
  <2> QED
    BY <2>4, <2>5, <1>2
<1> QED
  BY <1>4 DEF ChainSorted

\* The leaf chain is sorted across its pages as long as one thread inserts and
\* the only tree has one inner node at most, whatever is scanned meanwhile: the
\* keys of a split leaf stay below those of the leaf on its right, which knows
\* nothing of the split (218-249, and the test at 449).
THEOREM ChainIsSorted ==
    ASSUME Objects = 1, ~Duplicates, Alone PROVE Spec => [](OneLevel => ChainSorted)
<1>1. IInv /\ PagesSorted /\ Ranks /\ OrderInv => (OneLevel => ChainSorted)
  BY AscentSorts DEF OrderInv, InOrder
<1> QED
  BY <1>1, Invariant, PagesInOrder, LeavesFormChains, LeavesInOrder, PTL

-----------------------------------------------------------------------------
(* The leaf that a search reaches. *)

\* The recursive function in Leafward.
Goes(o, k, down) ==
    down = [n \in 0 .. NewID |->
               IF n = 0 THEN dbobjects[o]
               ELSE LET p == down[n - 1] IN
                    IF pages[p].type = "Leaf" THEN p ELSE Child(pages[p], k)]

LEMMA LeafwardGoes ==
    ASSUME NEW o, NEW k, \E down : Goes(o, k, down)
    PROVE  \E down : Goes(o, k, down) /\ Leafward(o, k) = down[NewID]
<1> DEFINE w == CHOOSE down : Goes(o, k, down)
<1>1. Goes(o, k, w)
  OBVIOUS
<1>2. Leafward(o, k) = w[NewID]
  BY DEF Leafward, Goes
<1> QED
  BY <1>1, <1>2

\* A search ends at the root or at the child of the root, if that is a leaf.
LEMMA LeafwardIs ==
    ASSUME IInv, NEW o \in ObjectID, NEW k, NEW q \in DOMAIN pages, IsLeaf(q),
           NEW root, root = dbobjects[o],
           root = q \/ (~IsLeaf(root) /\ Child(pages[root], k) = q)
    PROVE  Leafward(o, k) = q
<1>1. PICK N \in Nat : N = NewID /\ N >= 1
  BY NewIDProperties DEF IInv
<1> DEFINE D == DOMAIN pages
           To(p) == IF pages[p].type = "Leaf" THEN p ELSE Child(pages[p], k)
           F == [p \in D |-> To(p)]
           f == [n \in Nat |-> F]
<1>2. root \in D
  BY DEF IInv, TypeOK
<1>3. \A p \in D : To(p) \in D
  BY ChildIsPage DEF IInv, IsLeaf
<1>4. F \in [D -> D] /\ \A n \in Nat : f[n] \in [D -> D]
  BY <1>3
<1>5. PICK g \in [0 .. N -> D] : Iteration(g, N, root, f)
  <2> HIDE DEF D, F, f
  <2> QED
    BY <1>2, <1>4, Iterates
<1>6. \A n \in 1 .. N : g[n] = To(g[n - 1])
  <2> TAKE n \in 1 .. N
  <2>1. n - 1 \in 0 .. N /\ n \in Nat
    BY <1>1
  <2>2. g[n] = F[g[n - 1]] /\ g[n - 1] \in D
    BY <2>1, <1>5 DEF Iteration
  <2> QED
    BY <2>2
<1>7. Goes(o, k, g)
  <2>1. ASSUME NEW n \in 0 .. N PROVE g[n] = IF n = 0 THEN root ELSE To(g[n - 1])
    <3> HIDE DEF To
    <3>1. g[0] = root
      BY <1>5 DEF Iteration
    <3>2. n # 0 => n \in 1 .. N
      BY <1>1
    <3> QED
      BY <3>1, <3>2, <1>6
  <2>2. g \in [0 .. N -> D]
    BY <1>5
  <2> QED
    BY <2>1, <2>2, <1>1 DEF Goes
<1>8. PICK w : Goes(o, k, w) /\ Leafward(o, k) = w[N]
  BY <1>1, <1>7, LeafwardGoes
<1>9. \A n \in 0 .. N : w[n] = IF n = 0 THEN root ELSE To(w[n - 1])
  BY <1>1, <1>8 DEF Goes
<1>10. To(root) = q /\ To(q) = q
  BY DEF IsLeaf
<1> HIDE DEF To
<1> DEFINE I == {n \in 1 .. N : w[n] # q}
<1>11. I = {}
  <2> SUFFICES ASSUME I # {} PROVE FALSE
    OBVIOUS
  <2>1. PICK n \in I : \A y \in I : n <= y
    <3>1. I \in SUBSET Nat
      OBVIOUS
    <3> HIDE DEF I
    <3> QED
      BY <3>1, Least
  <2>2. PICK m \in 0 .. N : n = m + 1 /\ m < n
    BY <1>1
  <2>3. w[n] = To(w[m])
    BY <2>2, <1>9
  <2>4. w[m] = root \/ w[m] = q
    <3>1. CASE m = 0
      BY <3>1, <1>9
    <3>2. CASE m # 0
      BY <3>2, <2>1, <2>2
    <3> QED
      BY <3>1, <3>2
  <2> QED
    BY <2>3, <2>4, <1>10
<1>12. w[N] = q
  BY <1>1, <1>11
<1> QED
  BY <1>8, <1>12

\* A key that is between the first keys of a leaf and of the next one, and is in
\* a leaf, is in that one.
Starts(q, k) == q \in ObjectID \/ FirstKey(q) <= k

LEMMA LeafOfKey ==
    ASSUME Objects = 1, IInv, PagesSorted, Ranks, LeavesAscend,
           NEW q \in DOMAIN pages, IsLeaf(q), NEW k \in Key, Starts(q, k), Below(q, k),
           k \in LeafKeys
    PROVE  k \in KeysIn(pages[q].items)
<1>1. PICK own, idx, len : Ranked(own, idx, len)
  BY DEF Ranks
<1>2. PICK x \in DOMAIN pages : IsLeaf(x) /\ k \in KeysIn(pages[x].items)
  BY DEF LeafKeys
<1>3. own[x] = 0 /\ own[q] = 0 /\ ObjectID = {0}
  BY <1>1, <1>2, OneTree
<1>4. PICK i \in Nat, j \in Nat, l \in Nat :
         i = idx[q] /\ j = idx[x] /\ l = len[0] /\ i <= l /\ j <= l /\ j >= 1
  <2>1. idx[q] \in 1 .. len[0] /\ idx[x] \in 1 .. len[0] /\ len[0] \in Nat
    BY <1>1, <1>2, <1>3 DEF Ranked, Linked
  <2> QED
    BY <2>1
<1>5. FirstKey(x) <= k /\ FirstKey(x) \in Nat /\ k \in Nat
  BY <1>2, FirstIsLeast
<1>6. CASE j < i
  <2>1. Before(x, q)
    BY <1>1, <1>2, <1>3, <1>4, <1>6, LeavesFollow
  <2>2. k < FirstKey(q)
    BY <2>1, <1>2 DEF Before
  <2>3. q \notin ObjectID
    BY <1>1, <1>4, <1>6 DEF Ranked
  <2>4. FirstKey(q) \in Nat
    BY <2>3, KeysAreNats
  <2> QED
    BY <2>2, <2>3, <2>4, <1>5 DEF Starts
<1>7. CASE i < j
  <2>1. i # l
    BY <1>4, <1>7
  <2>2. PICK r \in DOMAIN pages : /\ pages[q].right = r /\ IsLeaf(r)
                                  /\ own[r] = 0 /\ idx[r] = i + 1
    BY <2>1, <1>1, <1>3, <1>4 DEF Ranked, Linked
  <2>3. r # NULL_PTR
    BY NewIDProperties, TreeAssumption DEF IInv
  <2>4. r \notin ObjectID /\ FirstKey(r) \in KeysIn(pages[r].items) /\ FirstKey(r) \in Nat
    BY <2>2, <2>3, RightIsLater, KeysAreNats
  <2>5. k < FirstKey(r)
    BY <2>2, <2>3 DEF Below
  <2>6. CASE j = i + 1
    <3>1. r = x
      BY <2>2, <2>6, <1>1, <1>2, <1>3, <1>4 DEF Ranked
    <3> QED
      BY <3>1, <2>5, <1>5
  <2>7. CASE j # i + 1
    <3>1. i + 1 < j
      BY <2>7, <1>7
    <3>2. Before(r, x)
      BY <3>1, <2>2, <1>1, <1>2, <1>3, <1>4, LeavesFollow
    <3>3. FirstKey(r) < FirstKey(x)
      BY <3>2, <2>4 DEF Before
    <3> QED
      BY <3>3, <2>4, <2>5, <1>5
  <2> QED
    BY <2>6, <2>7
<1>8. CASE i = j
  <2>1. q = x
    BY <1>1, <1>2, <1>3, <1>4, <1>8 DEF Ranked
  <2> QED
    BY <2>1, <1>2
<1> QED
  BY <1>4, <1>6, <1>7, <1>8

\* A root that is a leaf is the only one.
LEMMA LeafRoot ==
    ASSUME IInv, Ranks, TreeOK, OneLevel, AllHung, ObjectID = {0},
           NEW root, root = dbobjects[0], IsLeaf(root)
    PROVE  root \in ObjectID /\ pages[root].right = NULL_PTR
<1>1. root \in DOMAIN pages /\ root \in ObjectID
  BY DEF IInv, TypeOK, TreeOK, RootsLeft, Leftmost
<1>2. SUFFICES ASSUME NEW q, q = pages[root].right, q # NULL_PTR PROVE FALSE
  BY <1>1
<1>3. q \in DOMAIN pages /\ IsLeaf(q) /\ q \notin ObjectID
  BY <1>1, <1>2, RightIsLater
<1>4. ~Unhung(q)
  BY <1>3 DEF AllHung
<1>5. PICK p : p \in DOMAIN pages /\ ~IsLeaf(p)
  BY <1>4 DEF Unhung, Spine
<1> QED
  BY <1>5 DEF OneLevel

\* A search goes from the root to a leaf.
LEMMA RootChild ==
    ASSUME IInv, PagesSorted, TreeOK, RootLeads, NEW p \in Spine, NEW k
    PROVE  IsLeaf(Child(pages[p], k))
<1>1. p \in DOMAIN pages /\ ~IsLeaf(p) /\ IsLeaf(pages[p].child)
  BY DEF Spine, RootLeads
<1>2. PICK items \in Seq(Tuple) : items = pages[p].items
  BY <1>1, PageFacts
<1>3. PICK n \in Nat : n = Len(items) /\ DOMAIN items = 1 .. n
  BY <1>2, LenProperties
<1>4. PICK found : found = PartitionUpper(items, k)
  OBVIOUS
<1>5. found \in 0 .. n
  BY <1>2, <1>3, <1>4, PartitionBounds
<1>6. CASE found = 0
  BY <1>1, <1>2, <1>4, <1>6 DEF Child
<1>7. CASE found # 0
  <2>1. found \in DOMAIN items
    BY <1>3, <1>5, <1>7
  <2>2. PICK x \in Items(p) : x = items[found]
    BY <2>1, <1>2 DEF Items, ToSet
  <2>3. IsLeaf(x.value)
    BY <2>2 DEF TreeOK, SpineOK, Heads
  <2> QED
    BY <2>2, <2>3, <1>2, <1>4, <1>7 DEF Child
<1> QED
  BY <1>6, <1>7

\* When no insertion carries a leaf, the search for a key ends at a leaf whose
\* range covers it.
LEMMA SearchEnds ==
    ASSUME IInv, PagesSorted, Ranks, TreeOK, OneLevel, LeavesAscend, RootLeads, AllHung,
           ObjectID = {0}, NEW k \in Key, NEW q, q = Leafward(0, k)
    PROVE  q \in DOMAIN pages /\ IsLeaf(q) /\ Starts(q, k) /\ Below(q, k)
<1>1. PICK root : root = dbobjects[0]
  OBVIOUS
<1>2. root \in DOMAIN pages /\ Leftmost(root) /\ 0 \in ObjectID
  BY <1>1 DEF IInv, TypeOK, TreeOK, RootsLeft
<1>3. CASE IsLeaf(root)
  <2>1. root \in ObjectID /\ pages[root].right = NULL_PTR
    BY <1>1, <1>3, LeafRoot
  <2>2. Leafward(0, k) = root
    BY <1>1, <1>2, <1>3, LeafwardIs
  <2> QED
    BY <2>1, <2>2, <1>2, <1>3 DEF Starts, Below
<1>4. CASE ~IsLeaf(root)
  <2>1. root \in Spine
    BY <1>2, <1>4 DEF Spine
  <2>2. PICK child : child = Child(pages[root], k)
    OBVIOUS
  <2>3. IsLeaf(child)
    BY <2>1, <2>2, RootChild
  <2>4. child \in DOMAIN pages /\ (child \notin ObjectID => FirstKey(child) <= k)
    BY <2>1, <2>2, <2>3, ChildStarts
  <2>5. Below(child, k)
    BY <2>1, <2>2, <2>3, ChildEnds
  <2>6. Leafward(0, k) = child
    BY <2>2, <2>3, <2>4, <1>1, <1>2, <1>4, LeafwardIs
  <2> QED
    BY <2>3, <2>4, <2>5, <2>6 DEF Starts
<1> QED
  BY <1>3, <1>4

\* traverse_to_leaf ends at the leaf that has the key, in a tree no thread is in
\* the middle of an insertion of, as long as one thread inserts and the tree has
\* one inner node at most (164-168, 303-304).
THEOREM SearchesRouted ==
    ASSUME Objects = 1, ~Duplicates, Alone PROVE Spec => [](OneLevel => Routed)
<1>1. ASSUME IInv, PagesSorted, Ranks, KeysInv, OrderInv, OneLevel PROVE Routed
  <2> SUFFICES ASSUME Settled, NEW o \in ObjectID, NEW k \in stored[o],
                      NEW q, q = Leafward(o, k)
               PROVE  k \in KeysIn(pages[q].items)
    BY DEF Routed
  <2>1. ObjectID = {0} /\ o = 0
    BY DEF ObjectID
  <2>2. LeavesAscend /\ LeavesHung /\ RootLeads /\ TreeOK
    BY <1>1 DEF OrderInv, InOrder, KeysInv
  <2>3. AllHung
    <3> SUFFICES ASSUME NEW v \in DOMAIN pages, IsLeaf(v), v \notin ObjectID, Unhung(v)
                 PROVE  FALSE
      BY DEF AllHung
    <3>1. PICK t \in Threads : \E c \in InsertCall : CallIs(op[t], c)
      BY <2>2 DEF LeavesHung, Carried
    <3>2. t \in Inserters
      BY <3>1, <1>1 DEF OrderInv, InsertersInsert
    <3>3. op[t].at = "idle"
      BY <3>2 DEF Settled
    <3> QED
      BY <3>1, <3>3, CallIsOf
  <2>4. k \in LeafKeys /\ k \in Key
    BY <1>1 DEF IInv, StoredInLeaves, LeafKeys
  <2>5. q \in DOMAIN pages /\ IsLeaf(q) /\ Starts(q, k) /\ Below(q, k)
    BY <2>1, <2>2, <2>3, <2>4, <1>1, SearchEnds
  <2> QED
    BY <2>2, <2>4, <2>5, <1>1, LeafOfKey
<1> QED
  BY <1>1, Invariant, PagesInOrder, LeavesFormChains, KeysStayApart, LeavesInOrder, PTL

-----------------------------------------------------------------------------
(* What a scan may find changed when it goes on. *)

LEMMA StoredGrows ==
    ASSUME IInv, [Next]_vars
    PROVE  \A o \in ObjectID : stored[o] \subseteq stored'[o]
<1>1. ASSUME NEW t, TryInsert(t) PROVE \A o \in ObjectID : stored[o] \subseteq stored'[o]
  <2>1. \/ stored' = stored
        \/ \E b, k : stored' = [stored EXCEPT ![b] = @ \cup {k}]
    BY <1>1 DEF TryInsert
  <2> QED
    BY <2>1 DEF IInv, TypeOK
<1>2. ASSUME NEW t, Descend(t) \/ PopParent(t) \/ PublishRoot(t) \/ InitRoot(t) \/ Split(t)
      PROVE  stored' = stored
  BY <1>2 DEF Descend, PopParent, PublishRoot, InitRoot, Split, history
<1>3. ASSUME NEW t, Position(t) \/ Advance(t) \/ Fetch(t) \/ EndScan(t) PROVE stored' = stored
  BY <1>3 DEF Position, Advance, Fetch, EndScan, history
<1>4. ASSUME NEW t, NEW o, NEW a, NEW b, BeginInsert(t, o, a) \/ BeginScan(t, o, a, b)
      PROVE  stored' = stored
  BY <1>4 DEF BeginInsert, BeginScan, history
<1>5. CASE UNCHANGED vars
  BY <1>5 DEF vars, history
<1> QED
  BY <1>1, <1>2, <1>3, <1>4, <1>5 DEF Next, InsertStep, ScanStep, Rest

\* Leaf p gets a key below the next leaf, and loses none but its upper ones.
Opened(p) ==
    \E x \in Key :
       /\ Below(p, x)
       /\ KeysIn(pages'[p].items) \subseteq KeysIn(pages[p].items) \cup {x}
       /\ \A a \in KeysIn(pages[p].items), j \in KeysIn(pages'[p].items) :
             a <= j => a \in KeysIn(pages'[p].items)
LeavesMove ==
    \A p \in DOMAIN pages : IsLeaf(p) => pages'[p].items = pages[p].items \/ Opened(p)
TreeMoves == EdgeStays /\ (OneLevel' => OneLevel /\ LeavesMove)

LEMMA QuietMoves ==
    ASSUME IInv, KeysInv, UNCHANGED <<pages, dbobjects>>
    PROVE  TreeMoves
<1>1. EdgeStays
  BY QuietTree DEF KeysInv
<1>2. LeavesMove
  BY DEF LeavesMove
<1> QED
  BY <1>1, <1>2, OneLevelBefore DEF TreeMoves

LEMMA TryInsertMoves ==
    ASSUME IInv, PagesSorted, KeysInv, OrderInv, NEW t \in Threads, TryInsert(t)
    PROVE  TreeMoves
<1>1. PICK c : c = op[t]
  OBVIOUS
<1>2. /\ c \in InsertCall /\ InsertOK(c) /\ c.at = "insert" /\ dbobjects' = dbobjects
      /\ UNCHANGED pages \/ PutIn(c.page, c.tuple)
  BY <1>1, TryInsertDoes
<1>3. CallIs(op[t], c) /\ OnWay(c) /\ Fresh(c)
  BY <1>1, <1>2, InCall
<1>4. TreeOK
  BY DEF KeysInv
<1>5. CASE UNCHANGED pages
  BY <1>2, <1>5, QuietMoves
<1>6. CASE PutIn(c.page, c.tuple)
  <2>1. PICK p, tuple : p = c.page /\ tuple = c.tuple /\ PutIn(p, tuple)
    BY <1>6
  <2>2. /\ p \in DOMAIN pages /\ tuple \in Tuple /\ tuple.key \notin KeysIn(pages[p].items)
        /\ pages'[p] = [pages[p] EXCEPT !.items = Inserted(@, tuple)]
        /\ \A x \in DOMAIN pages : x # p => pages'[x] = pages[x]
    BY <2>1 DEF PutIn
  <2>3. CASE IsLeaf(p)
    <3>1. tuple.key = c.key /\ Pending(c)
      BY <2>1, <2>3, <1>2 DEF InsertOK, Pending
    <3>2. tuple.key \notin LeafKeys /\ (p \notin ObjectID => FirstKey(p) < tuple.key)
      BY <2>1, <2>3, <3>1, <1>2, <1>3 DEF Fresh, OnWay
    <3>3. EdgeStays
      BY <2>1, <2>3, <3>1, <3>2, <1>2, <1>4, LeafPut
    <3>4. ASSUME OneLevel PROVE Opened(p)
      <4>1. Below(p, tuple.key) /\ tuple.key \in Key
        BY <2>1, <2>2, <2>3, <3>1, <3>4, <1>1, <1>2, <1>3
           DEF OrderInv, InOrder, AtPlaces, AtPlace, Tuple
      <4>2. pages[p] \in Page /\ pages[p].items \in Seq(Tuple) /\ Sorted(pages[p].items)
        BY <2>2, PageFacts
      <4>3. PICK d : d = Inserted(pages[p].items, tuple)
        OBVIOUS
      <4>4. KeysIn(d) = KeysIn(pages[p].items) \cup {tuple.key}
        BY <4>2, <4>3, <2>2, InsertedSorted
      <4>5. pages'[p].items = d
        BY <4>2, <4>3, <2>2 DEF Page
      <4> QED
        BY <4>1, <4>4, <4>5 DEF Opened
    <3>5. OneLevel => LeavesMove
      BY <2>2, <3>4 DEF LeavesMove
    <3> QED
      BY <3>3, <3>5, <1>2, OneLevelBefore DEF TreeMoves
  <2>4. CASE ~IsLeaf(p)
    <3>1. ~Pending(c) /\ p \in Spine
      BY <2>1, <2>4, <1>2, <1>3 DEF Pending, OnWay
    <3>2. Heads(tuple.key, tuple.value) /\ Unhung(tuple.value)
      BY <2>1, <3>1, <1>3 DEF Fresh
    <3>3. EdgeStays
      BY <2>1, <3>1, <3>2, <1>2, <1>4, NodePut
    <3>4. LeavesMove
      BY <2>2, <2>4 DEF LeavesMove
    <3> QED
      BY <3>3, <3>4, <1>2, OneLevelBefore DEF TreeMoves
  <2> QED
    BY <2>3, <2>4
<1> QED
  BY <1>2, <1>5, <1>6

LEMMA SplitMoves ==
    ASSUME IInv, PagesSorted, KeysInv, OrderInv, NEW t \in Threads, Split(t)
    PROVE  TreeMoves
<1>1. PICK c : c = op[t]
  OBVIOUS
<1>2. /\ c \in InsertCall /\ InsertOK(c) /\ c.at = "split" /\ dbobjects' = dbobjects
      /\ UNCHANGED pages \/ \E s : Halved(c.page, c.tuple, s)
  BY <1>1, SplitDoes
<1>3. CallIs(op[t], c) /\ OnWay(c) /\ Fresh(c)
  BY <1>1, <1>2, InCall
<1>4. TreeOK
  BY DEF KeysInv
<1>5. CASE UNCHANGED pages
  BY <1>2, <1>5, QuietMoves
<1>6. ASSUME NEW s, Halved(c.page, c.tuple, s) PROVE TreeMoves
  <2>1. PICK p, tuple : p = c.page /\ tuple = c.tuple /\ Halved(p, tuple, s)
    BY <1>6
  <2>2. PICK q \in PageID : q = NewID
    BY NewIDProperties DEF IInv, PageID
  <2>3. PICK page : page = pages[p]
    OBVIOUS
  <2>4. /\ p \in DOMAIN pages /\ tuple \in Tuple /\ (IsLeaf(p) => Filled(p))
        /\ s = IF IsLeaf(p) THEN SplitLeaf(page, p, q, tuple) ELSE SplitNode(page, p, q, tuple)
        /\ pages'[p] = s.left
        /\ \A x \in DOMAIN pages : x # p => pages'[x] = pages[x]
    BY <2>1, <2>2, <2>3 DEF Halved
  <2>5. CASE IsLeaf(p)
    <3>1. tuple.key = c.key /\ Pending(c)
      BY <2>1, <2>5, <1>2 DEF InsertOK, Pending
    <3>2. tuple.key \notin LeafKeys /\ (p \notin ObjectID => FirstKey(p) < tuple.key)
      BY <2>1, <2>5, <3>1, <1>2, <1>3 DEF Fresh, OnWay
    <3>3. EdgeStays
      BY <2>1, <2>5, <3>2, <1>2, <1>4, LeafSplit
    <3>4. ASSUME OneLevel PROVE Opened(p)
      <4>1. Below(p, tuple.key) /\ tuple.key \in Key
        BY <2>1, <2>4, <2>5, <3>1, <3>4, <1>1, <1>2, <1>3
           DEF OrderInv, InOrder, AtPlaces, AtPlace, Tuple
      <4>2. page \in Page /\ Sorted(page.items) /\ p \in PageID
        BY <2>3, <2>4, PageFacts
      <4>3. HasTuples(page) /\ s = SplitLeaf(page, p, q, tuple)
        BY <2>3, <2>4, <2>5 DEF HasTuples, Filled
      <4>4. tuple.key \notin KeysIn(page.items)
        BY <2>3, <2>4, <2>5, <3>2, PageFacts
      <4>9. tuple \in Tuple
        BY <2>4
      <4>5. /\ \A a \in KeysIn(s.left.items), b \in KeysIn(s.right.items) : a < b
            /\ SplitKeys(s, page.items, tuple.key)
        BY <4>2, <4>3, <4>4, <4>9, SplitLeafSorted
      <4>6. KeysIn(s.left.items) \cup KeysIn(s.right.items) = KeysIn(page.items) \cup {tuple.key}
        BY <4>5 DEF SplitKeys
      <4>7. KeysIn(page.items) \cup {tuple.key} \subseteq Nat
        BY <4>1, <2>3, <2>4, KeysAreNats, TreeAssumption
      <4>8. ASSUME NEW a \in KeysIn(page.items), NEW j \in KeysIn(s.left.items), a <= j
            PROVE  a \in KeysIn(s.left.items)
        <5>1. a \in Nat /\ j \in Nat
          BY <4>6, <4>7
        <5>2. ~(j < a)
          BY <5>1, <4>8
        <5> QED
          BY <5>2, <4>5, <4>6
      <4> QED
        BY <4>1, <4>6, <4>8, <2>3, <2>4 DEF Opened
    <3>5. OneLevel => LeavesMove
      BY <2>4, <3>4 DEF LeavesMove
    <3> QED
      BY <3>3, <3>5, <1>2, OneLevelBefore DEF TreeMoves
  <2>6. CASE ~IsLeaf(p)
    <3>1. ~Pending(c) /\ p \in Spine
      BY <2>1, <2>6, <1>2, <1>3 DEF Pending, OnWay
    <3>2. Heads(tuple.key, tuple.value) /\ Unhung(tuple.value)
      BY <2>1, <3>1, <1>3 DEF Fresh
    <3>3. EdgeStays
      BY <2>1, <3>1, <3>2, <1>2, <1>4, NodeSplit
    <3>4. LeavesMove
      BY <2>4, <2>6 DEF LeavesMove
    <3> QED
      BY <3>3, <3>4, <1>2, OneLevelBefore DEF TreeMoves
  <2> QED
    BY <2>5, <2>6
<1> QED
  BY <1>2, <1>5, <1>6

LEMMA PublishRootMoves ==
    ASSUME IInv, PagesSorted, KeysInv, ObjectID = {0}, NEW t \in Threads, PublishRoot(t)
    PROVE  TreeMoves
<1>1. PICK c : c = op[t]
  OBVIOUS
<1>2. PICK r : r = NewID /\ r \notin DOMAIN pages
  BY NewIDProperties DEF IInv
<1>3. /\ c \in InsertCall /\ RootAdded
      /\ dbobjects' = [dbobjects EXCEPT ![c.object] = r]
  BY <1>1, <1>2, PublishRootDoes
<1>4. PICK o \in ObjectID : o = c.object /\ o = 0
  BY <1>3 DEF InsertCall
<1>5. EdgeStays
  BY <1>2, <1>3, <1>4, RootAdd DEF KeysInv
<1>6. dbobjects'[0] = r
  BY <1>3, <1>4 DEF IInv, TypeOK
<1>7. OneLevel' => OneLevel
  BY <1>2, <1>5, <1>6 DEF OneLevel, EdgeStays
<1>8. LeavesMove
  BY <1>3 DEF LeavesMove, RootAdded
<1> QED
  BY <1>5, <1>7, <1>8 DEF TreeMoves

LEMMA InitRootMoves ==
    ASSUME IInv, PagesSorted, KeysInv, NEW t \in Threads, InitRoot(t)
    PROVE  TreeMoves
<1>1. PICK c, r : c = op[t].call /\ r = op[t].root
  OBVIOUS
<1>2. /\ op[t] \in RootCall /\ RootOK(op[t]) /\ c \in InsertCall /\ dbobjects' = dbobjects
      /\ RootMade(r, c.page)
  BY <1>1, InitRootDoes
<1>3. CallIs(op[t], c) /\ c.parents = <<>>
  BY <1>1, <1>2 DEF CallIs, RootOK
<1>4. PICK child : child = c.page /\ Leftmost(child)
  BY <1>3 DEF KeysInv, WaysOK, OnWay
<1>5. EdgeStays
  BY <1>2, <1>4, RootMake DEF KeysInv
<1>6. LeavesMove
  BY <1>2 DEF LeavesMove, RootMade
<1> QED
  BY <1>2, <1>5, <1>6, OneLevelBefore DEF TreeMoves
-----------------------------------------------------------------------------
(* Scans. *)

\* What a scan has still to yield.
Owed(c) == c.due \ ToSet(c.out)

\* Position idx of leaf p is not behind key k, unless all of the leaf is.
Ahead(p, idx, k) ==
    (\E j \in KeysIn(pages[p].items) : k <= j) => idx <= PartitionLower(pages[p].items, k)
InReach(c) == \A k \in Owed(c) : Starts(c.page, k) /\ Ahead(c.page, c.idx, k)
DueOK(c) == c.due \subseteq stored[0] /\ \A k \in c.due : c.key <= k /\ k <= c.end

ScanSound(c) ==
    /\ DueOK(c)
    /\ c.at = "descend" => c.page \in Spine
    /\ c.at = "position" => Starts(c.page, c.key)
    /\ c.at \in {"next", "fetch"} => InReach(c)
    /\ c.at = "end" => Owed(c) = {}
ScansOK == OneLevel => \A t \in Threads : op[t] \in ScanCall => ScanSound(op[t])

\* A key that is due is in a leaf.
LEMMA DueInLeaves ==
    ASSUME IInv, ObjectID = {0}, NEW c \in ScanCall, DueOK(c), NEW k \in c.due
    PROVE  k \in Key /\ k \in Nat /\ k \in LeafKeys
BY TreeAssumption DEF ScanCall, DueOK, IInv, StoredInLeaves

\* A page with more keys below k has the place of k no further to the left.
LEMMA LowerGrows ==
    ASSUME NEW items \in Seq(Tuple), NEW new \in Seq(Tuple), NEW a, NEW b,
           \A j \in KeysIn(items) : j < a => j \in KeysIn(new) /\ j < b
    PROVE  PartitionLower(items, a) <= PartitionLower(new, b)
<1>1. PICK S, T : S = {j \in KeysIn(items) : j < a} /\ T = {j \in KeysIn(new) : j < b}
  OBVIOUS
<1>2. IsFiniteSet(KeysIn(new))
  BY KeysAreOfTuples
<1>3. IsFiniteSet(T)
  BY <1>1, <1>2, FS_Subset
<1>4. S \subseteq T
  BY <1>1
<1>5. Cardinality(S) <= Cardinality(T)
  BY <1>3, <1>4, FS_Subset
<1> QED
  BY <1>1, <1>5 DEF PartitionLower

\* A key of a leaf stays ahead of a scan when another comes, and when the upper
\* keys go: they go to the next leaf, and with them the scan.
LEMMA AheadStays ==
    ASSUME Objects = 1, IInv, PagesSorted, PagesSorted', IInv', Ranks, LeavesAscend,
           NEW p \in DOMAIN pages, p \in DOMAIN pages', IsLeaf(p), Opened(p),
           NEW k \in Key, k \in LeafKeys, Starts(p, k), NEW idx \in Nat, Ahead(p, idx, k)
    PROVE  Ahead(p, idx, k)'
<1>1. PICK items, new : items = pages[p].items /\ new = pages'[p].items
  OBVIOUS
<1>2. items \in Seq(Tuple) /\ new \in Seq(Tuple)
  <2>1. pages[p] \in Page /\ pages'[p] \in Page
    BY DEF IInv, TypeOK
  <2> QED
    BY <2>1, <1>1 DEF Page
<1>3. PICK x \in Key : /\ Below(p, x) /\ KeysIn(new) \subseteq KeysIn(items) \cup {x}
                       /\ \A a \in KeysIn(items), j \in KeysIn(new) : a <= j => a \in KeysIn(new)
  BY <1>1 DEF Opened
<1>4. KeysIn(items) \subseteq Nat /\ k \in Nat /\ x \in Nat /\ KeysIn(new) \subseteq Nat
  BY <1>2, <1>3, KeysAreOfTuples, TreeAssumption
<1> SUFFICES ASSUME NEW j \in KeysIn(new), k <= j PROVE idx <= PartitionLower(new, k)
  BY <1>1 DEF Ahead
<1>5. CASE \E i \in KeysIn(items) : k <= i
  <2>1. idx <= PartitionLower(items, k)
    BY <1>1, <1>5 DEF Ahead
  <2>2. \A a \in KeysIn(items) : a < k => a \in KeysIn(new) /\ a < k
    <3> SUFFICES ASSUME NEW a \in KeysIn(items), a < k PROVE a \in KeysIn(new)
      OBVIOUS
    <3>1. a <= j
      BY <1>4
    <3> QED
      BY <3>1, <1>3
  <2>3. PartitionLower(items, k) <= PartitionLower(new, k)
    BY <2>2, <1>2, LowerGrows
  <2>4. PartitionLower(items, k) \in Nat /\ PartitionLower(new, k) \in Nat
    BY <1>2, PartitionBounds
  <2> QED
    BY <2>1, <2>3, <2>4
<1>6. CASE \A i \in KeysIn(items) : ~(k <= i)
  <2>1. j = x
    BY <1>3, <1>6
  <2>2. ASSUME pages[p].right # NULL_PTR PROVE k < FirstKey(pages[p].right)
    <3>1. PICK q : q = pages[p].right /\ q # NULL_PTR
      BY <2>2
    <3>2. q \in DOMAIN pages /\ IsLeaf(q) /\ q \notin ObjectID
      BY <3>1, RightIsLater
    <3>3. FirstKey(q) \in Nat
      BY <3>2, KeysAreNats
    <3>4. x < FirstKey(q)
      BY <3>1, <1>3 DEF Below
    <3> QED
      BY <3>1, <3>3, <3>4, <2>1, <1>4
  <2>3. Below(p, k)
    BY <2>2 DEF Below
  <2>4. k \in KeysIn(items)
    BY <2>3, <1>1, LeafOfKey
  <2> QED
    BY <2>4, <1>4, <1>6
<1> QED
  BY <1>5, <1>6

\* What a scan knows stays true while the tree changes.
LEMMA ScanStays ==
    ASSUME Objects = 1, IInv, IInv', PagesSorted, PagesSorted', Ranks, LeavesAscend,
           EdgeStays, LeavesMove, stored[0] \subseteq stored'[0],
           NEW c \in ScanCall, ScanOK(c), ScanSound(c)
    PROVE  ScanSound(c)'
<1>1. ObjectID = {0} /\ DueOK(c)
  BY DEF ObjectID, ScanSound
<1>2. ASSUME NEW p \in DOMAIN pages, IsLeaf(p), NEW k, Starts(p, k)
      PROVE  Starts(p, k)'
  BY <1>2 DEF EdgeStays, Starts
<1>3. ASSUME NEW p \in DOMAIN pages, IsLeaf(p), NEW k \in Owed(c), Starts(p, k),
             NEW idx \in Nat, Ahead(p, idx, k)
      PROVE  Ahead(p, idx, k)'
  <2>1. k \in Key /\ k \in LeafKeys
    BY <1>1, <1>3, DueInLeaves DEF Owed
  <2>2. CASE pages'[p].items = pages[p].items
    BY <2>2, <1>3 DEF Ahead
  <2>3. CASE Opened(p)
    <3>1. p \in DOMAIN pages'
      BY <1>3 DEF EdgeStays
    <3> QED
      BY <3>1, <2>1, <2>3, <1>3, AheadStays
  <2> QED
    BY <2>2, <2>3, <1>3 DEF LeavesMove
<1>4. PICK p, idx : p = c.page /\ idx = c.idx
  OBVIOUS
<1>5. p \in DOMAIN pages /\ idx \in Nat /\ (c.at # "descend" => IsLeaf(p))
  BY <1>4 DEF ScanOK, PlaceOK, ScanCall
<1>6. DueOK(c)'
  BY <1>1 DEF DueOK
<1>7. c.at = "descend" => (c.page \in Spine)'
  BY EdgeKeeps DEF ScanSound
<1>8. c.at = "position" => Starts(c.page, c.key)'
  BY <1>2, <1>4, <1>5 DEF ScanSound
<1>9. ASSUME c.at \in {"next", "fetch"} PROVE InReach(c)'
  <2>1. \A k \in Owed(c) : Starts(p, k) /\ Ahead(p, idx, k)
    BY <1>4, <1>9 DEF ScanSound, InReach
  <2>2. \A k \in Owed(c) : Starts(p, k)' /\ Ahead(p, idx, k)'
    BY <2>1, <1>2, <1>3, <1>5, <1>9
  <2> QED
    BY <2>2, <1>4 DEF InReach, Owed
<1>10. c.at = "end" => (Owed(c) = {})'
  BY DEF ScanSound, Owed
<1> QED
  BY <1>6, <1>7, <1>8, <1>9, <1>10 DEF ScanSound

\* All that a scan needs of the order.
Ascends == OneLevel => LeavesAscend

\* A step of thread t that ends in state s.
LEMMA StepKeepsScans ==
    ASSUME Objects = 1, IInv, IInv', PagesSorted, PagesSorted', Ranks, Ascends,
           TreeMoves, [Next]_vars, ScansOK, NEW t, NEW s, op' = [op EXCEPT ![t] = s],
           OneLevel /\ OneLevel' /\ s \in ScanCall => ScanSound(s)'
    PROVE  ScansOK'
<1> SUFFICES ASSUME OneLevel', NEW u \in Threads, NEW d \in ScanCall, d = op'[u]
             PROVE  ScanSound(d)'
  BY DEF ScansOK
<1>1. OneLevel /\ EdgeStays /\ LeavesMove /\ LeavesAscend
  BY DEF TreeMoves, Ascends
<1>2. stored[0] \subseteq stored'[0]
  BY StoredGrows DEF ObjectID
<1>3. op \in [Threads -> CallState]
  BY DEF IInv, TypeOK, CallState
<1>4. CASE u = t
  BY <1>1, <1>3, <1>4
<1>5. CASE u # t
  <2>1. PICK c : c = op[u]
    OBVIOUS
  <2>2. d = c
    BY <2>1, <1>3, <1>5
  <2>3. c \in ScanCall /\ ScanOK(c)
    BY <2>1, <2>2, CallOf DEF CallOK
  <2>4. ScanSound(c)
    BY <2>1, <2>3, <1>1 DEF ScansOK
  <2>5. ScanSound(c)'
    BY <2>3, <2>4, <1>1, <1>2, ScanStays
  <2> QED
    BY <2>2, <2>5
<1> QED
  BY <1>4, <1>5

LEMMA QuietSound ==
    ASSUME UNCHANGED <<pages, dbobjects, stored>>, NEW s, ScanSound(s)
    PROVE  ScanSound(s)'
<1>1. /\ DueOK(s)' <=> DueOK(s)
      /\ Owed(s)' = Owed(s)
  BY DEF DueOK, Owed
<1>2. Starts(s.page, s.key)' <=> Starts(s.page, s.key)
  BY DEF Starts, FirstKey
<1>3. (s.page \in Spine)' <=> s.page \in Spine
  BY DEF Spine, Leftmost, IsLeaf
<1>4. InReach(s)' <=> InReach(s)
  BY DEF InReach, Owed, Starts, FirstKey, Ahead
<1> QED
  BY <1>1, <1>2, <1>3, <1>4 DEF ScanSound

\* A step that changes no page.
LEMMA QuietKeepsScans ==
    ASSUME Objects = 1, IInv, IInv', PagesSorted, PagesSorted', Ranks, KeysInv, Ascends,
           UNCHANGED <<pages, dbobjects, stored>>, [Next]_vars, ScansOK,
           NEW t, NEW s, op' = [op EXCEPT ![t] = s], OneLevel /\ s \in ScanCall => ScanSound(s)
    PROVE  ScansOK'
<1>1. TreeMoves
  BY QuietMoves
<1>2. OneLevel /\ s \in ScanCall => ScanSound(s)'
  BY QuietSound
<1> QED
  BY <1>1, <1>2, StepKeepsScans DEF TreeMoves

\* What the steps of a scan do.
Quiet == UNCHANGED <<pages, dbobjects, stored>>
SameScan(s, c) == s.key = c.key /\ s.end = c.end /\ s.due = c.due
Arrives(s) == s.at = IF IsLeaf(s.page) THEN "position" ELSE "descend"

LEMMA BeginScanDoes ==
    ASSUME IInv, PagesSorted, NEW t \in Threads,
           NEW o \in ObjectID, NEW a \in Key, NEW b \in Key, BeginScan(t, o, a, b)
    PROVE  /\ Quiet /\ op[t].at = "idle" /\ dbobjects[o] \in DOMAIN pages
           /\ \E s \in ScanCall : /\ op' = [op EXCEPT ![t] = s] /\ s.page = dbobjects[o]
                                  /\ s.key = a /\ s.end = b /\ s.out = <<>>
                                  /\ s.due = {k \in stored[o] : a <= k /\ k <= b}
                                  /\ Arrives(s)
<1>1. Quiet /\ op[t].at = "idle"
  BY DEF Quiet, BeginScan, history
<1>2. PICK root : root = dbobjects[o] /\ root \in DOMAIN pages
  BY DEF IInv, TypeOK
<1>3. PICK r : r = [scan |-> TRUE, object |-> o, key |-> a, end |-> b,
                    page |-> NULL_PTR, parents |-> <<>>, idx |-> 0,
                    out |-> <<>>, due |-> {k \in stored[o] : a <= k /\ k <= b},
                    at |-> "idle"]
  OBVIOUS
<1>4. PICK s : s = Reach(r, root, <<>>)
  OBVIOUS
<1>5. op' = [op EXCEPT ![t] = s]
  BY <1>2, <1>3, <1>4 DEF BeginScan, Step
<1>6. /\ s.page = root /\ s.key = a /\ s.end = b /\ s.out = <<>> /\ s.scan = TRUE
      /\ s.due = {k \in stored[o] : a <= k /\ k <= b}
  BY <1>3, <1>4 DEF Reach
<1>7. s.at = IF IsLeaf(root) THEN "position" ELSE "descend"
  <2>1. s.at = IF pages[root].type = "Node" THEN "descend"
               ELSE IF r.scan THEN "position" ELSE "insert"
    BY <1>3, <1>4 DEF Reach
  <2>2. r.scan = TRUE
    BY <1>3
  <2>3. IsLeaf(root) \/ pages[root].type = "Node"
    BY <1>2, PageFacts
  <2> QED
    BY <2>1, <2>2, <2>3 DEF IsLeaf
<1>8. s \in ScanCall
  <2>1. IInv'
    BY BeginScanKeeps
  <2>2. op \in [Threads -> CallState] /\ op' \in [Threads -> CallState]
    BY <2>1 DEF IInv, TypeOK, CallState
  <2>3. s \in CallState
    BY <2>2, <1>5
  <2>4. s.at \in {"position", "descend"}
    BY <1>7
  <2>5. s \in InsertCall \cup ScanCall
    BY <2>3, <2>4, CallsApart
  <2> QED
    BY <2>5, <1>6 DEF InsertCall
<1> QED
  BY <1>1, <1>2, <1>5, <1>6, <1>7, <1>8 DEF Arrives

\* A scan begins at the root.
LEMMA BeginScanKeepsScans ==
    ASSUME Objects = 1, IInv, IInv', PagesSorted, PagesSorted', Ranks, KeysInv, Ascends,
           [Next]_vars, ScansOK, NEW t \in Threads,
           NEW o \in ObjectID, NEW a \in Key, NEW b \in Key, BeginScan(t, o, a, b)
    PROVE  ScansOK'
<1>1. o = 0 /\ Quiet /\ dbobjects[o] \in DOMAIN pages
  BY BeginScanDoes DEF ObjectID
<1>2. PICK s \in ScanCall : /\ op' = [op EXCEPT ![t] = s] /\ s.page = dbobjects[o]
                            /\ s.key = a /\ s.end = b /\ s.out = <<>>
                            /\ s.due = {k \in stored[o] : a <= k /\ k <= b}
                            /\ Arrives(s)
  BY BeginScanDoes
<1>3. IF IsLeaf(s.page) THEN s.page \in ObjectID ELSE s.page \in Spine
  BY <1>1, <1>2 DEF KeysInv, TreeOK, RootsLeft, Leftmost, Spine
<1>4. DueOK(s)
  BY <1>1, <1>2 DEF DueOK
<1>5. ScanSound(s)
  BY <1>2, <1>3, <1>4 DEF ScanSound, Starts, Arrives
<1> QED
  BY <1>1, <1>2, <1>5, QuietKeepsScans DEF Quiet

\* A scan goes on from an inner node, as a search for its first key.
LEMMA DescendKeepsScans ==
    ASSUME Objects = 1, IInv, IInv', PagesSorted, PagesSorted', Ranks, KeysInv, Ascends,
           [Next]_vars, ScansOK, NEW t \in Threads, Descend(t)
    PROVE  ScansOK'
<1>1. PICK c : c = op[t]
  OBVIOUS
<1>2. UNCHANGED <<pages, dbobjects, stored>> /\ c.at = "descend"
  BY <1>1 DEF Descend, history
<1>3. CASE c \in InsertCall
  <2>1. c \notin ScanCall
    BY <1>3 DEF InsertCall, ScanCall
  <2>2. PICK s \in InsertCall : op' = [op EXCEPT ![t] = s]
    BY <2>1, <1>1, DescendDoes
  <2>3. s \notin ScanCall
    BY <2>2 DEF InsertCall, ScanCall
  <2> QED
    BY <2>2, <2>3, <1>2, QuietKeepsScans
<1>4. CASE c \in ScanCall
  <2>1. c \notin InsertCall
    BY <1>4 DEF InsertCall, ScanCall
  <2>2. PICK s \in ScanCall :
           /\ op' = [op EXCEPT ![t] = s]
           /\ s.page = Child(pages[c.page], c.key) /\ s.key = c.key
           /\ s.end = c.end /\ s.due = c.due /\ s.out = c.out
           /\ s.at = IF IsLeaf(s.page) THEN "position" ELSE "descend"
    BY <2>1, <1>1, DescendDoes
  <2>3. ASSUME OneLevel PROVE ScanSound(s)
    <3>1. ScanSound(c)
      BY <2>3, <1>1, <1>4 DEF ScansOK
    <3>7. PICK q : q = Child(pages[c.page], c.key)
      OBVIOUS
    <3>2. PICK p \in Spine, k \in Key : p = c.page /\ k = c.key /\ q = Child(pages[p], k)
      BY <3>7, <3>1, <1>2, <1>4 DEF ScanSound, ScanCall
    <3>3. TreeOK
      BY DEF KeysInv
    <3>4. IF IsLeaf(q) THEN q \notin ObjectID => FirstKey(q) <= k ELSE q \in Spine
      BY <3>2, <3>3, ChildStarts
    <3>5. s.page = q /\ s.key = k
      BY <3>2, <2>2
    <3>6. DueOK(s)
      BY <3>1, <2>2 DEF ScanSound, DueOK
    <3> QED
      BY <3>4, <3>5, <3>6, <2>2 DEF ScanSound, Starts
  <2> QED
    BY <2>2, <2>3, <1>2, QuietKeepsScans
<1> QED
  BY <1>1, <1>2, <1>3, <1>4, DescendDoes

\* A scan that is told to go on is at a leaf.
LEMMA ScanAtLeaf ==
    ASSUME IInv, PagesSorted, NEW t \in Threads, NEW c, c = op[t],
           c.at \in {"position", "next", "fetch", "end"}
    PROVE  /\ c \in ScanCall /\ c.page \in DOMAIN pages /\ IsLeaf(c.page)
           /\ pages[c.page].items \in Seq(Tuple) /\ Sorted(pages[c.page].items)
           /\ c.idx \in Nat /\ c.key \in Nat /\ c.end \in Nat /\ c.due \subseteq Key
<1>1. c \in ScanCall /\ ScanOK(c)
  BY CallOf, CallsApart DEF CallOK
<1>2. c.page \in DOMAIN pages /\ IsLeaf(c.page)
  BY <1>1 DEF ScanOK, PlaceOK
<1>3. pages[c.page].items \in Seq(Tuple) /\ Sorted(pages[c.page].items)
  BY <1>2, PageFacts
<1>4. c.idx \in Nat /\ c.key \in Nat /\ c.end \in Nat /\ c.due \subseteq Key
  BY <1>1, TreeAssumption DEF ScanCall
<1> QED
  BY <1>1, <1>2, <1>3, <1>4

LEMMA PositionDoes ==
    ASSUME IInv, PagesSorted, NEW t \in Threads, Position(t), NEW c, c = op[t]
    PROVE  /\ Quiet /\ c.at = "position"
           /\ \E s \in ScanCall : /\ op' = [op EXCEPT ![t] = s] /\ s.at = "next"
                                  /\ s.idx = PartitionLower(pages[c.page].items, c.key)
                                  /\ s.page = c.page /\ s.out = c.out /\ SameScan(s, c)
<1>1. Quiet /\ c.at = "position"
  BY DEF Position, Quiet, history
<1>2. c \in ScanCall /\ pages[c.page].items \in Seq(Tuple)
  BY <1>1, ScanAtLeaf
<1>3. PICK idx : idx = PartitionLower(pages[c.page].items, c.key)
  OBVIOUS
<1>4. idx \in Nat
  BY <1>2, <1>3, PartitionBounds
<1>5. PICK s : s = [c EXCEPT !.at = "next", !.idx = idx]
  OBVIOUS
<1>6. op' = [op EXCEPT ![t] = s]
  BY <1>3, <1>5 DEF Position, Step
<1>7. s \in ScanCall /\ s.at = "next" /\ s.idx = idx /\ s.page = c.page /\ s.out = c.out
  BY <1>2, <1>4, <1>5 DEF ScanCall
<1>8. SameScan(s, c)
  BY <1>2, <1>5 DEF ScanCall, SameScan
<1> QED
  BY <1>1, <1>3, <1>6, <1>7, <1>8

\* What a scan goes on to in its first lock scope ...
Advanced(s, c, len, right) ==
    \/ c.idx < len /\ s.at = "fetch" /\ s.page = c.page /\ s.idx = c.idx
    \/ c.idx >= len /\ right # NULL_PTR /\ s.at = "fetch" /\ s.page = right /\ s.idx = 0
    \/ c.idx >= len /\ right = NULL_PTR /\ s.at = "end"

LEMMA AdvanceDoes ==
    ASSUME IInv, PagesSorted, NEW t \in Threads, Advance(t), NEW c, c = op[t]
    PROVE  /\ Quiet /\ c.at = "next"
           /\ \E s \in ScanCall :
                 /\ op' = [op EXCEPT ![t] = s] /\ s.out = c.out /\ SameScan(s, c)
                 /\ Advanced(s, c, Len(pages[c.page].items), pages[c.page].right)
<1>1. Quiet /\ c.at = "next"
  BY DEF Advance, Quiet, history
<1>2. PICK p : p = c.page
  OBVIOUS
<1>3. c \in ScanCall /\ p \in DOMAIN pages /\ IsLeaf(p) /\ pages[p].items \in Seq(Tuple)
  BY <1>1, <1>2, ScanAtLeaf
<1>10. PICK right : right = pages[p].right
  OBVIOUS
<1>4. PICK len \in Nat : len = Len(pages[p].items) /\ right = pages[p].right
  BY <1>10, <1>3, TuplesOf
<1>5. right = NULL_PTR \/ right \in PageID
  BY <1>3, <1>4, PageFacts DEF Page, Pointer
<1>9. c.idx \in Nat
  BY <1>1, ScanAtLeaf
<1>6. CASE c.idx < len
  <2>1. PICK s : s = [c EXCEPT !.at = "fetch"]
    OBVIOUS
  <2>2. op' = [op EXCEPT ![t] = s]
    BY <2>1, <1>2, <1>4, <1>9, <1>6 DEF Advance, Step
  <2>3. /\ s \in ScanCall /\ s.at = "fetch" /\ s.page = p /\ s.idx = c.idx
        /\ s.out = c.out /\ SameScan(s, c)
    BY <2>1, <1>2, <1>3 DEF ScanCall, SameScan
  <2>4. Advanced(s, c, len, right)
    BY <2>3, <1>2, <1>6 DEF Advanced
  <2> QED
    BY <2>2, <2>3, <2>4, <1>1, <1>2, <1>4
<1>7. CASE c.idx >= len /\ right # NULL_PTR
  <2>1. PICK s : s = [c EXCEPT !.at = "fetch", !.page = right, !.idx = 0]
    OBVIOUS
  <2>2. op' = [op EXCEPT ![t] = s]
    BY <2>1, <1>2, <1>4, <1>9, <1>7 DEF Advance, Step
  <2>3. /\ s \in ScanCall /\ s.at = "fetch" /\ s.page = right /\ s.idx = 0
        /\ s.out = c.out /\ SameScan(s, c)
    BY <2>1, <1>3, <1>5, <1>7 DEF ScanCall, SameScan
  <2>4. Advanced(s, c, len, right)
    BY <2>3, <1>7 DEF Advanced
  <2> QED
    BY <2>2, <2>3, <2>4, <1>1, <1>2, <1>4
<1>8. CASE c.idx >= len /\ right = NULL_PTR
  <2>1. PICK s : s = [c EXCEPT !.at = "end"]
    OBVIOUS
  <2>2. op' = [op EXCEPT ![t] = s]
    BY <2>1, <1>2, <1>4, <1>9, <1>8 DEF Advance, Step
  <2>3. s \in ScanCall /\ s.at = "end" /\ s.out = c.out /\ SameScan(s, c)
    BY <2>1, <1>3 DEF ScanCall, SameScan
  <2>4. Advanced(s, c, len, right)
    BY <2>3, <1>8 DEF Advanced
  <2> QED
    BY <2>2, <2>3, <2>4, <1>1, <1>2, <1>4
<1> QED
  BY <1>4, <1>6, <1>7, <1>8, <1>9

\* ... and in the second, where the key at its position is k.
Fetched(s, c, k) ==
    \/ k > c.end /\ s.at = "end" /\ s.out = c.out
    \/ /\ k <= c.end /\ s.at = "next" /\ s.page = c.page /\ s.idx = c.idx + 1
       /\ s.out = Append(c.out, k)

LEMMA FetchDoes ==
    ASSUME IInv, PagesSorted, NEW t \in Threads, Fetch(t), NEW c, c = op[t],
           NEW items, items = pages[c.page].items, NEW n, n = c.idx + 1
    PROVE  /\ Quiet /\ c.at = "fetch"
           /\ \/ c.idx >= Len(items) /\ op' = [op EXCEPT ![t] = Panicked]
              \/ /\ n \in DOMAIN items
                 /\ \E s \in ScanCall : /\ op' = [op EXCEPT ![t] = s] /\ SameScan(s, c)
                                        /\ Fetched(s, c, items[n].key)
<1>1. Quiet /\ c.at = "fetch"
  BY DEF Fetch, Quiet, history
<1>6. c \in ScanCall /\ items \in Seq(Tuple) /\ c.idx \in Nat /\ c.end \in Nat
  BY <1>1, ScanAtLeaf
<1>7. c.end \in Nat
  BY <1>6
<1>2. /\ c \in ScanCall /\ items \in Seq(Tuple) /\ c.idx \in Nat /\ c.end \in Nat
      /\ c.out \in Seq(Key)
  BY <1>6 DEF ScanCall
<1>3. PICK len \in Nat : len = Len(items) /\ DOMAIN items = 1 .. len
  BY <1>2, TuplesOf
<1>4. CASE c.idx >= len
  <2>1. op' = [op EXCEPT ![t] = Panicked]
    BY <1>2, <1>3, <1>4 DEF Fetch, Step
  <2> QED
    BY <2>1, <1>1, <1>3, <1>4
<1>5. CASE c.idx < len
  <2>1. n \in DOMAIN items /\ n \in Nat
    BY <1>2, <1>3, <1>5
  <2>2. PICK k \in Nat : k = items[n].key /\ k \in Key
    BY <2>1, <1>2, TuplesOf
  <2>3. CASE k > c.end
    <3>1. PICK s : s = [c EXCEPT !.at = "end"]
      OBVIOUS
    <3>5. ~(items[c.idx + 1].key <= c.end)
      <4>1. ~(k <= c.end)
        BY <2>2, <2>3, <1>7
      <4> QED
        BY <4>1, <2>2
    <3>2. op' = [op EXCEPT ![t] = s]
      BY <3>1, <3>5, <1>2, <1>3, <1>5 DEF Fetch, Step
    <3>3. s \in ScanCall /\ s.at = "end" /\ s.out = c.out /\ SameScan(s, c)
      BY <3>1, <1>2 DEF ScanCall, SameScan
    <3>4. Fetched(s, c, k)
      BY <3>3, <2>3 DEF Fetched
    <3> QED
      BY <3>2, <3>3, <3>4, <2>1, <2>2, <1>1
  <2>4. CASE k <= c.end
    <3>1. PICK out : out = Append(c.out, k) /\ out \in Seq(Key)
      BY <2>2, <1>2, AppendProperties
    <3>2. PICK s : s = [c EXCEPT !.at = "next", !.idx = n, !.out = out]
      OBVIOUS
    <3>6. ~(items[c.idx + 1].key > c.end)
      <4>1. ~(k > c.end)
        BY <2>2, <2>4, <1>7
      <4> QED
        BY <4>1, <2>2
    <3>7. op' = [op EXCEPT ![t] = [c EXCEPT !.at = "next", !.idx = c.idx + 1,
                                            !.out = Append(c.out, items[c.idx + 1].key)]]
      BY <3>6, <1>2, <1>3, <1>5 DEF Fetch, Step
    <3>3. op' = [op EXCEPT ![t] = s]
      BY <3>1, <3>2, <3>7, <2>2
    <3>4. /\ s \in ScanCall /\ s.at = "next" /\ s.page = c.page /\ s.idx = n /\ s.out = out
          /\ SameScan(s, c)
      BY <3>1, <3>2, <2>1, <1>2 DEF ScanCall, SameScan
    <3>5. Fetched(s, c, k)
      BY <3>1, <3>4, <2>4 DEF Fetched
    <3> QED
      BY <3>3, <3>4, <3>5, <2>1, <2>2, <1>1
  <2>5. k > c.end \/ k <= c.end
    BY <2>2, <1>7
  <2> QED
    BY <2>3, <2>4, <2>5
<1> QED
  BY <1>2, <1>3, <1>4, <1>5

\* The first position of a scan is not behind any key of its range.
LEMMA PositionKeepsScans ==
    ASSUME Objects = 1, IInv, IInv', PagesSorted, PagesSorted', Ranks, KeysInv, Ascends,
           [Next]_vars, ScansOK, NEW t \in Threads, Position(t)
    PROVE  ScansOK'
<1>1. PICK c : c = op[t]
  OBVIOUS
<1>2. Quiet /\ c.at = "position"
  BY <1>1, PositionDoes
<1>3. /\ c \in ScanCall /\ c.page \in DOMAIN pages /\ IsLeaf(c.page)
      /\ pages[c.page].items \in Seq(Tuple)
      /\ c.idx \in Nat /\ c.key \in Nat /\ c.end \in Nat /\ c.due \subseteq Key
  BY <1>1, <1>2, ScanAtLeaf
<1>4. PICK p, items, a : p = c.page /\ items = pages[p].items /\ a = c.key
  OBVIOUS
<1>5. PICK s \in ScanCall : /\ op' = [op EXCEPT ![t] = s] /\ s.at = "next"
                            /\ s.idx = PartitionLower(items, a)
                            /\ s.page = p /\ s.out = c.out /\ SameScan(s, c)
  BY <1>1, <1>4, PositionDoes
<1>6. ASSUME OneLevel PROVE ScanSound(s)
  <2>1. DueOK(c) /\ Starts(p, a)
    BY <1>1, <1>2, <1>3, <1>4, <1>6 DEF ScansOK, ScanSound
  <2>2. ASSUME NEW k \in c.due
        PROVE  Starts(p, k) /\ PartitionLower(items, a) <= PartitionLower(items, k)
    <3>1. k \in Nat /\ a \in Nat /\ a <= k
      BY <2>1, <2>2, <1>3, <1>4, TreeAssumption DEF DueOK
    <3>2. p \notin ObjectID => FirstKey(p) \in Nat
      BY <1>3, <1>4, KeysAreNats
    <3>3. Starts(p, k)
      BY <2>1, <3>1, <3>2 DEF Starts
    <3>4. KeysIn(items) \subseteq Nat
      BY <1>3, <1>4, KeysAreNats
    <3>5. \A j \in KeysIn(items) : j < a => j \in KeysIn(items) /\ j < k
      BY <3>1, <3>4
    <3>6. PartitionLower(items, a) <= PartitionLower(items, k)
      BY <3>5, <1>3, <1>4, LowerGrows
    <3> QED
      BY <3>3, <3>6
  <2>3. InReach(s)
    BY <2>2, <1>4, <1>5 DEF InReach, Owed, Ahead, SameScan
  <2>4. DueOK(s)
    BY <2>1, <1>5 DEF DueOK, SameScan
  <2> QED
    BY <2>3, <2>4, <1>5 DEF ScanSound
<1> QED
  BY <1>2, <1>5, <1>6, QuietKeepsScans DEF Quiet

\* A key that a scan still owes is behind its position in the leaf, when it is
\* below the next leaf.
LEMMA OwedIsAhead ==
    ASSUME Objects = 1, IInv, PagesSorted, Ranks, LeavesAscend,
           NEW c \in ScanCall, DueOK(c), InReach(c), NEW k \in Owed(c),
           NEW p \in DOMAIN pages, p = c.page, IsLeaf(p), Below(p, k),
           NEW items, items = pages[p].items
    PROVE  \E i \in DOMAIN items : items[i].key = k /\ c.idx < i
<1>1. k \in c.due /\ ObjectID = {0}
  BY DEF Owed, ObjectID
<1>2. k \in Key /\ k \in Nat /\ k \in LeafKeys
  BY <1>1, DueInLeaves
<1>3. Starts(p, k) /\ Ahead(p, c.idx, k)
  BY DEF InReach
<1>4. k \in KeysIn(items)
  BY <1>2, <1>3, LeafOfKey
<1>5. items \in Seq(Tuple) /\ Sorted(items)
  BY PageFacts
<1>6. PICK i \in DOMAIN items : items[i].key = k
  BY <1>4 DEF KeysIn
<1>7. c.idx <= PartitionLower(items, k)
  BY <1>2, <1>3, <1>4 DEF Ahead
<1>8. ~(i <= PartitionLower(items, k))
  <2>1. items[i].key < k <=> i <= PartitionLower(items, k)
    BY <1>2, <1>5, PartitionSplits
  <2> QED
    BY <2>1, <1>2, <1>6
<1>9. PartitionLower(items, k) \in Nat /\ i \in Nat /\ c.idx \in Nat
  BY <1>5, <1>6, PartitionBounds, TuplesOf DEF ScanCall
<1> QED
  BY <1>6, <1>7, <1>8, <1>9

\* A scan leaves a page when it owes no key of it.
LEMMA AdvanceKeepsScans ==
    ASSUME Objects = 1, IInv, IInv', PagesSorted, PagesSorted', Ranks, KeysInv, Ascends,
           [Next]_vars, ScansOK, NEW t \in Threads, Advance(t)
    PROVE  ScansOK'
<1>1. PICK c : c = op[t]
  OBVIOUS
<1>2. Quiet /\ c.at = "next"
  BY <1>1, AdvanceDoes
<1>3. /\ c \in ScanCall /\ c.page \in DOMAIN pages /\ IsLeaf(c.page)
      /\ pages[c.page].items \in Seq(Tuple)
      /\ c.idx \in Nat /\ c.key \in Nat /\ c.end \in Nat /\ c.due \subseteq Key
  BY <1>1, <1>2, ScanAtLeaf
<1>4. PICK p, items, right : p = c.page /\ items = pages[p].items /\ right = pages[p].right
  OBVIOUS
<1>5. Len(items) \in Nat /\ DOMAIN items = 1 .. Len(items) /\ p \in DOMAIN pages /\ IsLeaf(p)
  BY <1>3, <1>4, TuplesOf
<1>6. ASSUME OneLevel
      PROVE  DueOK(c) /\ InReach(c) /\ LeavesAscend
  BY <1>1, <1>2, <1>3, <1>6 DEF ScansOK, ScanSound, Ascends
<1>7. ASSUME OneLevel, c.idx >= Len(items), NEW k \in Owed(c), Below(p, k) PROVE FALSE
  <2>1. PICK i \in DOMAIN items : items[i].key = k /\ c.idx < i
    BY <1>3, <1>4, <1>5, <1>6, <1>7, OwedIsAhead
  <2> QED
    BY <2>1, <1>3, <1>5, <1>7
<1>8. PICK s \in ScanCall : /\ op' = [op EXCEPT ![t] = s] /\ s.out = c.out /\ SameScan(s, c)
                            /\ Advanced(s, c, Len(items), right)
  BY <1>1, <1>4, AdvanceDoes
<1>9. ASSUME OneLevel PROVE ScanSound(s)
  <2>1. DueOK(s) /\ Owed(s) = Owed(c)
    BY <1>6, <1>8, <1>9 DEF DueOK, SameScan, Owed
  <2>2. CASE s.at = "fetch" /\ s.page = c.page /\ s.idx = c.idx
    BY <2>1, <2>2, <1>6, <1>9 DEF ScanSound, InReach
  <2>3. CASE c.idx >= Len(items) /\ right # NULL_PTR /\ s.at = "fetch" /\ s.page = right /\ s.idx = 0
    <3>1. right \in DOMAIN pages /\ IsLeaf(right) /\ right \notin ObjectID
      BY <2>3, <1>4, <1>5, RightIsLater
    <3>2. ASSUME NEW k \in Owed(c) PROVE Starts(right, k) /\ Ahead(right, 0, k)
      <4>1. k \in Nat
        BY <3>2, <1>3, TreeAssumption DEF Owed
      <4>2. FirstKey(right) \in Nat
        BY <3>1, KeysAreNats
      <4>3. ~(k < FirstKey(right))
        BY <2>3, <3>2, <1>4, <1>7, <1>9 DEF Below
      <4>4. Starts(right, k)
        BY <4>1, <4>2, <4>3 DEF Starts
      <4>5. pages[right].items \in Seq(Tuple)
        BY <3>1, PageFacts
      <4>6. PartitionLower(pages[right].items, k) \in 0 .. Len(pages[right].items)
        BY <4>5, PartitionBounds
      <4>7. 0 <= PartitionLower(pages[right].items, k)
        BY <4>6
      <4> QED
        BY <4>4, <4>7 DEF Ahead
    <3>3. InReach(s)
      BY <2>1, <2>3, <3>2 DEF InReach
    <3> QED
      BY <2>1, <2>3, <3>3 DEF ScanSound
  <2>4. CASE c.idx >= Len(items) /\ right = NULL_PTR /\ s.at = "end"
    <3>1. \A k : Below(p, k)
      BY <2>4, <1>4 DEF Below
    <3>2. Owed(s) = {}
      BY <2>1, <2>4, <3>1, <1>7, <1>9
    <3> QED
      BY <2>1, <2>4, <3>2 DEF ScanSound
  <2> QED
    BY <2>2, <2>3, <2>4, <1>8 DEF Advanced
<1> QED
  BY <1>2, <1>8, <1>9, QuietKeepsScans DEF Quiet

\* The key at the position of a scan is not above any that it owes.
LEMMA NextIsLeast ==
    ASSUME Objects = 1, IInv, PagesSorted, Ranks, LeavesAscend,
           NEW c \in ScanCall, DueOK(c), InReach(c), NEW k \in Owed(c),
           NEW p \in DOMAIN pages, p = c.page, IsLeaf(p),
           NEW items, items = pages[p].items, NEW n \in DOMAIN items, n = c.idx + 1
    PROVE  k \in Nat /\ items[n].key \in Nat /\ items[n].key <= k
<1>1. PICK y \in Nat : y = items[n].key /\ y \in KeysIn(items)
  BY PageFacts, TuplesOf
<1>2. k \in Nat
  BY TreeAssumption DEF Owed, ScanCall
<1>3. c.idx \in Nat /\ items \in Seq(Tuple) /\ Sorted(items) /\ DOMAIN items = 1 .. Len(items)
  BY PageFacts, TuplesOf DEF ScanCall
<1> SUFFICES ASSUME k < y PROVE FALSE
  BY <1>1, <1>2
<1>4. Below(p, y)
  BY <1>1 DEF LeavesAscend
<1>5. ASSUME pages[p].right # NULL_PTR PROVE k < FirstKey(pages[p].right)
  <2>1. PICK q : q = pages[p].right /\ q # NULL_PTR
    BY <1>5
  <2>2. q \in DOMAIN pages /\ IsLeaf(q) /\ q \notin ObjectID
    BY <2>1, RightIsLater
  <2>3. FirstKey(q) \in Nat
    BY <2>2, KeysAreNats
  <2>4. y < FirstKey(q)
    BY <2>1, <1>4 DEF Below
  <2> QED
    BY <2>1, <2>3, <2>4, <1>1, <1>2
<1>6. Below(p, k)
  BY <1>5 DEF Below
<1>7. PICK i \in DOMAIN items : items[i].key = k /\ c.idx < i
  BY <1>6, OwedIsAhead
<1>8. i \in Nat /\ n \in Nat /\ (n < i \/ n = i)
  BY <1>3, <1>7
<1>9. n < i => y < k
  BY <1>1, <1>3, <1>7 DEF Sorted
<1> QED
  BY <1>1, <1>2, <1>7, <1>8, <1>9

\* A scan takes the first key that it owes, or one below it, or ends.
LEMMA FetchKeepsScans ==
    ASSUME Objects = 1, IInv, IInv', PagesSorted, PagesSorted', Ranks, KeysInv, Ascends,
           [Next]_vars, ScansOK, NEW t \in Threads, Fetch(t)
    PROVE  ScansOK'
<1>1. PICK c, n : c = op[t] /\ n = c.idx + 1
  OBVIOUS
<1>2. PICK p, items : p = c.page /\ items = pages[p].items
  OBVIOUS
<1>3. Quiet /\ c.at = "fetch"
  BY <1>1, FetchDoes
<1>4. /\ c \in ScanCall /\ p \in DOMAIN pages /\ IsLeaf(p)
      /\ items \in Seq(Tuple) /\ Sorted(items)
      /\ c.idx \in Nat /\ c.end \in Nat /\ c.due \subseteq Key
  BY <1>1, <1>2, <1>3, ScanAtLeaf
<1>5. CASE op' = [op EXCEPT ![t] = Panicked]
  <2>1. Panicked \notin ScanCall
    BY DEF Panicked, ScanCall
  <2> QED
    BY <2>1, <1>3, <1>5, QuietKeepsScans DEF Quiet
<1>6. ASSUME n \in DOMAIN items, NEW s \in ScanCall, op' = [op EXCEPT ![t] = s],
             SameScan(s, c), Fetched(s, c, items[n].key)
      PROVE  ScansOK'
  <2>1. PICK y : y = items[n].key /\ y \in Nat /\ y \in Key
    BY <1>4, <1>6, TuplesOf
  <2>2. ASSUME OneLevel PROVE ScanSound(s)
    <3>1. DueOK(c) /\ InReach(c) /\ LeavesAscend
      BY <1>1, <1>3, <1>4, <2>2 DEF ScansOK, ScanSound, Ascends
    <3>2. \A k \in Owed(c) : k \in Nat /\ y <= k
      BY <3>1, <2>1, <1>1, <1>2, <1>4, <1>6, NextIsLeast
    <3>3. DueOK(s)
      BY <3>1, <1>6 DEF DueOK, SameScan
    <3>4. CASE y > c.end /\ s.at = "end" /\ s.out = c.out
      <4>1. ASSUME NEW k \in Owed(c) PROVE FALSE
        <5>1. k \in Nat /\ y <= k /\ k <= c.end
          BY <3>1, <3>2, <4>1 DEF DueOK, Owed
        <5> QED
          BY <5>1, <3>4, <2>1, <1>4
      <4>2. Owed(s) = {}
        BY <3>4, <4>1, <1>6 DEF Owed, SameScan
      <4> QED
        BY <3>3, <3>4, <4>2 DEF ScanSound
    <3>5. CASE s.at = "next" /\ s.page = c.page /\ s.idx = c.idx + 1 /\ s.out = Append(c.out, y)
      <4>1. Owed(s) = Owed(c) \ {y}
        <5>1. c.out \in Seq(Key)
          BY <1>4 DEF ScanCall
        <5>2. ToSet(s.out) = ToSet(c.out) \cup {y}
          BY <3>5, <5>1, <2>1, AppendProperties DEF ToSet
        <5> QED
          BY <5>2, <1>6 DEF Owed, SameScan
      <4>2. ASSUME NEW k \in Owed(s)
            PROVE  Starts(p, k) /\ n <= PartitionLower(items, k)
        <5>1. k \in Owed(c) /\ k # y
          BY <4>1, <4>2
        <5>2. k \in Nat /\ y <= k
          BY <3>2, <5>1
        <5>3. y < k
          BY <5>1, <5>2, <2>1
        <5>4. Starts(p, k)
          BY <3>1, <5>1, <1>2 DEF InReach
        <5>5. items[n].key < k <=> n <= PartitionLower(items, k)
          BY <5>2, <1>4, <1>6, PartitionSplits
        <5> QED
          BY <5>3, <5>4, <5>5, <2>1
      <4>3. InReach(s)
        BY <3>5, <4>2, <1>1, <1>2 DEF InReach, Ahead
      <4> QED
        BY <3>3, <3>5, <4>3 DEF ScanSound
    <3> QED
      BY <3>4, <3>5, <2>1, <1>6 DEF Fetched
  <2> QED
    BY <2>2, <1>3, <1>6, QuietKeepsScans DEF Quiet
<1> QED
  BY <1>1, <1>2, <1>5, <1>6, FetchDoes

\* A step of an insertion, or its beginning, ends in no scan.
InsertionStep(t) ==
    \/ \E o \in ObjectID, k \in Key : BeginInsert(t, o, k)
    \/ TryInsert(t) \/ Split(t) \/ PopParent(t) \/ PublishRoot(t) \/ InitRoot(t)

LEMMA InsertionEnds ==
    ASSUME IInv, NEW t \in Threads, InsertionStep(t)
    PROVE  op[t] \notin ScanCall /\ \E s : op' = [op EXCEPT ![t] = s] /\ s \notin ScanCall
<1>1. InsertCall \cap ScanCall = {} /\ Idle \notin ScanCall /\ Panicked \notin ScanCall
  BY DEF InsertCall, ScanCall, Idle, Panicked
<1>2. PICK c : c = op[t]
  OBVIOUS
<1>3. c \in CallState
  BY <1>2, CallOf
<1>4. \E s : op' = [op EXCEPT ![t] = s] /\ s \notin ScanCall
  <2>1. ASSUME NEW o \in ObjectID, NEW k \in Key, BeginInsert(t, o, k)
        PROVE  \E s : op' = [op EXCEPT ![t] = s] /\ s \notin ScanCall
    BY <2>1, <1>1, BeginInsertDoes
  <2>2. CASE TryInsert(t)
    <3>1. /\ c \in InsertCall
          /\ \/ op' = [op EXCEPT ![t] = Panicked] \/ op' = [op EXCEPT ![t] = Idle]
             \/ op' = [op EXCEPT ![t] = [c EXCEPT !.at = "split"]]
      BY <2>2, <1>2, TryInsertDoes
    <3>2. [c EXCEPT !.at = "split"] \notin ScanCall
      BY <3>1 DEF InsertCall, ScanCall
    <3> QED
      BY <3>1, <3>2, <1>1
  <2>3. CASE Split(t)
    <3>1. /\ c \in InsertCall
          /\ op' = op \/ \E s : op' = [op EXCEPT ![t] = AfterSplit(c, s.up)]
      BY <2>3, <1>2, SplitDoes
    <3>2. CASE op' = op
      <4>1. op' = [op EXCEPT ![t] = c]
        BY <3>2, <1>2 DEF IInv, TypeOK
      <4> QED
        BY <4>1, <3>1, <1>1
    <3>3. ASSUME NEW s, op' = [op EXCEPT ![t] = AfterSplit(c, s.up)]
          PROVE  \E d : op' = [op EXCEPT ![t] = d] /\ d \notin ScanCall
      <4>1. AfterSplit(c, s.up) \notin ScanCall
        BY <3>1 DEF InsertCall, ScanCall, AfterSplit
      <4> QED
        BY <4>1, <3>3
    <3> QED
      BY <3>1, <3>2, <3>3
  <2>4. CASE PopParent(t)
    <3>1. PICK s : op' = [op EXCEPT ![t] = s] /\ TurnsBack(s, c)
      BY <2>4, <1>2, PopParentDoes
    <3>2. s \notin ScanCall
      BY <3>1 DEF TurnsBack, ScanCall
    <3> QED
      BY <3>1, <3>2
  <2>5. CASE PublishRoot(t)
    <3>1. op' = [op EXCEPT ![t] = [at |-> "init", root |-> NewID, call |-> c]]
      BY <2>5, <1>2, PublishRootDoes
    <3>2. PICK s : s = [at |-> "init", root |-> NewID, call |-> c]
      OBVIOUS
    <3>3. s \notin ScanCall
      BY <3>2 DEF ScanCall
    <3> QED
      BY <3>1, <3>2, <3>3
  <2>6. CASE InitRoot(t)
    <3>1. PICK d, r : d = c.call /\ r = c.root
      OBVIOUS
    <3>2. d \in InsertCall /\ op' = [op EXCEPT ![t] = InNewRoot(d, r)]
      BY <2>6, <3>1, <1>2, InitRootDoes
    <3>3. InNewRoot(d, r) \notin ScanCall
      BY <3>2 DEF InsertCall, ScanCall, InNewRoot
    <3> QED
      BY <3>2, <3>3
  <2> QED
    BY <2>1, <2>2, <2>3, <2>4, <2>5, <2>6 DEF InsertionStep
<1>5. c \notin ScanCall
  <2>1. ASSUME NEW o \in ObjectID, NEW k \in Key, BeginInsert(t, o, k) PROVE c.at = "idle"
    BY <2>1, <1>2, BeginInsertDoes
  <2>2. c.at \in {"idle", "insert", "split", "parent", "init"}
    BY <2>1, <1>2 DEF InsertionStep, TryInsert, Split, PopParent, PublishRoot, InitRoot
  <2> QED
    BY <2>2 DEF ScanCall
<1> QED
  BY <1>2, <1>4, <1>5

\* What an insertion does leaves the scans of other threads sound.
LEMMA InsertKeepsScans ==
    ASSUME Objects = 1, IInv, IInv', PagesSorted, PagesSorted', Ranks, KeysInv, OrderInv,
           [Next]_vars, ScansOK, NEW t \in Threads,
           InsertionStep(t)
    PROVE  ScansOK'
<1>1. ObjectID = {0}
  BY DEF ObjectID
<1>2. TreeMoves
  <2>1. ASSUME NEW o, NEW k, BeginInsert(t, o, k) PROVE TreeMoves
    BY <2>1, QuietMoves DEF BeginInsert
  <2>2. CASE PopParent(t)
    BY <2>2, QuietMoves DEF PopParent
  <2> QED
    BY <2>1, <2>2, <1>1, TryInsertMoves, SplitMoves, PublishRootMoves, InitRootMoves
       DEF InsertionStep
<1>3. \E s : op' = [op EXCEPT ![t] = s] /\ s \notin ScanCall
  BY InsertionEnds
<1>4. Ascends
  BY DEF Ascends, OrderInv, InOrder
<1> QED
  BY <1>2, <1>3, <1>4, StepKeepsScans

\* A step that is none of an insertion, unless of its search.
ScanningStep ==
    \/ \E t \in Threads : Descend(t) \/ Position(t) \/ Advance(t) \/ Fetch(t) \/ EndScan(t)
    \/ \E t \in Threads, o \in ObjectID, a, b \in Key : BeginScan(t, o, a, b)
    \/ UNCHANGED vars

LEMMA StepsAre == [Next]_vars => ScanningStep \/ \E t \in Inserters : InsertionStep(t)
<1>1. Inserters \subseteq Threads /\ Scanners \subseteq Threads
  BY DEF Threads
<1> QED
  BY <1>1 DEF Next, InsertStep, ScanStep, Rest, InsertionStep, ScanningStep

LEMMA ScanningKeepsScans ==
    ASSUME Objects = 1, IInv, IInv', PagesSorted, PagesSorted', Ranks, KeysInv, Ascends,
           [Next]_vars, ScanningStep, ScansOK
    PROVE  ScansOK'
<1>1. ASSUME NEW t \in Threads, Descend(t) PROVE ScansOK'
  BY <1>1, DescendKeepsScans
<1>2. ASSUME NEW t \in Threads, NEW o \in ObjectID, NEW a \in Key, NEW b \in Key,
             BeginScan(t, o, a, b)
      PROVE  ScansOK'
  BY <1>2, BeginScanKeepsScans
<1>3. ASSUME NEW t \in Threads, Position(t) PROVE ScansOK'
  BY <1>3, PositionKeepsScans
<1>4. ASSUME NEW t \in Threads, Advance(t) PROVE ScansOK'
  BY <1>4, AdvanceKeepsScans
<1>5. ASSUME NEW t \in Threads, Fetch(t) PROVE ScansOK'
  BY <1>5, FetchKeepsScans
<1>6. ASSUME NEW t \in Threads, EndScan(t) PROVE ScansOK'
  <2>1. op' = [op EXCEPT ![t] = Idle] /\ UNCHANGED <<pages, dbobjects, stored>>
    BY <1>6 DEF EndScan, Step, history
  <2>2. Idle \notin ScanCall
    BY DEF Idle, ScanCall
  <2> QED
    BY <2>1, <2>2, QuietKeepsScans
<1>7. CASE UNCHANGED vars
  <2>1. UNCHANGED <<pages, dbobjects, stored, op>>
    BY <1>7 DEF vars, history
  <2>2. OneLevel' <=> OneLevel
    BY <2>1, QuietPages
  <2>3. \A s : ScanSound(s) => ScanSound(s)'
    BY <2>1, QuietSound
  <2> QED
    BY <2>1, <2>2, <2>3 DEF ScansOK
<1> QED
  BY <1>1, <1>2, <1>3, <1>4, <1>5, <1>6, <1>7 DEF ScanningStep

LEMMA NextKeepsScans ==
    ASSUME Objects = 1, IInv, IInv', PagesSorted, PagesSorted', Ranks, KeysInv, OrderInv,
           [Next]_vars, ScansOK
    PROVE  ScansOK'
<1>1. Ascends
  BY DEF Ascends, OrderInv, InOrder
<1>2. ASSUME NEW t \in Inserters, InsertionStep(t) PROVE ScansOK'
  BY <1>2, InsertKeepsScans DEF Threads
<1> QED
  BY <1>1, <1>2, StepsAre, ScanningKeepsScans

LEMMA InitScans == ASSUME Init PROVE ScansOK
<1>1. \A t \in Threads : op[t] = Idle
  BY DEF Init
<1>2. Idle \notin ScanCall
  BY DEF Idle, ScanCall
<1> QED
  BY <1>1, <1>2 DEF ScansOK

\* At its end a scan owes nothing.
LEMMA NothingOwed ==
    ASSUME IInv, ScansOK, OneLevel
    PROVE  ScanComplete
<1> SUFFICES ASSUME NEW t \in Scanners, op[t].at = "end"
             PROVE  op[t].due \subseteq ToSet(op[t].out)
  BY DEF ScanComplete
<1>1. t \in Threads /\ op[t] \in ScanCall
  BY CallOf, CallsApart DEF Threads
<1>2. Owed(op[t]) = {}
  BY <1>1 DEF ScansOK, ScanSound
<1> QED
  BY <1>2 DEF Owed

\* A scan that comes to its end has yielded every key of its range that was
\* stored when it began, whatever one thread inserts meanwhile, as long as the
\* tree has one inner node at most: a key that a split takes away from the leaf of
\* the scan is in the next one, and none that the scan owes comes to be behind its
\* position (66-88, 218-249).
THEOREM ScansComplete ==
    ASSUME Objects = 1, ~Duplicates, Alone PROVE Spec => [](OneLevel => ScanComplete)
<1>1. Init => ScansOK
  BY InitScans
<1>2. /\ IInv /\ IInv' /\ PagesSorted /\ PagesSorted' /\ Ranks /\ KeysInv /\ OrderInv
      /\ [Next]_vars /\ ScansOK
      => ScansOK'
  BY NextKeepsScans
<1>3. IInv /\ ScansOK => (OneLevel => ScanComplete)
  BY NothingOwed
<1> QED
  BY <1>1, <1>2, <1>3, Invariant, PagesInOrder, LeavesFormChains, KeysStayApart, LeavesInOrder,
     PTL DEF Spec

-----------------------------------------------------------------------------
(* A tree whose keys have room in one inner node. *)

RoomForAll == IsFiniteSet(Key) /\ Cardinality(Key) <= NodeCap

\* A page of zeros is a root that its thread has still to initialise.
ZeroedAreNew ==
    \A p \in DOMAIN pages : pages[p].zeroed =>
       \E t \in Threads : op[t] \in RootCall /\ op[t].root = p

\* An insertion splits no inner node, and makes a root when there is none above
\* the leaf that it began at.
CallLow(s) ==
    s \in InsertCall =>
       /\ s.at \in {"split", "parent"} => IsLeaf(s.page)
       /\ s.parents = <<>> /\ IsLeaf(s.page) => dbobjects[0] = s.page
LowInv == OneLevel /\ ZeroedAreNew /\ \A t \in Threads : CallLow(op[t])

\* The keys of a sorted page are as many as its tuples.
LEMMA SortedCounts ==
    ASSUME NEW items \in Seq(Tuple), Sorted(items)
    PROVE  Cardinality(KeysIn(items)) = Len(items)
<1>1. PICK n \in Nat : n = Len(items) /\ DOMAIN items = 1 .. n
  BY TuplesOf
<1>2. IsFiniteSet(KeysIn(items)) /\ Cardinality(KeysIn(items)) <= n
  BY <1>1, KeysAreOfTuples
<1>3. PICK m \in Nat : m = Cardinality(KeysIn(items)) /\ m <= n
  BY <1>2, FS_CardinalityType
<1>4. \A i \in DOMAIN items : items[i].key \in KeysIn(items) <=> i <= Cardinality(KeysIn(items))
  BY CountBelow
<1>5. n = 0 \/ n <= m
  <2> SUFFICES ASSUME n # 0 PROVE n <= m
    OBVIOUS
  <2>1. n \in DOMAIN items
    BY <1>1
  <2>2. items[n].key \in KeysIn(items)
    BY <2>1 DEF KeysIn
  <2> QED
    BY <2>1, <2>2, <1>3, <1>4
<1> QED
  BY <1>1, <1>3, <1>5

\* An inner node has room for a separator that it does not have.
LEMMA NodeHasRoom ==
    ASSUME RoomForAll, IInv, PagesSorted, NEW p \in DOMAIN pages, ~IsLeaf(p), ~pages[p].zeroed,
           NEW k \in Key, k \notin KeysIn(pages[p].items)
    PROVE  HasRoom(pages[p])
<1>1. PICK page, items : page = pages[p] /\ items = page.items
  OBVIOUS
<1>2. items \in Seq(Tuple) /\ Sorted(items) /\ page.type = "Node"
  BY <1>1, PageFacts
<1>3. KeysIn(items) \subseteq Key \ {k}
  BY <1>1, <1>2, KeysAreOfTuples
<1>4. IsFiniteSet(Key \ {k}) /\ Cardinality(Key \ {k}) = Cardinality(Key) - 1
  BY FS_RemoveElement DEF RoomForAll
<1>5. Cardinality(KeysIn(items)) <= Cardinality(Key \ {k})
  BY <1>3, <1>4, FS_Subset
<1>6. PICK n \in Nat, m \in Nat : n = Len(items) /\ m = Cardinality(Key)
  BY <1>2, TuplesOf, FS_CardinalityType DEF RoomForAll
<1>7. n <= m - 1 /\ m <= NodeCap
  BY <1>2, <1>4, <1>5, <1>6, SortedCounts DEF RoomForAll
<1>8. n < NodeCap
  BY <1>7, TreeAssumption
<1> QED
  BY <1>1, <1>2, <1>6, <1>8 DEF HasRoom

LEMMA StepKeepsLow ==
    ASSUME IInv, OrderInv, Alone, LowInv, EdgeStays, OneLevel',
           NEW t \in Threads, NEW s, op' = [op EXCEPT ![t] = s], CallLow(s)',
           t \in Inserters \/ dbobjects' = dbobjects,
           \A p \in DOMAIN pages' : pages'[p].zeroed =>
              \/ p \in DOMAIN pages /\ pages[p].zeroed /\ ~(op[t] \in RootCall /\ op[t].root = p)
              \/ s \in RootCall /\ s.root = p
    PROVE  LowInv'
<1>1. op \in [Threads -> CallState]
  BY DEF IInv, TypeOK, CallState
<1>2. ASSUME NEW u \in Threads, NEW d, d = op'[u] PROVE CallLow(d)'
  <2>1. CASE u = t
    BY <2>1, <1>1, <1>2
  <2>2. ASSUME u # t, d \in InsertCall PROVE CallLow(d)'
    <3>1. d = op[u]
      BY <2>2, <1>1, <1>2
    <3>2. u \in Inserters
      BY <3>1, <2>2 DEF OrderInv, InsertersInsert, CallIs
    <3>3. dbobjects' = dbobjects
      BY <3>2, <2>2 DEF Alone
    <3>4. d.page \in DOMAIN pages
      BY <3>1, <2>2, CallOf DEF CallOK, InsertOK, PlaceOK
    <3>5. IsLeaf(d.page)' <=> IsLeaf(d.page)
      BY <3>4 DEF EdgeStays
    <3>6. CallLow(d)
      BY <3>1 DEF LowInv
    <3> QED
      BY <3>3, <3>5, <3>6 DEF CallLow
  <2> QED
    BY <2>1, <2>2 DEF CallLow
<1>3. ZeroedAreNew'
  <2> SUFFICES ASSUME NEW p \in DOMAIN pages', pages'[p].zeroed
               PROVE  \E u \in Threads : op'[u] \in RootCall /\ op'[u].root = p
    BY DEF ZeroedAreNew
  <2>1. CASE s \in RootCall /\ s.root = p
    BY <2>1, <1>1
  <2>2. CASE p \in DOMAIN pages /\ pages[p].zeroed /\ ~(op[t] \in RootCall /\ op[t].root = p)
    <3>1. PICK u \in Threads : op[u] \in RootCall /\ op[u].root = p
      BY <2>2 DEF LowInv, ZeroedAreNew
    <3> QED
      BY <3>1, <2>2, <1>1
  <2> QED
    BY <2>1, <2>2
<1> QED
  BY <1>2, <1>3 DEF LowInv

\* A step that changes no page.
LEMMA QuietKeepsLow ==
    ASSUME IInv, KeysInv, OrderInv, Alone, LowInv, UNCHANGED <<pages, dbobjects>>,
           NEW t \in Threads, op[t] \notin RootCall,
           NEW s, op' = [op EXCEPT ![t] = s], CallLow(s)
    PROVE  LowInv'
<1>1. EdgeStays
  BY QuietTree DEF KeysInv
<1>2. OneLevel'
  BY QuietPages DEF LowInv
<1>3. CallLow(s)'
  BY DEF CallLow, IsLeaf
<1> QED
  BY <1>1, <1>2, <1>3, StepKeepsLow

LEMMA SearchKeepsLow ==
    ASSUME ObjectID = {0}, IInv, KeysInv, OrderInv, Alone, LowInv, NEW t \in Threads,
           Descend(t) \/ PopParent(t) \/ \E o \in ObjectID, k \in Key : BeginInsert(t, o, k)
    PROVE  LowInv'
<1>1. ASSUME NEW o \in ObjectID, NEW k \in Key, BeginInsert(t, o, k) PROVE LowInv'
  <2>1. op[t].at = "idle" /\ UNCHANGED <<pages, dbobjects>>
    BY <1>1, BeginInsertDoes
  <2>2. PICK s \in InsertCall : /\ op' = [op EXCEPT ![t] = s] /\ Reached(s)
                                /\ s.page = dbobjects[o]
    BY <1>1, BeginInsertDoes
  <2>3. CallLow(s)
    BY <2>2 DEF CallLow, Reached
  <2>4. op[t] \notin RootCall
    BY <2>1 DEF RootCall
  <2> QED
    BY <2>1, <2>2, <2>3, <2>4, QuietKeepsLow
<1>2. CASE Descend(t)
  <2>1. PICK c : c = op[t]
    OBVIOUS
  <2>2. c.at = "descend" /\ UNCHANGED <<pages, dbobjects>>
    BY <1>2, <2>1, DescendDoes
  <2>3. c \notin RootCall
    BY <2>2 DEF RootCall
  <2>4. \/ \E s \in InsertCall : /\ op' = [op EXCEPT ![t] = s]
                                 /\ Reached(s) /\ s.parents # <<>>
        \/ \E s \in ScanCall : op' = [op EXCEPT ![t] = s]
    BY <1>2, <2>1, DescendDoes
  <2>5. \A s \in ScanCall : CallLow(s)
    BY DEF CallLow, ScanCall, InsertCall
  <2>6. \A s \in InsertCall : Reached(s) /\ s.parents # <<>> => CallLow(s)
    BY DEF CallLow, Reached
  <2> QED
    BY <2>1, <2>2, <2>3, <2>4, <2>5, <2>6, QuietKeepsLow
<1>3. CASE PopParent(t)
  <2>1. PICK c : c = op[t]
    OBVIOUS
  <2>2. c \in InsertCall /\ c.at = "parent" /\ UNCHANGED <<pages, dbobjects>>
    BY <1>3, <2>1, PopParentDoes
  <2>3. PICK s : op' = [op EXCEPT ![t] = s] /\ TurnsBack(s, c)
    BY <1>3, <2>1, PopParentDoes
  <2>4. c \notin RootCall
    BY <2>2 DEF RootCall
  <2>5. \A n \in DOMAIN c.parents : ~IsLeaf(c.parents[n])
    BY <2>1, <2>2, CallOf DEF CallOK, InsertOK, PlaceOK
  <2>6. CallLow(s)
    BY <2>3, <2>5 DEF CallLow, TurnsBack
  <2> QED
    BY <2>1, <2>2, <2>3, <2>4, <2>6, QuietKeepsLow
<1> QED
  BY <1>1, <1>2, <1>3

LEMMA ScanKeepsLow ==
    ASSUME IInv, KeysInv, OrderInv, Alone, LowInv, NEW t \in Threads,
           \/ \E o \in ObjectID, a, b \in Key : BeginScan(t, o, a, b)
           \/ Position(t) \/ Advance(t) \/ Fetch(t) \/ EndScan(t)
    PROVE  LowInv'
<1>1. UNCHANGED <<pages, dbobjects>> /\ NoInsertion(op[t])
  BY ScanDoes
<1>2. PICK s : op' = [op EXCEPT ![t] = s] /\ NoInsertion(s)
  BY ScanDoes
<1>3. op[t] \notin RootCall
  BY <1>1 DEF NoInsertion, RootCall
<1>4. CallLow(s)
  BY <1>2 DEF CallLow, NoInsertion, CallIs
<1> QED
  BY <1>1, <1>2, <1>3, <1>4, QuietKeepsLow

\* The attempt at an inner node finds room.
LEMMA TryInsertKeepsLow ==
    ASSUME RoomForAll, IInv, PagesSorted, KeysInv, OrderInv, Alone, LowInv,
           NEW t \in Threads, TryInsert(t)
    PROVE  LowInv'
<1>1. PICK c : c = op[t]
  OBVIOUS
<1>2. /\ c \in InsertCall /\ InsertOK(c) /\ c.at = "insert" /\ dbobjects' = dbobjects
      /\ \/ /\ op' = [op EXCEPT ![t] = Panicked] /\ UNCHANGED pages
         \/ PutIn(c.page, c.tuple) /\ op' = [op EXCEPT ![t] = Idle]
         \/ /\ op' = [op EXCEPT ![t] = [c EXCEPT !.at = "split"]] /\ UNCHANGED pages
  BY <1>1, TryInsertDoes
<1>3. c \notin RootCall /\ c.page \in DOMAIN pages
  BY <1>2 DEF RootCall, InsertCall, InsertOK, PlaceOK
<1>4. CallLow(Idle)' /\ CallLow(Panicked)
  <2>1. Idle \notin InsertCall /\ Panicked \notin InsertCall
    BY DEF InsertCall, Idle, Panicked
  <2> QED
    BY <2>1 DEF CallLow
<1>5. CASE op' = [op EXCEPT ![t] = Panicked] /\ UNCHANGED pages
  BY <1>1, <1>2, <1>3, <1>4, <1>5, QuietKeepsLow
<1>6. CASE PutIn(c.page, c.tuple) /\ op' = [op EXCEPT ![t] = Idle]
  <2>1. PICK p, tuple : p = c.page /\ tuple = c.tuple /\ PutIn(p, tuple)
    BY <1>6
  <2>2. EdgeStays
    BY TryInsertMoves DEF TreeMoves
  <2>3. /\ p \in DOMAIN pages /\ DOMAIN pages' = DOMAIN pages
        /\ pages'[p] = [pages[p] EXCEPT !.items = Inserted(@, tuple)]
        /\ \A x \in DOMAIN pages : x # p => pages'[x] = pages[x]
    BY <2>1 DEF PutIn
  <2>4. \A x \in DOMAIN pages : pages'[x].zeroed = pages[x].zeroed
    <3>1. pages[p] \in Page
      BY <2>3, PageFacts
    <3>2. pages'[p].zeroed = pages[p].zeroed
      BY <2>3, <3>1 DEF Page
    <3> QED
      BY <2>3, <3>2
  <2>5. OneLevel'
    BY <2>2, <2>3, <1>2 DEF LowInv, OneLevel, EdgeStays
  <2> QED
    BY <2>2, <2>3, <2>4, <2>5, <1>1, <1>2, <1>3, <1>4, <1>6, StepKeepsLow
<1>7. ASSUME op' = [op EXCEPT ![t] = [c EXCEPT !.at = "split"]], UNCHANGED pages
      PROVE  LowInv'
  <2>1. PICK s : s = [c EXCEPT !.at = "split"]
    OBVIOUS
  <2>2. s.page = c.page /\ s.parents = c.parents
    BY <2>1, <1>2 DEF InsertCall
  <2>3. IsLeaf(c.page)
    <3> SUFFICES ASSUME ~IsLeaf(c.page) PROVE FALSE
      OBVIOUS
    <3>1. c.tuple.key \notin KeysIn(pages[c.page].items) /\ c.tuple.key \in Key
      BY <1>1, <1>2, KeyIsNew DEF InsertCall, Tuple
    <3>2. ~HasRoom(pages[c.page])
      <4>1. op' # [op EXCEPT ![t] = Idle]
        <5>1. op \in [Threads -> CallState]
          BY DEF IInv, TypeOK, CallState
        <5>2. s # Idle
          BY <2>1, <1>2 DEF Idle, InsertCall
        <5> QED
          BY <5>1, <5>2, <2>1, <1>7
      <4> QED
        BY <3>1, <4>1, <1>1 DEF TryInsert, Step
    <3>3. pages[c.page].zeroed
      BY <3>1, <3>2, <1>3, NodeHasRoom DEF RoomForAll
    <3>4. PICK u \in Threads : op[u] \in RootCall
      BY <3>3, <1>3 DEF LowInv, ZeroedAreNew
    <3>5. t \in Inserters /\ u \in Inserters
      BY <3>4, <1>1, <1>2 DEF OrderInv, InsertersInsert, CallIs, RootCall
    <3> QED
      BY <3>4, <3>5, <1>1, <1>3 DEF Alone
  <2>4. CallLow(s)
    BY <2>2, <2>3, <1>1, <1>2 DEF LowInv, CallLow
  <2> QED
    BY <2>1, <2>4, <1>1, <1>2, <1>3, <1>7, QuietKeepsLow
<1> QED
  BY <1>2, <1>5, <1>6, <1>7

\* Only leaves are split.
LEMMA SplitKeepsLow ==
    ASSUME IInv, PagesSorted, KeysInv, OrderInv, Alone, LowInv, NEW t \in Threads, Split(t)
    PROVE  LowInv'
<1>1. PICK c : c = op[t]
  OBVIOUS
<1>2. /\ c \in InsertCall /\ c.at = "split" /\ dbobjects' = dbobjects
      /\ \/ UNCHANGED <<pages, op>>
         \/ \E s : Halved(c.page, c.tuple, s) /\ op' = [op EXCEPT ![t] = AfterSplit(c, s.up)]
  BY <1>1, SplitDoes
<1>3. c \notin RootCall /\ IsLeaf(c.page) /\ CallLow(c)
  BY <1>1, <1>2 DEF RootCall, InsertCall, LowInv, CallLow
<1>4. CASE UNCHANGED <<pages, op>>
  <2>1. op' = [op EXCEPT ![t] = c]
    BY <1>1, <1>4 DEF IInv, TypeOK
  <2> QED
    BY <2>1, <1>1, <1>2, <1>3, <1>4, QuietKeepsLow
<1>5. ASSUME NEW s, Halved(c.page, c.tuple, s), op' = [op EXCEPT ![t] = AfterSplit(c, s.up)]
      PROVE  LowInv'
  <2>1. PICK p, tuple, q, up : /\ p = c.page /\ tuple = c.tuple /\ q = NewID /\ up = s.up
                               /\ Halved(p, tuple, s)
    BY <1>5
  <2>2. /\ p \in DOMAIN pages /\ s = SplitLeaf(pages[p], p, q, tuple)
        /\ DOMAIN pages' = DOMAIN pages \cup {q} /\ pages'[q] = s.right /\ pages'[p] = s.left
        /\ \A x \in DOMAIN pages : x # p => pages'[x] = pages[x]
    BY <2>1, <1>3 DEF Halved, Added
  <2>3. /\ s.left.type = "Leaf" /\ ~s.left.zeroed
        /\ s.right.type = "Leaf" /\ ~s.right.zeroed
    BY <2>2 DEF SplitLeaf, LeafPage
  <2>4. EdgeStays
    BY SplitMoves DEF TreeMoves
  <2>5. OneLevel'
    <3>1. \A x \in DOMAIN pages : IsLeaf(x)' \/ x = dbobjects'[0]
      BY <2>4, <1>2 DEF LowInv, OneLevel, EdgeStays
    <3>2. IsLeaf(q)'
      BY <2>2, <2>3 DEF IsLeaf
    <3> QED
      BY <2>2, <3>1, <3>2 DEF OneLevel
  <2>6. PICK n : n = AfterSplit(c, up)
    OBVIOUS
  <2>7. n.page = p /\ n.parents = c.parents
    BY <2>1, <2>6, <1>2 DEF AfterSplit, InsertCall
  <2>8. IsLeaf(p)'
    BY <2>2, <2>3 DEF IsLeaf
  <2>9. CallLow(n)'
    BY <2>1, <2>7, <2>8, <1>2, <1>3 DEF CallLow
  <2>10. \A x \in DOMAIN pages' : pages'[x].zeroed => x \in DOMAIN pages /\ pages[x].zeroed
    BY <2>2, <2>3
  <2>11. op' = [op EXCEPT ![t] = n]
    BY <2>1, <2>6, <1>5
  <2> QED
    BY <2>4, <2>5, <2>9, <2>10, <2>11, <1>1, <1>2, <1>3, StepKeepsLow
<1> QED
  BY <1>2, <1>4, <1>5

\* A root is made when there is none above the leaves.
LEMMA PublishRootKeepsLow ==
    ASSUME ObjectID = {0}, IInv, PagesSorted, KeysInv, OrderInv, Alone, LowInv,
           NEW t \in Threads, PublishRoot(t)
    PROVE  LowInv'
<1>1. PICK c : c = op[t]
  OBVIOUS
<1>2. PICK r : r = NewID
  OBVIOUS
<1>3. PICK s : s = [at |-> "init", root |-> r, call |-> c]
  OBVIOUS
<1>4. /\ c \in InsertCall /\ c.at = "parent" /\ c.parents = <<>> /\ RootAdded
      /\ dbobjects' = [dbobjects EXCEPT ![c.object] = r] /\ op' = [op EXCEPT ![t] = s]
  BY <1>1, <1>2, <1>3, PublishRootDoes
<1>5. c \notin RootCall /\ t \in Inserters
  BY <1>1, <1>4 DEF RootCall, InsertCall, OrderInv, InsertersInsert, CallIs
<1>6. EdgeStays
  BY PublishRootMoves DEF TreeMoves
<1>7. IsLeaf(c.page) /\ dbobjects[0] = c.page
  BY <1>1, <1>4 DEF LowInv, CallLow
<1>8. \A x \in DOMAIN pages : IsLeaf(x)
  BY <1>7 DEF LowInv, OneLevel
<1>9. DOMAIN pages' = DOMAIN pages \cup {r} /\ \A x \in DOMAIN pages : pages'[x] = pages[x]
  BY <1>2, <1>4 DEF RootAdded, Added
<1>10. dbobjects'[0] = r
  BY <1>4 DEF IInv, TypeOK, InsertCall
<1>11. OneLevel'
  BY <1>6, <1>8, <1>9, <1>10 DEF OneLevel, EdgeStays
<1>12. s \in RootCall /\ s.root = r /\ s \notin InsertCall
  <2>1. r \in PageID
    BY <1>2, NewIDProperties DEF IInv, PageID
  <2> QED
    BY <2>1, <1>3, <1>4 DEF RootCall, InsertCall
<1>13. CallLow(s)'
  BY <1>12 DEF CallLow
<1>14. \A x \in DOMAIN pages' : pages'[x].zeroed =>
          \/ x \in DOMAIN pages /\ pages[x].zeroed
          \/ s \in RootCall /\ s.root = x
  BY <1>9, <1>12
<1> QED
  BY <1>1, <1>4, <1>5, <1>6, <1>11, <1>13, <1>14, StepKeepsLow

LEMMA InitRootKeepsLow ==
    ASSUME IInv, PagesSorted, KeysInv, OrderInv, Alone, LowInv, NEW t \in Threads, InitRoot(t)
    PROVE  LowInv'
<1>1. PICK c, r : c = op[t].call /\ r = op[t].root
  OBVIOUS
<1>2. /\ op[t] \in RootCall /\ c \in InsertCall /\ dbobjects' = dbobjects
      /\ RootMade(r, c.page) /\ op' = [op EXCEPT ![t] = InNewRoot(c, r)]
  BY <1>1, InitRootDoes
<1>3. PICK s : s = InNewRoot(c, r)
  OBVIOUS
<1>4. s.at = "insert" /\ s.page = r
  BY <1>2, <1>3 DEF InNewRoot, InsertCall
<1>5. EdgeStays
  BY InitRootMoves DEF TreeMoves
<1>6. /\ r \in DOMAIN pages /\ ~IsLeaf(r) /\ DOMAIN pages' = DOMAIN pages
      /\ pages'[r] = NodePage(<<>>, NULL_PTR, NULL_PTR, c.page)
      /\ \A x \in DOMAIN pages : x # r => pages'[x] = pages[x]
  BY <1>2 DEF RootMade
<1>7. ~IsLeaf(r)' /\ ~pages'[r].zeroed
  BY <1>6 DEF IsLeaf, NodePage
<1>8. CallLow(s)'
  BY <1>4, <1>7 DEF CallLow
<1>9. OneLevel'
  BY <1>2, <1>5, <1>6 DEF LowInv, OneLevel, EdgeStays
<1>10. \A x \in DOMAIN pages' : pages'[x].zeroed =>
          x \in DOMAIN pages /\ pages[x].zeroed /\ op[t].root # x
  BY <1>1, <1>6, <1>7
<1> QED
  BY <1>2, <1>3, <1>5, <1>8, <1>9, <1>10, StepKeepsLow

LEMMA NextKeepsLow ==
    ASSUME ObjectID = {0}, RoomForAll, Alone, IInv, PagesSorted, KeysInv, OrderInv, LowInv,
           [Next]_vars
    PROVE  LowInv'
<1>1. Inserters \subseteq Threads /\ Scanners \subseteq Threads
  BY DEF Threads
<1>2. ASSUME NEW t \in Threads,
             Descend(t) \/ PopParent(t) \/ \E o \in ObjectID, k \in Key : BeginInsert(t, o, k)
      PROVE  LowInv'
  BY <1>2, SearchKeepsLow
<1>3. ASSUME NEW t \in Threads,
             \/ \E o \in ObjectID, a, b \in Key : BeginScan(t, o, a, b)
             \/ Position(t) \/ Advance(t) \/ Fetch(t) \/ EndScan(t)
      PROVE  LowInv'
  BY <1>3, ScanKeepsLow
<1>4. ASSUME NEW t \in Threads, TryInsert(t) PROVE LowInv'
  BY <1>4, TryInsertKeepsLow
<1>5. ASSUME NEW t \in Threads, Split(t) PROVE LowInv'
  BY <1>5, SplitKeepsLow
<1>6. ASSUME NEW t \in Threads, PublishRoot(t) PROVE LowInv'
  BY <1>6, PublishRootKeepsLow
<1>7. ASSUME NEW t \in Threads, InitRoot(t) PROVE LowInv'
  BY <1>7, InitRootKeepsLow
<1>8. CASE UNCHANGED vars
  <2>1. UNCHANGED <<pages, dbobjects, op>>
    BY <1>8 DEF vars
  <2>2. OneLevel' <=> OneLevel
    BY <2>1, QuietPages
  <2>3. \A s : CallLow(s)' <=> CallLow(s)
    BY <2>1 DEF CallLow, IsLeaf
  <2>4. ZeroedAreNew' <=> ZeroedAreNew
    BY <2>1 DEF ZeroedAreNew
  <2> QED
    BY <2>1, <2>2, <2>3, <2>4 DEF LowInv
<1> QED
  BY <1>1, <1>2, <1>3, <1>4, <1>5, <1>6, <1>7, <1>8 DEF Next, InsertStep, ScanStep, Rest

LEMMA InitLow == ASSUME Init PROVE LowInv
<1>1. \A p \in DOMAIN pages : pages[p].type = "Leaf" /\ ~pages[p].zeroed
  BY DEF Init, LeafPage
<1>2. \A t \in Threads : op[t] \notin InsertCall
  BY DEF Init, Idle, InsertCall
<1> QED
  BY <1>1, <1>2 DEF LowInv, OneLevel, IsLeaf, ZeroedAreNew, CallLow

\* One thread that inserts no more keys than an inner node has room for makes one
\* inner node at most: no inner node is ever split, and no second root is made
\* above a leaf that has one (196-216, 285).
THEOREM TreeStaysLow ==
    ASSUME Objects = 1, ~Duplicates, Alone, IsFiniteSet(Key), Cardinality(Key) <= NodeCap
    PROVE  Spec => []OneLevel
<1>1. ObjectID = {0} /\ RoomForAll
  BY DEF ObjectID, RoomForAll
<1>2. Init => LowInv
  BY InitLow
<1>3. IInv /\ PagesSorted /\ KeysInv /\ OrderInv /\ LowInv /\ [Next]_vars => LowInv'
  BY <1>1, NextKeepsLow
<1>4. LowInv => OneLevel
  BY DEF LowInv
<1> QED
  BY <1>2, <1>3, <1>4, Invariant, PagesInOrder, KeysStayApart, LeavesInOrder, PTL DEF Spec

\* Such a tree is sorted across its leaves, a search for a key ends at the leaf
\* that has it, and scans yield all that was stored when they began, in every
\* behaviour of one inserter and any number of scanners (66-88, 218-249, 303-304).
THEOREM LowTreeServes ==
    ASSUME Objects = 1, ~Duplicates, Alone, IsFiniteSet(Key), Cardinality(Key) <= NodeCap
    PROVE  Spec => [](ChainSorted /\ Routed /\ ScanComplete)
BY TreeStaysLow, ChainIsSorted, SearchesRouted, ScansComplete, PTL

-----------------------------------------------------------------------------
(***************************************************************************)
(* A tree with one inner node at most, in which one thread inserts and no  *)
(* thread scans while it does, is an ordered set of keys: BTree implements  *)
(* OrderedIndex.  A key is in the set from the moment it is in a leaf, be   *)
(* it that its insertion has still to hang the leaf it split off.           *)
(***************************************************************************)

\* No thread scans while another inserts.
ReadersApart ==
    \A t, u \in Threads : op[t] \in ScanCall => op[u] \notin InsertCall \cup RootCall

-----------------------------------------------------------------------------
(* The keys in the leaves are those that were stored, and those of insertions *)
(* that have still to hang a leaf.                                            *)

Settling(s, k) == \E c \in InsertCall : CallIs(s, c) /\ ~Pending(c) /\ c.key = k
Accounted == \A k \in LeafKeys : k \in stored[0] \/ \E t \in Threads : Settling(op[t], k)

\* At most one key comes to the leaves.
IndexMoves == LeafKeys' = LeafKeys \/ \E k \in Key : k \notin LeafKeys /\ LeafKeys' = LeafKeys \cup {k}

LEMMA PendingStays ==
    ASSUME IInv, EdgeStays, NEW t \in Threads, NEW c \in InsertCall, CallIs(op[t], c)
    PROVE  Pending(c)' <=> Pending(c)
<1>1. c.page \in DOMAIN pages
  BY CallPlaced DEF PlaceOK
<1> QED
  BY <1>1 DEF Pending, EdgeStays

\* A step of thread t that ends in state s.
LEMMA StepAccounts ==
    ASSUME ObjectID = {0}, IInv, EdgeStays, [Next]_vars, Accounted, NEW t \in Threads,
           NEW s, op' = [op EXCEPT ![t] = s],
           \A k \in LeafKeys' : \/ k \in LeafKeys /\ ~Settling(op[t], k)
                                \/ k \in stored'[0] \/ Settling(s, k)'
    PROVE  Accounted'
<1>1. op'[t] = s /\ \A u \in Threads : u # t => op'[u] = op[u]
  BY DEF IInv, TypeOK
<1>2. stored[0] \subseteq stored'[0]
  BY StoredGrows
<1>3. ASSUME NEW k, NEW u \in Threads, u # t, Settling(op[u], k), NEW d, d = op'[u]
      PROVE  Settling(d, k)'
  <2>1. PICK c \in InsertCall : CallIs(op[u], c) /\ ~Pending(c) /\ c.key = k
    BY <1>3 DEF Settling
  <2>2. ~Pending(c)'
    BY <2>1, PendingStays
  <2>3. CallIs(d, c)
    BY <2>1, <1>1, <1>3
  <2> QED
    BY <2>1, <2>2, <2>3 DEF Settling, CallIs
<1>4. ASSUME NEW k \in LeafKeys', k \notin stored'[0]
      PROVE  \E u \in Threads : Settling(op[u], k)'
  <2>1. CASE k \in LeafKeys /\ ~Settling(op[t], k)
    <3>1. PICK u \in Threads : Settling(op[u], k)
      BY <2>1, <1>2, <1>4 DEF Accounted
    <3>2. PICK d : d = op'[u]
      OBVIOUS
    <3>3. Settling(d, k)'
      BY <2>1, <3>1, <3>2, <1>3
    <3> QED
      BY <3>2, <3>3
  <2>2. CASE Settling(s, k)'
    BY <2>2, <1>1
  <2> QED
    BY <2>1, <2>2, <1>4
<1> QED
  BY <1>4 DEF Accounted

\* A step that puts at most the key of its own insertion into the leaves.
LEMMA CallAccounts ==
    ASSUME ObjectID = {0}, IInv, KeysInv, EdgeStays, [Next]_vars, Accounted, NEW t \in Threads,
           NEW c \in InsertCall, CallIs(op[t], c), NEW s, op' = [op EXCEPT ![t] = s],
           LeafKeys' \subseteq LeafKeys \cup {c.key},
           c.key \in LeafKeys' => c.key \in stored'[0] \/ Settling(s, c.key)'
    PROVE  Accounted'
<1>1. PICK old : old = op[t]
  OBVIOUS
<1>2. \A d : CallIs(old, d) => d = c
  BY <1>1, CallIsOf
<1>3. \A k : Settling(op[t], k) => k = c.key
  BY <1>1, <1>2 DEF Settling
<1> QED
  BY <1>3, StepAccounts

-----------------------------------------------------------------------------
(* What each step of an insertion does to the set of keys. *)

\* A pending insertion of the only inserter: no key of a leaf is on its way.
LEMMA AllStored ==
    ASSUME ObjectID = {0}, IInv, OrderInv, Alone, Accounted, NEW t \in Inserters,
           NEW c \in InsertCall, c = op[t], Pending(c)
    PROVE  LeafKeys = stored[0]
<1>1. stored[0] \subseteq LeafKeys
  BY DEF IInv, StoredInLeaves
<1>2. ASSUME NEW u \in Threads, NEW k PROVE ~Settling(op[u], k)
  <2> SUFFICES ASSUME NEW d \in InsertCall, CallIs(op[u], d), ~Pending(d) PROVE FALSE
    BY DEF Settling
  <2>1. u \in Inserters
    BY DEF OrderInv, InsertersInsert
  <2>2. op[u] = c
    BY <2>1 DEF Alone
  <2>3. d = c
    BY <2>2, CallIsOf DEF InsertCall
  <2> QED
    BY <2>3
<1> QED
  BY <1>1, <1>2 DEF Accounted

\* A key more.
LEMMA KeyComes ==
    ASSUME ObjectID = {0}, IInv, IInv', [Next]_vars, LeafKeys = stored[0],
           NEW k \in Key, LeafKeys' \subseteq LeafKeys \cup {k}
    PROVE  IndexMoves
<1>1. stored[0] \subseteq stored'[0]
  BY StoredGrows
<1>2. stored'[0] \subseteq LeafKeys'
  BY DEF IInv, StoredInLeaves
<1> QED
  BY <1>1, <1>2 DEF IndexMoves

Moves == Accounted' /\ IndexMoves

LEMMA TryInsertMovesIndex ==
    ASSUME ObjectID = {0}, IInv, IInv', PagesSorted, KeysInv, OrderInv, Alone, [Next]_vars,
           Accounted, NEW t \in Inserters, TryInsert(t)
    PROVE  Moves
<1>1. PICK c : c = op[t]
  OBVIOUS
<1>2. /\ c \in InsertCall /\ InsertOK(c) /\ c.at = "insert" /\ dbobjects' = dbobjects
      /\ c.tuple.key \notin KeysIn(pages[c.page].items)
  BY <1>1, TryInsertDoes, KeyIsNew DEF Threads
<1>3. \/ PutIn(c.page, c.tuple) /\ op' = [op EXCEPT ![t] = Idle]
      \/ op' = [op EXCEPT ![t] = [c EXCEPT !.at = "split"]] /\ UNCHANGED pages
  BY <1>1, <1>2, TryInsertDoes DEF Threads
<1>4. CallIs(op[t], c) /\ OnWay(c) /\ Fresh(c) /\ t \in Threads
  BY <1>1, <1>2, InCall DEF Threads
<1>5. TreeOK
  BY DEF KeysInv
<1>6. CASE PutIn(c.page, c.tuple) /\ op' = [op EXCEPT ![t] = Idle]
  <2>1. PICK p, tuple : p = c.page /\ tuple = c.tuple /\ PutIn(p, tuple)
    BY <1>6
  <2>2. c.key \in stored'[0]
    <3>1. op'[t] = Idle /\ Idle.at = "idle"
      BY <1>4, <1>6 DEF Idle, IInv, TypeOK
    <3>2. op' # [op EXCEPT ![t] = [c EXCEPT !.at = "split"]]
      <4>1. PICK s : s = [c EXCEPT !.at = "split"]
        OBVIOUS
      <4>2. s.at = "split"
        BY <4>1, <1>2 DEF InsertCall
      <4>3. [op EXCEPT ![t] = s][t] = s
        BY <1>4 DEF IInv, TypeOK
      <4> QED
        BY <3>1, <4>1, <4>2, <4>3
    <3>3. stored' = [stored EXCEPT ![c.object] = @ \cup {c.key}]
      BY <3>2, <1>1, <1>2 DEF TryInsert, Step
    <3>4. c.object \in ObjectID /\ c.object = 0
      BY <1>2 DEF InsertCall
    <3> QED
      BY <3>3, <3>4 DEF IInv, TypeOK
  <2>3. CASE IsLeaf(p)
    <3>1. tuple.key = c.key /\ Pending(c)
      BY <2>1, <2>3, <1>2 DEF InsertOK, Pending
    <3>2. tuple.key \notin LeafKeys /\ (p \notin ObjectID => FirstKey(p) < tuple.key)
      BY <2>1, <2>3, <3>1, <1>2, <1>4 DEF Fresh, OnWay
    <3>3. EdgeStays /\ LeafKeys' \subseteq LeafKeys \cup {c.key}
      BY <2>1, <2>3, <3>1, <3>2, <1>2, <1>5, LeafPut
    <3>4. Accounted'
      BY <2>2, <3>3, <1>2, <1>4, <1>6, CallAccounts
    <3>5. LeafKeys = stored[0] /\ c.key \in Key
      BY <3>1, <1>1, <1>2, AllStored DEF InsertCall
    <3> QED
      BY <3>3, <3>4, <3>5, KeyComes DEF Moves
  <2>4. CASE ~IsLeaf(p)
    <3>1. ~Pending(c) /\ p \in Spine
      BY <2>1, <2>4, <1>2, <1>4 DEF Pending, OnWay
    <3>2. Heads(tuple.key, tuple.value) /\ Unhung(tuple.value)
      BY <2>1, <3>1, <1>4 DEF Fresh
    <3>3. EdgeStays /\ LeafKeys' = LeafKeys
      BY <2>1, <3>1, <3>2, <1>2, <1>5, NodePut
    <3>4. Accounted'
      BY <2>2, <3>3, <1>2, <1>4, <1>6, CallAccounts
    <3> QED
      BY <3>3, <3>4 DEF Moves, IndexMoves
  <2> QED
    BY <2>3, <2>4
<1>7. CASE op' = [op EXCEPT ![t] = [c EXCEPT !.at = "split"]] /\ UNCHANGED pages
  <2>1. PICK s : s = [c EXCEPT !.at = "split"]
    OBVIOUS
  <2>2. /\ s \in InsertCall /\ s.at = "split" /\ s.page = c.page /\ s.key = c.key
    BY <2>1, <1>2 DEF InsertCall
  <2>3. EdgeStays /\ LeafKeys' = LeafKeys
    BY <1>2, <1>5, <1>7, QuietTree
  <2>4. Pending(s)' <=> Pending(c)
    BY <2>2, <1>2, <1>7 DEF Pending, IsLeaf
  <2>5. c.key \in LeafKeys' => Settling(s, c.key)'
    <3>1. c.key \in LeafKeys' => ~Pending(c)
      BY <2>3, <1>4 DEF Fresh
    <3> QED
      BY <3>1, <2>2, <2>4 DEF Settling, CallIs
  <2>6. Accounted'
    BY <2>1, <2>3, <2>5, <1>2, <1>4, <1>7, CallAccounts
  <2> QED
    BY <2>3, <2>6 DEF Moves, IndexMoves
<1> QED
  BY <1>3, <1>6, <1>7

LEMMA SplitMovesIndex ==
    ASSUME ObjectID = {0}, IInv, IInv', PagesSorted, KeysInv, OrderInv, Alone, [Next]_vars,
           Accounted, NEW t \in Inserters, Split(t)
    PROVE  Moves
<1>1. PICK c : c = op[t]
  OBVIOUS
<1>2. /\ c \in InsertCall /\ InsertOK(c) /\ c.at = "split" /\ dbobjects' = dbobjects
      /\ \/ UNCHANGED <<pages, op>>
         \/ \E s : Halved(c.page, c.tuple, s) /\ op' = [op EXCEPT ![t] = AfterSplit(c, s.up)]
  BY <1>1, SplitDoes DEF Threads
<1>3. CallIs(op[t], c) /\ OnWay(c) /\ Fresh(c) /\ t \in Threads
  BY <1>1, <1>2, InCall DEF Threads
<1>4. TreeOK
  BY DEF KeysInv
<1>5. CASE UNCHANGED <<pages, op>>
  <2>1. op' = [op EXCEPT ![t] = c]
    BY <1>1, <1>5 DEF IInv, TypeOK
  <2>2. EdgeStays /\ LeafKeys' = LeafKeys
    BY <1>2, <1>4, <1>5, QuietTree
  <2>3. c.key \in LeafKeys' => Settling(c, c.key)'
    <3>1. c.key \in LeafKeys' => ~Pending(c)
      BY <2>2, <1>3 DEF Fresh
    <3>2. Pending(c)' <=> Pending(c)
      BY <1>5 DEF Pending, IsLeaf
    <3> QED
      BY <3>1, <3>2, <1>2 DEF Settling, CallIs
  <2>4. Accounted'
    BY <2>1, <2>2, <2>3, <1>2, <1>3, CallAccounts
  <2> QED
    BY <2>2, <2>4 DEF Moves, IndexMoves
<1>6. ASSUME NEW s, Halved(c.page, c.tuple, s), op' = [op EXCEPT ![t] = AfterSplit(c, s.up)]
      PROVE  Moves
  <2>1. PICK p, tuple : p = c.page /\ tuple = c.tuple /\ Halved(p, tuple, s)
    BY <1>6
  <2>2. PICK n : n = AfterSplit(c, s.up)
    OBVIOUS
  <2>3. n.at = "parent" /\ n.key = c.key /\ op'[t] = n
    BY <2>2, <1>2, <1>3, <1>6 DEF InsertCall, AfterSplit, IInv, TypeOK
  <2>4. n \in InsertCall /\ ~Pending(n)'
    <3>1. op'[t] \in CallState
      BY <1>3 DEF IInv, TypeOK, CallState
    <3> QED
      BY <2>3, <3>1, CallsApart DEF Pending
  <2>5. Settling(n, c.key)'
    BY <2>3, <2>4 DEF Settling, CallIs
  <2>6. CASE IsLeaf(p)
    <3>1. tuple.key = c.key /\ Pending(c)
      BY <2>1, <2>6, <1>2 DEF InsertOK, Pending
    <3>2. tuple.key \notin LeafKeys /\ (p \notin ObjectID => FirstKey(p) < tuple.key)
      BY <2>1, <2>6, <3>1, <1>2, <1>3 DEF Fresh, OnWay
    <3>3. EdgeStays /\ LeafKeys' \subseteq LeafKeys \cup {tuple.key}
      BY <2>1, <2>6, <3>2, <1>2, <1>4, LeafSplit
    <3>4. Accounted'
      BY <2>2, <2>5, <3>1, <3>3, <1>2, <1>3, <1>6, CallAccounts
    <3>5. LeafKeys = stored[0] /\ c.key \in Key
      BY <3>1, <1>1, <1>2, AllStored DEF InsertCall
    <3> QED
      BY <3>1, <3>3, <3>4, <3>5, KeyComes DEF Moves
  <2>7. CASE ~IsLeaf(p)
    <3>1. ~Pending(c) /\ p \in Spine
      BY <2>1, <2>7, <1>2, <1>3 DEF Pending, OnWay
    <3>2. Heads(tuple.key, tuple.value) /\ Unhung(tuple.value)
      BY <2>1, <3>1, <1>3 DEF Fresh
    <3>3. EdgeStays /\ LeafKeys' = LeafKeys
      BY <2>1, <3>1, <3>2, <1>2, <1>4, NodeSplit
    <3>4. Accounted'
      BY <2>2, <2>5, <3>3, <1>2, <1>3, <1>6, CallAccounts
    <3> QED
      BY <3>3, <3>4 DEF Moves, IndexMoves
  <2> QED
    BY <2>6, <2>7
<1> QED
  BY <1>2, <1>5, <1>6

LEMMA PublishRootMovesIndex ==
    ASSUME ObjectID = {0}, IInv, PagesSorted, KeysInv, [Next]_vars, Accounted,
           NEW t \in Threads, PublishRoot(t)
    PROVE  Moves
<1>1. PICK c, r : c = op[t] /\ r = NewID
  OBVIOUS
<1>2. PICK s : s = [at |-> "init", root |-> r, call |-> c]
  OBVIOUS
<1>3. /\ c \in InsertCall /\ c.at = "parent" /\ RootAdded
      /\ dbobjects' = [dbobjects EXCEPT ![c.object] = NewID]
      /\ op' = [op EXCEPT ![t] = s]
  BY <1>1, <1>2, PublishRootDoes
<1>4. PICK o \in ObjectID : o = c.object
  BY <1>3 DEF InsertCall
<1>5. EdgeStays /\ LeafKeys' = LeafKeys
  BY <1>3, <1>4, RootAdd DEF KeysInv
<1>6. CallIs(op[t], c)
  BY <1>1, <1>3 DEF CallIs
<1>7. CallIs(s, c)
  <2>1. r \in PageID
    BY <1>1, NewIDProperties DEF IInv, PageID
  <2> QED
    BY <2>1, <1>2, <1>3 DEF CallIs, RootCall
<1>8. Settling(s, c.key)'
  BY <1>3, <1>7 DEF Settling, Pending, CallIs
<1>9. Accounted'
  BY <1>3, <1>5, <1>6, <1>8, CallAccounts
<1> QED
  BY <1>5, <1>9 DEF Moves, IndexMoves

LEMMA InitRootMovesIndex ==
    ASSUME ObjectID = {0}, IInv, PagesSorted, KeysInv, [Next]_vars, Accounted,
           NEW t \in Threads, InitRoot(t)
    PROVE  Moves
<1>1. PICK c, r : c = op[t].call /\ r = op[t].root
  OBVIOUS
<1>2. PICK s : s = InNewRoot(c, r)
  OBVIOUS
<1>3. /\ op[t] \in RootCall /\ RootOK(op[t])
      /\ c \in InsertCall /\ c.at = "parent" /\ dbobjects' = dbobjects
      /\ RootMade(r, c.page) /\ op' = [op EXCEPT ![t] = s]
  BY <1>1, <1>2, InitRootDoes
<1>4. CallIs(op[t], c)
  BY <1>1, <1>3 DEF CallIs
<1>5. OnWay(c) /\ c.parents = <<>>
  BY <1>1, <1>3, <1>4 DEF KeysInv, WaysOK, RootOK
<1>6. PICK child : child = c.page /\ Leftmost(child)
  BY <1>5 DEF OnWay
<1>7. EdgeStays /\ LeafKeys' = LeafKeys /\ r \in Spine'
  BY <1>3, <1>6, RootMake DEF KeysInv
<1>8. /\ s \in InsertCall /\ s.at = "insert" /\ s.page = r /\ s.key = c.key
  BY <1>1, <1>2, <1>3 DEF InsertCall, InNewRoot, RootCall
<1>9. ~Pending(s)'
  BY <1>7, <1>8 DEF Pending, Spine
<1>10. Settling(s, c.key)'
  BY <1>8, <1>9 DEF Settling, CallIs
<1>11. Accounted'
  BY <1>3, <1>4, <1>7, <1>10, CallAccounts
<1> QED
  BY <1>7, <1>11 DEF Moves, IndexMoves

\* A step that changes no page and settles nothing.
LEMMA QuietMovesIndex ==
    ASSUME ObjectID = {0}, IInv, KeysInv, [Next]_vars, Accounted, UNCHANGED <<pages, dbobjects>>,
           NEW t \in Threads, NEW s, op' = [op EXCEPT ![t] = s],
           \A k \in LeafKeys : Settling(op[t], k) => Settling(s, k)
    PROVE  Moves
<1>1. EdgeStays /\ LeafKeys' = LeafKeys
  BY QuietTree DEF KeysInv
<1>2. \A c : Pending(c)' <=> Pending(c)
  BY DEF Pending, IsLeaf
<1>3. \A k : Settling(s, k) => Settling(s, k)'
  BY <1>2 DEF Settling, CallIs
<1>4. Accounted'
  BY <1>1, <1>3, StepAccounts
<1> QED
  BY <1>1, <1>4 DEF Moves, IndexMoves

LEMMA SearchMovesIndex ==
    ASSUME ObjectID = {0}, IInv, KeysInv, [Next]_vars, Accounted, NEW t \in Threads,
           \/ \E o \in ObjectID, k \in Key : BeginInsert(t, o, k)
           \/ \E o \in ObjectID, a, b \in Key : BeginScan(t, o, a, b)
           \/ Descend(t) \/ Position(t) \/ Advance(t) \/ Fetch(t) \/ EndScan(t)
    PROVE  Moves
<1>1. ASSUME NEW o \in ObjectID, NEW k \in Key, BeginInsert(t, o, k) PROVE Moves
  <2>1. op[t].at = "idle" /\ UNCHANGED <<pages, dbobjects>> /\ \E s : op' = [op EXCEPT ![t] = s]
    BY <1>1, BeginInsertDoes
  <2>2. \A j : ~Settling(op[t], j)
    BY <2>1, CallIsOf DEF Settling
  <2> QED
    BY <2>1, <2>2, QuietMovesIndex
<1>2. CASE Descend(t)
  <2>1. PICK c : c = op[t]
    OBVIOUS
  <2>2. UNCHANGED <<pages, dbobjects>> /\ c.at = "descend" /\ \E s : op' = [op EXCEPT ![t] = s]
    BY <2>1, <1>2, DescendDoes
  <2>3. \A d : CallIs(c, d) => d = c
    BY <2>2, CallIsOf
  <2>4. \A k : ~Settling(op[t], k)
    BY <2>1, <2>2, <2>3 DEF Settling, Pending
  <2> QED
    BY <2>2, <2>4, QuietMovesIndex
<1>3. CASE \/ \E o \in ObjectID, a, b \in Key : BeginScan(t, o, a, b)
           \/ Position(t) \/ Advance(t) \/ Fetch(t) \/ EndScan(t)
  <2>1. UNCHANGED <<pages, dbobjects>> /\ NoInsertion(op[t]) /\ \E s : op' = [op EXCEPT ![t] = s]
    BY <1>3, ScanDoes
  <2>2. \A k : ~Settling(op[t], k)
    BY <2>1 DEF Settling, NoInsertion
  <2> QED
    BY <2>1, <2>2, QuietMovesIndex
<1> QED
  BY <1>1, <1>2, <1>3

LEMMA PopParentMovesIndex ==
    ASSUME ObjectID = {0}, IInv, KeysInv, [Next]_vars, Accounted, NEW t \in Threads, PopParent(t)
    PROVE  Moves
<1>1. PICK c : c = op[t]
  OBVIOUS
<1>2. c \in InsertCall /\ c.at = "parent" /\ UNCHANGED <<pages, dbobjects>>
  BY <1>1, PopParentDoes
<1>3. PICK s : op' = [op EXCEPT ![t] = s] /\ TurnsBack(s, c)
  BY <1>1, PopParentDoes
<1>4. PlaceOK(c) /\ \A d : CallIs(op[t], d) => d = c
  BY <1>1, <1>2, InCall
<1>5. s.at = "insert" /\ s.key = c.key /\ ~IsLeaf(s.page)
  BY <1>3, <1>4 DEF TurnsBack, PlaceOK
<1>6. s \in InsertCall
  <2>1. op' \in [Threads -> CallState]
    BY PopParentKeeps DEF IInv, TypeOK, CallState
  <2>2. s \in CallState
    BY <2>1, <1>3 DEF IInv, TypeOK
  <2> QED
    BY <2>2, <1>5, CallsApart
<1>7. \A k : Settling(op[t], k) => Settling(s, k)
  BY <1>4, <1>5, <1>6 DEF Settling, Pending, CallIs
<1> QED
  BY <1>2, <1>3, <1>7, QuietMovesIndex

\* The keys of the leaves change one at a time, and are accounted for.
LEMMA NextMovesIndex ==
    ASSUME ObjectID = {0}, IInv, IInv', PagesSorted, KeysInv, OrderInv, Alone, [Next]_vars, Accounted
    PROVE  Moves
<1>1. CASE UNCHANGED vars
  <2>1. UNCHANGED <<pages, dbobjects, op, stored>>
    BY <1>1 DEF vars, history
  <2>2. LeafKeys' = LeafKeys
    BY <2>1, QuietTree DEF KeysInv
  <2>3. \A c : Pending(c)' <=> Pending(c)
    BY <2>1 DEF Pending, IsLeaf
  <2>4. \A s, k : Settling(s, k)' <=> Settling(s, k)
    BY <2>3 DEF Settling, CallIs
  <2>5. Accounted'
    BY <2>1, <2>2, <2>4 DEF Accounted
  <2> QED
    BY <2>2, <2>5 DEF Moves, IndexMoves
<1>2. Inserters \subseteq Threads /\ Scanners \subseteq Threads
  BY DEF Threads
<1> QED
  BY <1>1, <1>2, SearchMovesIndex, PopParentMovesIndex, TryInsertMovesIndex, SplitMovesIndex,
     PublishRootMovesIndex, InitRootMovesIndex
     DEF Next, InsertStep, ScanStep, Rest

LEMMA InitAccounted == ASSUME Init PROVE Accounted
<1>1. \A p \in DOMAIN pages : pages[p].items = <<>>
  BY DEF Init, LeafPage
<1> QED
  BY <1>1 DEF Accounted, LeafKeys, KeysIn

-----------------------------------------------------------------------------
(* Scans that nothing is inserted beside. *)

NoInserts == \A t \in Threads : op[t] \notin InsertCall \cup RootCall

LEMMA Undisturbed ==
    ASSUME ObjectID = {0}, IInv, OrderInv, OneLevel, Accounted, NoInserts
    PROVE  AllHung /\ LeafKeys = stored[0]
<1>1. \A t \in Threads, c \in InsertCall : ~CallIs(op[t], c)
  BY DEF NoInserts, CallIs
<1>2. AllHung
  BY <1>1 DEF OrderInv, InOrder, LeavesHung, Carried, AllHung
<1>3. LeafKeys = stored[0]
  BY <1>1 DEF Accounted, Settling, IInv, StoredInLeaves
<1> QED
  BY <1>2, <1>3

\* No key of leaf p behind position idx, and none of a later leaf, is below k; none is k.
From(p, idx, k) ==
    Below(p, k) /\ \A i \in DOMAIN pages[p].items : idx < i => k <= pages[p].items[i].key
Past(p, idx, k) ==
    Below(p, k) /\ \A i \in DOMAIN pages[p].items : idx < i => k < pages[p].items[i].key

DueIn(c) == c.due = {k \in stored[0] : c.key <= k /\ k <= c.end}
Increasing(out) == \A i, j \in DOMAIN out : i < j => out[i] < out[j]
Yielded(c) == (\A k \in ToSet(c.out) : c.key <= k /\ k <= c.end) /\ Increasing(c.out)
PastAll(c) == \A k \in ToSet(c.out) : Past(c.page, c.idx, k)

Exact(c) ==
    /\ DueIn(c) /\ Yielded(c)
    /\ c.at \in {"descend", "position"} => c.out = <<>>
    /\ c.at = "position" => Below(c.page, c.key)
    /\ c.at \in {"next", "fetch"} => From(c.page, c.idx, c.key) /\ PastAll(c)
    /\ c.at = "fetch" => c.idx < Len(pages[c.page].items)
ExactInv == \A t \in Threads : op[t] \in ScanCall => Exact(op[t])

\* The next leaf is past what is below it.
LEMMA NextIsPast ==
    ASSUME IInv, PagesSorted, Ranks, LeavesAscend, NEW p \in DOMAIN pages, IsLeaf(p),
           NEW q, q = pages[p].right, q # NULL_PTR, NEW k \in Nat, Below(p, k)
    PROVE  Past(q, 0, k) /\ Len(pages[q].items) > 0
<1>1. q \in DOMAIN pages /\ IsLeaf(q) /\ q \notin ObjectID
  BY RightIsLater
<1>2. FirstKey(q) \in KeysIn(pages[q].items) /\ FirstKey(q) \in Nat /\ k < FirstKey(q)
  BY <1>1, KeysAreNats DEF Below
<1>3. Len(pages[q].items) > 0 /\ pages[q].items \in Seq(Tuple)
  BY <1>1, PageFacts
<1>4. ASSUME NEW i \in DOMAIN pages[q].items PROVE k < pages[q].items[i].key
  <2>1. PICK y \in KeysIn(pages[q].items) : y = pages[q].items[i].key
    BY DEF KeysIn
  <2>2. y \in Nat /\ FirstKey(q) <= y
    BY <1>1, FirstIsLeast
  <2> QED
    BY <2>1, <2>2, <1>2
<1>5. ASSUME NEW r, r = pages[q].right, r # NULL_PTR PROVE k < FirstKey(r)
  <2>1. r \in DOMAIN pages /\ IsLeaf(r) /\ r \notin ObjectID
    BY <1>1, <1>5, RightIsLater
  <2>2. FirstKey(r) \in Nat
    BY <2>1, KeysAreNats
  <2>3. FirstKey(q) < FirstKey(r)
    BY <1>1, <1>2, <1>5 DEF LeavesAscend, Below
  <2> QED
    BY <2>2, <2>3, <1>2
<1> QED
  BY <1>3, <1>4, <1>5 DEF Past, Below

\* The first position of a scan has no key of its range before it.
LEMMA PositionExact ==
    ASSUME IInv, PagesSorted, NEW c \in ScanCall, Exact(c), c.at = "position",
           NEW items, items = pages[c.page].items, items \in Seq(Tuple), Sorted(items),
           NEW s \in ScanCall, s.at = "next", s.idx = PartitionLower(items, c.key),
           s.page = c.page, s.out = c.out, SameScan(s, c)
    PROVE  Exact(s)
<1>1. PICK a \in Nat : a = c.key
  BY TreeAssumption DEF ScanCall
<1>2. ASSUME NEW i \in DOMAIN items, s.idx < i PROVE a <= items[i].key
  <2>1. items[i].key < a <=> i <= PartitionLower(items, a)
    BY PartitionSplits
  <2>2. PartitionLower(items, a) \in Nat /\ i \in Nat /\ items[i].key \in Nat
    BY PartitionBounds, TuplesOf
  <2> QED
    BY <2>1, <2>2, <1>1, <1>2
<1>3. From(s.page, s.idx, s.key)
  BY <1>1, <1>2 DEF From, Exact, SameScan
<1>4. c.out = <<>>
  BY DEF Exact
<1>5. PastAll(s)
  BY <1>4 DEF PastAll, ToSet
<1>6. DueIn(s) /\ Yielded(s)
  BY DEF Exact, DueIn, Yielded, SameScan
<1> QED
  BY <1>3, <1>5, <1>6 DEF Exact

\* A scan that goes on to the next leaf has passed what it yielded.
LEMMA AdvanceExact ==
    ASSUME IInv, PagesSorted, Ranks, LeavesAscend, NEW c \in ScanCall, Exact(c), c.at = "next",
           NEW p \in DOMAIN pages, p = c.page, IsLeaf(p), NEW right, right = pages[p].right,
           NEW s \in ScanCall, s.out = c.out, SameScan(s, c),
           Advanced(s, c, Len(pages[p].items), right)
    PROVE  Exact(s)
<1>1. DueIn(s) /\ Yielded(s)
  BY DEF Exact, DueIn, Yielded, SameScan
<1>2. From(p, c.idx, c.key) /\ PastAll(c) /\ c.key \in Nat /\ ToSet(c.out) \subseteq Nat
  <2>1. c.key \in Key /\ c.out \in Seq(Key)
    BY DEF ScanCall
  <2>2. ToSet(c.out) \subseteq Key
    BY <2>1, ElementOfSeq DEF ToSet
  <2> QED
    BY <2>1, <2>2, TreeAssumption DEF Exact
<1>3. CASE c.idx < Len(pages[p].items) /\ s.at = "fetch" /\ s.page = c.page /\ s.idx = c.idx
  BY <1>1, <1>2, <1>3 DEF Exact, PastAll, SameScan
<1>4. CASE right # NULL_PTR /\ s.at = "fetch" /\ s.page = right /\ s.idx = 0
  <2>1. \A k \in Nat : Below(p, k) => Past(right, 0, k) /\ 0 < Len(pages[right].items)
    BY <1>4, NextIsPast
  <2>2. PastAll(s)
    BY <2>1, <1>2, <1>4 DEF PastAll, Past
  <2>3. Below(p, c.key)
    BY <1>2 DEF From
  <2>4. Past(right, 0, c.key) /\ 0 < Len(pages[right].items)
    BY <2>1, <2>3, <1>2
  <2>5. right \in DOMAIN pages
    BY <1>4, RightIsLater
  <2>6. \A i \in DOMAIN pages[right].items : pages[right].items[i].key \in Nat
    BY <2>5, PageFacts, TuplesOf
  <2>7. From(right, 0, c.key)
    BY <2>4, <2>6, <1>2 DEF From, Past
  <2> QED
    BY <2>2, <2>4, <2>7, <1>1, <1>4 DEF Exact, SameScan
<1>5. CASE s.at = "end"
  BY <1>1, <1>5 DEF Exact
<1> QED
  BY <1>3, <1>4, <1>5 DEF Advanced

\* A scan yields the least key that it owes, or owes none any more.
Takes(s, c, y) ==
    /\ y \in Owed(c) /\ \A k \in Owed(c) : y <= k
    /\ Owed(s) = Owed(c) \ {y} /\ s.out = Append(c.out, y)

LEMMA FetchExact ==
    ASSUME Objects = 1, IInv, PagesSorted, Ranks, LeavesAscend, LeafKeys = stored[0],
           NEW c \in ScanCall, Exact(c), ScanSound(c), c.at = "fetch",
           NEW p \in DOMAIN pages, p = c.page, IsLeaf(p), NEW items, items = pages[p].items,
           NEW n \in DOMAIN items, n = c.idx + 1,
           NEW s \in ScanCall, SameScan(s, c), NEW y, y = items[n].key, Fetched(s, c, y)
    PROVE  Exact(s) /\ (s.out = c.out \/ Takes(s, c, y))
<1>1. /\ items \in Seq(Tuple) /\ Sorted(items) /\ DOMAIN items = 1 .. Len(items)
      /\ y \in Nat /\ y \in KeysIn(items) /\ y \in LeafKeys
  BY PageFacts, TuplesOf
<1>2. DueIn(s) /\ DueIn(c)
  BY DEF Exact, DueIn, SameScan
<1>3. CASE s.at = "end" /\ s.out = c.out
  BY <1>2, <1>3 DEF Exact, Yielded, SameScan
<1>4. CASE /\ y <= c.end /\ s.at = "next" /\ s.page = c.page /\ s.idx = n
           /\ s.out = Append(c.out, y)
  <2>1. /\ c.idx \in Nat /\ c.idx < n /\ n \in Nat /\ c.key \in Nat /\ c.end \in Nat
        /\ c.out \in Seq(Key) /\ y \in Key
    <3>1. c.idx \in Nat /\ c.key \in Key /\ c.end \in Key /\ c.out \in Seq(Key)
      BY DEF ScanCall
    <3>2. c.idx < n /\ n \in Nat
      BY <3>1
    <3>3. y \in Key
      BY <1>1 DEF LeafKeys
    <3> QED
      BY <3>1, <3>2, <3>3, TreeAssumption
  <2>2. ToSet(c.out) \subseteq Nat
    <3>1. ToSet(c.out) \subseteq Key
      BY <2>1, ElementOfSeq DEF ToSet
    <3> QED
      BY <3>1, TreeAssumption
  <2>3. /\ From(p, c.idx, c.key) /\ c.key <= y
        /\ \A k \in ToSet(c.out) : Past(p, c.idx, k) /\ k < y
    BY <2>1 DEF Exact, PastAll, From, Past
  <2>4. /\ Len(s.out) = Len(c.out) + 1 /\ ToSet(s.out) = ToSet(c.out) \cup {y}
        /\ \A i \in 1 .. Len(c.out) : s.out[i] = c.out[i]
        /\ s.out[Len(c.out) + 1] = y
        /\ DOMAIN s.out = 1 .. Len(c.out) + 1
    <3>1. PICK o \in Seq(Key) : o = c.out
      BY <2>1
    <3>2. /\ s.out \in Seq(Key) /\ Len(s.out) = Len(o) + 1 /\ s.out[Len(o) + 1] = y
          /\ \A i \in 1 .. Len(o) : s.out[i] = o[i]
      BY <3>1, <2>1, <1>4, AppendProperties
    <3>3. Len(o) \in Nat /\ DOMAIN o = 1 .. Len(o) /\ DOMAIN s.out = 1 .. Len(o) + 1
      BY <3>2, LenProperties
    <3>4. ToSet(s.out) = ToSet(o) \cup {y}
      BY <3>2, <3>3 DEF ToSet
    <3> QED
      BY <3>1, <3>2, <3>3, <3>4
  <2>5. \A i \in DOMAIN items : n < i => y < items[i].key
    BY <1>1 DEF Sorted
  <2>6. Past(p, n, y)
    BY <2>5, <1>1 DEF Past, LeavesAscend
  <2>7. \A i \in DOMAIN items : n < i => c.idx < i
    BY <2>1, <1>1
  <2>8. PastAll(s)
    BY <2>3, <2>4, <2>6, <2>7, <1>4 DEF PastAll, Past
  <2>9. From(s.page, s.idx, s.key)
    BY <2>3, <2>7, <1>4 DEF From, SameScan
  <2>10. Yielded(s)
    <3>1. \A k \in ToSet(s.out) : s.key <= k /\ k <= s.end
      BY <2>3, <2>4, <1>4 DEF Exact, Yielded, SameScan
    <3>2. ASSUME NEW i \in DOMAIN s.out, NEW j \in DOMAIN s.out, i < j PROVE s.out[i] < s.out[j]
      <4>1. Len(c.out) \in Nat /\ DOMAIN c.out = 1 .. Len(c.out)
        BY <2>1, LenProperties
      <4>2. i \in 1 .. Len(c.out) /\ (j \in 1 .. Len(c.out) \/ j = Len(c.out) + 1)
        BY <3>2, <4>1, <2>4
      <4>3. CASE j \in 1 .. Len(c.out)
        BY <3>2, <4>1, <4>2, <4>3, <2>4 DEF Exact, Yielded, Increasing
      <4>4. CASE j = Len(c.out) + 1
        <5>1. c.out[i] \in ToSet(c.out)
          BY <4>1, <4>2 DEF ToSet
        <5> QED
          BY <5>1, <4>2, <4>4, <2>3, <2>4
      <4> QED
        BY <4>2, <4>3, <4>4
    <3> QED
      BY <3>1, <3>2 DEF Yielded, Increasing
  <2>11. y \notin ToSet(c.out) /\ y \in c.due
    BY <2>2, <2>3, <1>1, <1>2, <1>4 DEF DueIn
  <2>12. \A k \in Owed(c) : y <= k
    BY NextIsLeast DEF ScanSound
  <2>13. Takes(s, c, y)
    BY <2>4, <2>11, <2>12, <1>4 DEF Takes, Owed, SameScan
  <2> QED
    BY <2>8, <2>9, <2>10, <2>13, <1>2, <1>4 DEF Exact
<1> QED
  BY <1>3, <1>4 DEF Fetched

-----------------------------------------------------------------------------
(* What a step shows of the scans. *)

View(s) == IF s \in ScanCall THEN [rest |-> Owed(s), out |-> s.out] ELSE NoScan

Begins(old, new) ==
    /\ old = NoScan
    /\ \E a, b \in Key : new = [rest |-> {k \in LeafKeys : a <= k /\ k <= b}, out |-> <<>>]
Yields(old, new) ==
    /\ old # NoScan
    /\ \E k \in old.rest : /\ \A j \in old.rest : k <= j
                           /\ new = [rest |-> old.rest \ {k}, out |-> Append(old.out, k)]
Ends(old, new) == old # NoScan /\ old.rest = {} /\ new = NoScan

Shows(t, old, new) ==
    \/ new = old
    \/ /\ t \in Scanners /\ LeafKeys' = LeafKeys
       /\ Begins(old, new) \/ Yields(old, new) \/ Ends(old, new)

ShownStep ==
    \/ op' = op
    \/ \E t \in Threads, s \in CallState :
          op' = [op EXCEPT ![t] = s] /\ Shows(t, View(op[t]), View(s))
Serves == ExactInv' /\ ShownStep

LEMMA ViewIsScan ==
    ASSUME NEW c \in ScanCall
    PROVE  /\ View(c) # NoScan /\ View(c).rest = Owed(c) /\ View(c).out = c.out
           /\ View(c) = [rest |-> Owed(c), out |-> c.out]
<1>1. View(c) = [rest |-> Owed(c), out |-> c.out]
  BY DEF View
<1>2. c.out \in Seq(Key) /\ Owed(c) \in SUBSET Key
  BY DEF ScanCall, Owed
<1>3. View(c) \in [rest : SUBSET Key, out : Seq(Key)]
  BY <1>1, <1>2
<1> QED
  BY <1>1, <1>3, ScanAssumption

\* A step of a scan that leaves the pages as they are.
LEMMA QuietServes ==
    ASSUME IInv, IInv', Quiet, ExactInv, NEW t \in Threads, NEW s, op' = [op EXCEPT ![t] = s],
           s \in ScanCall => Exact(s), Shows(t, View(op[t]), View(s))
    PROVE  Serves
<1>1. op'[t] = s /\ \A u \in Threads : u # t => op'[u] = op[u]
  BY DEF IInv, TypeOK
<1>2. s \in CallState
  BY <1>1 DEF IInv, TypeOK, CallState
<1>3. ASSUME NEW d, Exact(d) PROVE Exact(d)'
  <2>1. pages' = pages /\ stored' = stored
    BY DEF Quiet
  <2> QED
    BY <2>1, <1>3 DEF Exact, DueIn, Yielded, Below, From, Past, PastAll, FirstKey
<1>4. ASSUME NEW u \in Threads, NEW d, d = op'[u], d \in ScanCall PROVE Exact(d)'
  <2>1. Exact(d)
    BY <1>1, <1>4 DEF ExactInv
  <2> QED
    BY <2>1, <1>3
<1>5. ExactInv'
  BY <1>4 DEF ExactInv, ScanCall
<1> QED
  BY <1>2, <1>5 DEF Serves, ShownStep

\* An insertion shows nothing of scans, and no thread scans while it goes on.
LEMMA InsertServes ==
    ASSUME IInv, IInv', ReadersApart, ExactInv, NEW t \in Threads, InsertionStep(t)
    PROVE  Serves
<1>1. op[t] \notin ScanCall
  BY InsertionEnds
<1>2. PICK s : op' = [op EXCEPT ![t] = s] /\ s \notin ScanCall
  BY InsertionEnds
<1>3. Shows(t, View(op[t]), View(s))
  BY <1>1, <1>2 DEF Shows, View
<1>4. CASE \E o \in ObjectID, k \in Key : BeginInsert(t, o, k)
  <2>1. Quiet
    BY <1>4 DEF Quiet, BeginInsert
  <2> QED
    BY <2>1, <1>2, <1>3, QuietServes
<1>5. CASE TryInsert(t) \/ Split(t) \/ PopParent(t) \/ PublishRoot(t) \/ InitRoot(t)
  <2>1. op[t] \in InsertCall \cup RootCall
    BY <1>5, TryInsertDoes, SplitDoes, PopParentDoes, PublishRootDoes, InitRootDoes
  <2>2. op'[t] = s /\ \A u \in Threads : u # t => op'[u] = op[u]
    BY <1>2 DEF IInv, TypeOK
  <2>3. \A u \in Threads : op'[u] \notin ScanCall
    BY <2>1, <2>2, <1>2 DEF ReadersApart
  <2>4. ExactInv'
    BY <2>3 DEF ExactInv, ScanCall
  <2>5. s \in CallState
    BY <2>2 DEF IInv, TypeOK, CallState
  <2> QED
    BY <2>4, <2>5, <1>2, <1>3 DEF Serves, ShownStep
<1> QED
  BY <1>4, <1>5 DEF InsertionStep

Settings ==
    /\ IInv /\ IInv' /\ PagesSorted /\ Ranks /\ KeysInv /\ OrderInv /\ ScansOK
    /\ OneLevel /\ ReadersApart /\ ReadersApart' /\ Accounted /\ ExactInv

LEMMA BeginScanServes ==
    ASSUME ObjectID = {0}, Settings, NEW t \in Scanners,
           NEW o \in ObjectID, NEW a \in Key, NEW b \in Key, BeginScan(t, o, a, b)
    PROVE  Serves
<1> USE DEF Settings
<1>1. t \in Threads /\ o = 0
  BY DEF Threads
<1>2. Quiet /\ op[t].at = "idle"
  BY <1>1, BeginScanDoes
<1>3. PICK s \in ScanCall : /\ op' = [op EXCEPT ![t] = s] /\ s.page = dbobjects[o]
                            /\ s.key = a /\ s.end = b /\ s.out = <<>>
                            /\ s.due = {k \in stored[o] : a <= k /\ k <= b}
                            /\ Arrives(s)
  BY <1>1, BeginScanDoes
<1>4. op'[t] = s /\ \A u \in Threads : u # t => op'[u] = op[u]
  BY <1>1, <1>3 DEF IInv, TypeOK
<1>5. op[t] \notin InsertCall \cup RootCall \cup ScanCall
  BY <1>2 DEF InsertCall, RootCall, ScanCall
<1>6. NoInserts
  BY <1>1, <1>4, <1>5 DEF NoInserts, ReadersApart
<1>7. AllHung /\ LeafKeys = stored[0]
  BY <1>6, Undisturbed
<1>8. s.at = "position" => Below(s.page, s.key)
  <2>1. PICK root : root = dbobjects[0]
    OBVIOUS
  <2>2. IsLeaf(root) => pages[root].right = NULL_PTR
    BY <2>1, <1>7, LeafRoot DEF KeysInv
  <2> QED
    BY <2>1, <2>2, <1>1, <1>3 DEF Arrives, Below
<1>9. s.at \in {"descend", "position"}
  BY <1>3 DEF Arrives
<1>10. DueIn(s) /\ Yielded(s) /\ ToSet(s.out) = {}
  BY <1>1, <1>3 DEF DueIn, Yielded, Increasing, ToSet
<1>11. Exact(s)
  BY <1>3, <1>8, <1>9, <1>10 DEF Exact
<1>12. View(s) = [rest |-> {k \in LeafKeys : a <= k /\ k <= b}, out |-> <<>>]
  BY <1>1, <1>3, <1>7, <1>10 DEF View, Owed
<1>13. View(op[t]) = NoScan
  BY <1>5 DEF View
<1>14. LeafKeys' = LeafKeys
  BY <1>2, QuietTree DEF Quiet, KeysInv
<1>15. Shows(t, View(op[t]), View(s))
  BY <1>12, <1>13, <1>14 DEF Shows, Begins
<1> QED
  BY <1>1, <1>2, <1>3, <1>11, <1>15, QuietServes

LEMMA DescendServes ==
    ASSUME ObjectID = {0}, Settings, NEW t \in Threads, Descend(t)
    PROVE  Serves
<1> USE DEF Settings
<1>1. PICK c : c = op[t]
  OBVIOUS
<1>2. Quiet /\ c.at = "descend"
  BY <1>1 DEF Quiet, Descend, history
<1>3. CASE c \in InsertCall
  <2>1. c \notin ScanCall
    BY <1>3 DEF InsertCall, ScanCall
  <2>2. PICK s \in InsertCall : op' = [op EXCEPT ![t] = s]
    BY <2>1, <1>1, DescendDoes
  <2>3. s \notin ScanCall
    BY <2>2 DEF InsertCall, ScanCall
  <2>4. Shows(t, View(op[t]), View(s))
    BY <2>1, <2>3, <1>1 DEF Shows, View
  <2> QED
    BY <2>2, <2>3, <2>4, <1>2, QuietServes
<1>4. CASE c \in ScanCall
  <2>1. c \notin InsertCall
    BY <1>4 DEF InsertCall, ScanCall
  <2>2. PICK s \in ScanCall :
           /\ op' = [op EXCEPT ![t] = s]
           /\ s.page = Child(pages[c.page], c.key) /\ s.key = c.key
           /\ s.end = c.end /\ s.due = c.due /\ s.out = c.out
           /\ s.at = IF IsLeaf(s.page) THEN "position" ELSE "descend"
    BY <2>1, <1>1, DescendDoes
  <2>3. Exact(c) /\ ScanSound(c)
    BY <1>1, <1>4 DEF ExactInv, ScansOK
  <2>4. AllHung
    <3>1. NoInserts
      BY <1>1, <1>4 DEF ReadersApart, NoInserts
    <3> QED
      BY <3>1, Undisturbed
  <2>5. s.at = "position" => Below(s.page, s.key)
    <3>1. PICK q : q = Child(pages[c.page], c.key)
      OBVIOUS
    <3>2. PICK p \in Spine, k \in Key : p = c.page /\ k = c.key /\ q = Child(pages[p], k)
      BY <3>1, <2>3, <1>2, <1>4 DEF ScanSound, ScanCall
    <3>3. TreeOK /\ LeavesAscend
      BY DEF KeysInv, OrderInv, InOrder
    <3>4. IsLeaf(q) => Below(q, k)
      BY <3>2, <3>3, <2>4, ChildEnds
    <3> QED
      BY <3>1, <3>2, <3>4, <2>2
  <2>6. Exact(s)
    BY <2>2, <2>3, <2>5, <1>2 DEF Exact, DueIn, Yielded
  <2>7. Shows(t, View(op[t]), View(s))
    BY <2>2, <1>1, <1>4 DEF Shows, View, Owed
  <2> QED
    BY <2>2, <2>6, <2>7, <1>2, QuietServes
<1> QED
  BY <1>1, <1>2, <1>3, <1>4, DescendDoes

LEMMA PositionServes ==
    ASSUME Settings, NEW t \in Threads, Position(t)
    PROVE  Serves
<1> USE DEF Settings
<1>1. PICK c : c = op[t]
  OBVIOUS
<1>2. Quiet /\ c.at = "position"
  BY <1>1, PositionDoes
<1>3. PICK items : items = pages[c.page].items
  OBVIOUS
<1>4. c \in ScanCall /\ items \in Seq(Tuple) /\ Sorted(items)
  BY <1>1, <1>2, <1>3, ScanAtLeaf
<1>5. PICK s \in ScanCall : /\ op' = [op EXCEPT ![t] = s] /\ s.at = "next"
                            /\ s.idx = PartitionLower(items, c.key)
                            /\ s.page = c.page /\ s.out = c.out /\ SameScan(s, c)
  BY <1>1, <1>3, PositionDoes
<1>6. Exact(c)
  BY <1>1, <1>4 DEF ExactInv
<1>7. Exact(s)
  BY <1>2, <1>3, <1>4, <1>5, <1>6, PositionExact
<1>8. Shows(t, View(op[t]), View(s))
  BY <1>1, <1>4, <1>5 DEF Shows, View, Owed, SameScan
<1> QED
  BY <1>2, <1>5, <1>7, <1>8, QuietServes

LEMMA AdvanceServes ==
    ASSUME Settings, NEW t \in Threads, Advance(t)
    PROVE  Serves
<1> USE DEF Settings
<1>1. PICK c : c = op[t]
  OBVIOUS
<1>2. Quiet /\ c.at = "next"
  BY <1>1, AdvanceDoes
<1>3. c \in ScanCall /\ c.page \in DOMAIN pages /\ IsLeaf(c.page)
  BY <1>1, <1>2, ScanAtLeaf
<1>4. PICK p, right : p = c.page /\ right = pages[p].right
  OBVIOUS
<1>5. PICK s \in ScanCall : /\ op' = [op EXCEPT ![t] = s] /\ s.out = c.out /\ SameScan(s, c)
                            /\ Advanced(s, c, Len(pages[p].items), right)
  BY <1>1, <1>4, AdvanceDoes
<1>6. Exact(c) /\ LeavesAscend
  BY <1>1, <1>3 DEF ExactInv, OrderInv, InOrder
<1>7. Exact(s)
  BY <1>2, <1>3, <1>4, <1>5, <1>6, AdvanceExact
<1>8. Shows(t, View(op[t]), View(s))
  BY <1>1, <1>3, <1>5 DEF Shows, View, Owed, SameScan
<1> QED
  BY <1>2, <1>5, <1>7, <1>8, QuietServes

LEMMA FetchServes ==
    ASSUME Objects = 1, Settings, NEW t \in Scanners, Fetch(t)
    PROVE  Serves
<1> USE DEF Settings
<1>1. PICK c, n : c = op[t] /\ n = c.idx + 1
  OBVIOUS
<1>2. PICK p, items : p = c.page /\ items = pages[p].items
  OBVIOUS
<1>3. t \in Threads /\ ObjectID = {0}
  BY DEF Threads, ObjectID
<1>4. Quiet /\ c.at = "fetch"
  BY <1>1, <1>3, FetchDoes
<1>5. /\ c \in ScanCall /\ p \in DOMAIN pages /\ IsLeaf(p)
      /\ items \in Seq(Tuple) /\ c.idx \in Nat
  BY <1>1, <1>2, <1>3, <1>4, ScanAtLeaf
<1>6. Exact(c) /\ ScanSound(c) /\ LeavesAscend
  BY <1>1, <1>3, <1>5 DEF ExactInv, ScansOK, OrderInv, InOrder
<1>7. c.idx < Len(items)
  BY <1>2, <1>4, <1>6 DEF Exact
<1>8. LeafKeys = stored[0]
  <2>1. NoInserts
    BY <1>1, <1>3, <1>5 DEF ReadersApart, NoInserts
  <2> QED
    BY <2>1, <1>3, Undisturbed
<1>9. Len(items) \in Nat
  BY <1>5, TuplesOf
<1>10. PICK s \in ScanCall : /\ n \in DOMAIN items /\ op' = [op EXCEPT ![t] = s]
                             /\ SameScan(s, c) /\ Fetched(s, c, items[n].key)
  <2>1. ~(c.idx >= Len(items))
    BY <1>5, <1>7, <1>9
  <2> QED
    BY <2>1, <1>1, <1>2, <1>3, FetchDoes
<1>11. PICK y : y = items[n].key
  OBVIOUS
<1>12. Exact(s) /\ (s.out = c.out \/ Takes(s, c, y))
  BY <1>1, <1>2, <1>4, <1>5, <1>6, <1>8, <1>10, <1>11, FetchExact
<1>13. LeafKeys' = LeafKeys
  BY <1>4, QuietTree DEF Quiet, KeysInv
<1>14. Shows(t, View(op[t]), View(s))
  <2>1. CASE s.out = c.out
    BY <2>1, <1>1, <1>5, <1>10 DEF Shows, View, Owed, SameScan
  <2>2. CASE Takes(s, c, y)
    <3>1. Yields(View(c), View(s))
      BY <2>2, <1>5, ViewIsScan DEF Yields, Takes
    <3> QED
      BY <3>1, <1>1, <1>13 DEF Shows
  <2> QED
    BY <2>1, <2>2, <1>12
<1> QED
  BY <1>3, <1>4, <1>10, <1>12, <1>14, QuietServes

LEMMA EndScanServes ==
    ASSUME Settings, NEW t \in Scanners, EndScan(t)
    PROVE  Serves
<1> USE DEF Settings
<1>1. PICK c : c = op[t]
  OBVIOUS
<1>2. Quiet /\ c.at = "end" /\ op' = [op EXCEPT ![t] = Idle] /\ t \in Threads
  BY <1>1 DEF EndScan, Quiet, history, Step, Threads
<1>3. c \in ScanCall
  BY <1>1, <1>2, ScanAtLeaf
<1>4. Owed(c) = {}
  BY <1>1, <1>2, <1>3 DEF ScansOK, ScanSound
<1>5. Idle \notin ScanCall
  BY DEF Idle, ScanCall
<1>6. LeafKeys' = LeafKeys
  BY <1>2, QuietTree DEF Quiet, KeysInv
<1>7. Shows(t, View(op[t]), View(Idle))
  <2>1. Ends(View(c), View(Idle))
    BY <1>3, <1>4, <1>5, ViewIsScan DEF Ends, View
  <2> QED
    BY <2>1, <1>1, <1>6 DEF Shows
<1> QED
  BY <1>2, <1>5, <1>7, QuietServes

LEMMA NextServes ==
    ASSUME Objects = 1, Settings, [Next]_vars
    PROVE  Serves
<1>1. ObjectID = {0} /\ Inserters \subseteq Threads /\ Scanners \subseteq Threads
  BY DEF ObjectID, Threads
<1>2. ASSUME NEW t \in Threads, InsertionStep(t) PROVE Serves
  BY <1>2, InsertServes DEF Settings
<1>3. ASSUME NEW t \in Inserters, InsertStep(t) \/ \E o \in ObjectID, k \in Key : BeginInsert(t, o, k)
      PROVE  Serves
  BY <1>1, <1>2, <1>3, DescendServes DEF InsertStep, InsertionStep
<1>4. ASSUME NEW t \in Scanners, ScanStep(t) PROVE Serves
  BY <1>1, <1>4, DescendServes, PositionServes, AdvanceServes, FetchServes, EndScanServes DEF ScanStep
<1>5. ASSUME NEW t \in Scanners, NEW o \in ObjectID, NEW a \in Key, NEW b \in Key,
             BeginScan(t, o, a, b)
      PROVE  Serves
  BY <1>1, <1>5, BeginScanServes
<1>6. CASE UNCHANGED vars
  <2>1. UNCHANGED <<pages, stored, op>>
    BY <1>6 DEF vars, history
  <2>2. ASSUME NEW d, Exact(d) PROVE Exact(d)'
    BY <2>1, <2>2 DEF Exact, DueIn, Yielded, Below, From, Past, PastAll, FirstKey
  <2>3. ExactInv'
    BY <2>1, <2>2 DEF Settings, ExactInv, ScanCall
  <2>4. ShownStep
    BY <2>1 DEF ShownStep
  <2> QED
    BY <2>3, <2>4 DEF Serves
<1> QED
  BY <1>1, <1>3, <1>4, <1>5, <1>6 DEF Next, Rest

-----------------------------------------------------------------------------
(* The mapping. *)

IndexNow == [o \in ObjectID |-> UNION {KeysIn(pages[p].items) : p \in ToSet(Chain(o))}]
ScansNow == [t \in Scanners |-> IF Scanning(t)
                                THEN [rest |-> op[t].due \ ToSet(op[t].out), out |-> op[t].out]
                                ELSE NoScan]

\* The chain has the keys of all leaves.
LEMMA IndexIs ==
    Objects = 1 /\ IInv /\ PagesSorted /\ Ranks => IndexNow = [o \in {0} |-> LeafKeys]
<1> SUFFICES ASSUME Objects = 1, IInv, PagesSorted, Ranks
             PROVE  IndexNow = [o \in {0} |-> LeafKeys]
  OBVIOUS
<1>1. PICK own, idx, len : Ranked(own, idx, len)
  BY DEF Ranks
<1>2. ObjectID = {0} /\ \A p \in DOMAIN pages : IsLeaf(p) => own[p] = 0
  BY <1>1, OneTree
<1>3. 0 \in DOMAIN pages /\ IsLeaf(0)
  BY <1>2 DEF IInv, FirstLeaves
<1>4. PICK c : c = Chain(0)
  OBVIOUS
<1>5. \A p \in ToSet(c) : p \in DOMAIN pages /\ IsLeaf(p)
  <2>1. InRow(c, 0, own, idx)
    BY <1>1, <1>3, <1>4, RankedChain
  <2>2. c \in Seq(PageID)
    BY <2>1 DEF InRow
  <2>3. DOMAIN c = 1 .. Len(c)
    BY <2>2, LenProperties
  <2> QED
    BY <2>1, <2>3 DEF InRow, ToSet
<1>6. ASSUME NEW p \in DOMAIN pages, IsLeaf(p) PROVE p \in ToSet(c)
  <2>1. own[p] = own[0] /\ idx[0] <= idx[p]
    <3>1. idx[0] = 1 /\ own[p] \in ObjectID /\ idx[p] \in 1 .. len[own[p]] /\ len[0] \in Nat
      BY <1>1, <1>2, <1>6 DEF Ranked, Linked
    <3> QED
      BY <3>1, <1>2, <1>3, <1>6
  <2>2. PICK i : i = idx[p] - idx[0] + 1
    OBVIOUS
  <2>3. i \in 1 .. Len(c) /\ c[i] = p
    BY <2>1, <2>2, <1>1, <1>3, <1>4, <1>6, InChain
  <2>4. DOMAIN c = 1 .. Len(c)
    <3>1. c \in Seq(PageID)
      BY <1>1, <1>3, <1>4, RankedChain DEF InRow
    <3> QED
      BY <3>1, LenProperties
  <2> QED
    BY <2>3, <2>4 DEF ToSet
<1>7. \A p \in DOMAIN pages : KeysIn(pages[p].items) \subseteq Key
  BY KeysAreNats
<1>8. UNION {KeysIn(pages[p].items) : p \in ToSet(c)} = LeafKeys
  BY <1>5, <1>6, <1>7 DEF LeafKeys
<1> QED
  BY <1>2, <1>4, <1>8 DEF IndexNow

LEMMA ScansAre == IInv => ScansNow = [t \in Scanners |-> View(op[t])]
<1> SUFFICES ASSUME IInv, NEW t \in Scanners, NEW s, s = op[t]
             PROVE  Scanning(t) <=> s \in ScanCall
  BY DEF ScansNow, View, Owed
<1>1. s \in CallState
  BY DEF IInv, TypeOK, CallState, Threads
<1>2. CASE s \in {Idle, Panicked}
  BY <1>2 DEF Scanning, Idle, Panicked, ScanCall
<1>3. CASE s \in InsertCall
  BY <1>3 DEF Scanning, InsertCall, ScanCall
<1>4. CASE s \in RootCall
  <2>1. s = [at |-> s.at, root |-> s.root, call |-> s.call]
    BY <1>4 DEF RootCall
  <2>2. DOMAIN s = {"at", "root", "call"}
    BY <2>1
  <2>3. s \notin ScanCall
    BY <1>1, <1>4, CallsApart
  <2> QED
    BY <2>2, <2>3 DEF Scanning
<1>5. CASE s \in ScanCall
  BY <1>5 DEF Scanning, ScanCall
<1> QED
  BY <1>1, <1>2, <1>3, <1>4, <1>5 DEF CallState

LEMMA IndexVars ==
    /\ Index!vars = <<IndexNow, ScansNow>>
    /\ Index!vars' = <<IndexNow', ScansNow'>>
BY DEF Index!vars, IndexNow, ScansNow

IndexStep ==
    \/ /\ ScansNow' = ScansNow
       /\ \/ IndexNow' = IndexNow
          \/ \E o \in ObjectID, k \in Key :
                k \notin IndexNow[o] /\ IndexNow' = [IndexNow EXCEPT ![o] = @ \cup {k}]
    \/ /\ IndexNow' = IndexNow
       /\ \E t \in Scanners : \E new :
             /\ ScansNow' = [ScansNow EXCEPT ![t] = new]
             /\ \/ /\ ScansNow[t] = NoScan
                   /\ \E o \in ObjectID, a, b \in Key :
                         new = [rest |-> {k \in IndexNow[o] : a <= k /\ k <= b}, out |-> <<>>]
                \/ Yields(ScansNow[t], new) \/ Ends(ScansNow[t], new)

LEMMA IndexStepIs == IndexStep => [Index!Next]_(Index!vars)
<1> SUFFICES ASSUME IndexStep PROVE [Index!Next]_(Index!vars)
  OBVIOUS
<1>1. CASE ScansNow' = ScansNow /\ IndexNow' = IndexNow
  BY <1>1, IndexVars
<1>2. ASSUME ScansNow' = ScansNow, NEW o \in ObjectID, NEW k \in Key, k \notin IndexNow[o],
             IndexNow' = [IndexNow EXCEPT ![o] = @ \cup {k}]
      PROVE  Index!Next
  <2>1. Index!Insert
    BY <1>2 DEF Index!Insert, IndexNow, ScansNow
  <2> QED
    BY <2>1 DEF Index!Next
<1>3. ASSUME IndexNow' = IndexNow, NEW t \in Scanners, NEW new,
             ScansNow' = [ScansNow EXCEPT ![t] = new], ScansNow[t] = NoScan,
             NEW o \in ObjectID, NEW a \in Key, NEW b \in Key,
             new = [rest |-> {k \in IndexNow[o] : a <= k /\ k <= b}, out |-> <<>>]
      PROVE  Index!Next
  <2>1. /\ \E i \in ObjectID, start, end \in Key :
              /\ ScansNow[t] = NoScan
              /\ ScansNow' = [ScansNow EXCEPT ![t] =
                    [rest |-> {k \in IndexNow[i] : start <= k /\ k <= end}, out |-> <<>>]]
              /\ UNCHANGED IndexNow
    BY <1>3
  <2>2. Index!Begin(t)
    BY <2>1, Zenon DEF Index!Begin, IndexNow, ScansNow
  <2> QED
    BY <2>2 DEF Index!Next
<1>4. ASSUME IndexNow' = IndexNow, NEW t \in Scanners, NEW new,
             ScansNow' = [ScansNow EXCEPT ![t] = new], Yields(ScansNow[t], new)
      PROVE  Index!Next
  <2>1. Index!Yield(t)
    BY <1>4 DEF Index!Yield, IndexNow, ScansNow, Yields
  <2> QED
    BY <2>1 DEF Index!Next
<1>5. ASSUME IndexNow' = IndexNow, NEW t \in Scanners, NEW new,
             ScansNow' = [ScansNow EXCEPT ![t] = new], Ends(ScansNow[t], new)
      PROVE  Index!Next
  <2>1. Index!End(t)
    BY <1>5 DEF Index!End, IndexNow, ScansNow, Ends
  <2> QED
    BY <2>1 DEF Index!Next
<1>6. ASSUME IndexNow' = IndexNow, NEW t \in Scanners, NEW new,
             ScansNow' = [ScansNow EXCEPT ![t] = new],
             \/ /\ ScansNow[t] = NoScan
                /\ \E o \in ObjectID, a, b \in Key :
                      new = [rest |-> {k \in IndexNow[o] : a <= k /\ k <= b}, out |-> <<>>]
             \/ Yields(ScansNow[t], new) \/ Ends(ScansNow[t], new)
      PROVE  Index!Next
  <2>1. CASE /\ ScansNow[t] = NoScan
             /\ \E o \in ObjectID, a, b \in Key :
                   new = [rest |-> {k \in IndexNow[o] : a <= k /\ k <= b}, out |-> <<>>]
    <3>1. PICK o \in ObjectID, a \in Key, b \in Key :
             new = [rest |-> {k \in IndexNow[o] : a <= k /\ k <= b}, out |-> <<>>]
      BY <2>1
    <3> QED
      BY <2>1, <3>1, <1>3, <1>6
  <2>2. CASE Yields(ScansNow[t], new)
    BY <2>2, <1>4, <1>6
  <2>3. CASE Ends(ScansNow[t], new)
    BY <2>3, <1>5, <1>6
  <2> QED
    BY <2>1, <2>2, <2>3, <1>6
<1> QED
  BY <1>1, <1>2, <1>6, Zenon DEF IndexStep

\* In two states.
LEMMA MapIs ==
    ASSUME Objects = 1, IInv, IInv', PagesSorted, PagesSorted', Ranks, Ranks'
    PROVE  /\ IndexNow = [o \in {0} |-> LeafKeys] /\ ScansNow = [t \in Scanners |-> View(op[t])]
           /\ IndexNow' = [o \in {0} |-> LeafKeys'] /\ ScansNow' = [t \in Scanners |-> View(op'[t])]
<1>1. /\ IInv => ScansNow = [t \in Scanners |-> View(op[t])]
      /\ IInv /\ PagesSorted /\ Ranks => IndexNow = [o \in {0} |-> LeafKeys]
  BY ScansAre, IndexIs
<1>2. (IInv => ScansNow = [t \in Scanners |-> View(op[t])])'
  BY ScansAre, PTL
<1>3. (Objects = 1 /\ IInv /\ PagesSorted /\ Ranks => IndexNow = [o \in {0} |-> LeafKeys])'
  BY IndexIs, PTL
<1> QED
  BY <1>1, <1>2, <1>3

LEMMA StepIsIndexStep ==
    ASSUME Objects = 1, Settings, PagesSorted', Ranks', Serves, Moves
    PROVE  IndexStep
<1> USE DEF Settings
<1>1. /\ IndexNow = [o \in {0} |-> LeafKeys] /\ ScansNow = [t \in Scanners |-> View(op[t])]
      /\ IndexNow' = [o \in {0} |-> LeafKeys'] /\ ScansNow' = [t \in Scanners |-> View(op'[t])]
  BY MapIs
<1>2. ObjectID = {0}
  BY DEF ObjectID
<1>3. ScansNow' = ScansNow => IndexStep
  <2>1. \/ IndexNow' = IndexNow
        \/ \E o \in ObjectID, k \in Key :
              k \notin IndexNow[o] /\ IndexNow' = [IndexNow EXCEPT ![o] = @ \cup {k}]
    <3>1. CASE LeafKeys' = LeafKeys
      BY <3>1, <1>1
    <3>2. ASSUME NEW k \in Key, k \notin LeafKeys, LeafKeys' = LeafKeys \cup {k}
          PROVE  k \notin IndexNow[0] /\ IndexNow' = [IndexNow EXCEPT ![0] = @ \cup {k}]
      BY <3>2, <1>1
    <3> QED
      BY <3>1, <3>2, <1>2 DEF Moves, IndexMoves
  <2> QED
    BY <2>1 DEF IndexStep
<1>4. CASE op' = op
  BY <1>1, <1>3, <1>4
<1>5. ASSUME NEW t \in Threads, NEW s, op' = [op EXCEPT ![t] = s], Shows(t, View(op[t]), View(s))
      PROVE  IndexStep
  <2>1. op'[t] = s /\ \A u \in Threads : u # t => op'[u] = op[u]
    BY <1>5 DEF IInv, TypeOK
  <2>2. CASE View(s) = View(op[t])
    BY <2>1, <2>2, <1>1, <1>3 DEF Threads
  <2>3. CASE /\ t \in Scanners /\ LeafKeys' = LeafKeys
             /\ Begins(View(op[t]), View(s)) \/ Yields(View(op[t]), View(s)) \/ Ends(View(op[t]), View(s))
    <3>1. PICK old, new : old = View(op[t]) /\ new = View(s)
      OBVIOUS
    <3>2. IndexNow' = IndexNow /\ ScansNow' = [ScansNow EXCEPT ![t] = new] /\ ScansNow[t] = old
      BY <2>1, <2>3, <3>1, <1>1 DEF Threads
    <3>3. IndexNow[0] = LeafKeys
      BY <1>1
    <3>4. Begins(old, new) =>
             /\ old = NoScan
             /\ \E o \in ObjectID, a, b \in Key :
                   new = [rest |-> {k \in IndexNow[o] : a <= k /\ k <= b}, out |-> <<>>]
      BY <3>3, <1>2 DEF Begins
    <3>5. \/ /\ ScansNow[t] = NoScan
             /\ \E o \in ObjectID, a, b \in Key :
                   new = [rest |-> {k \in IndexNow[o] : a <= k /\ k <= b}, out |-> <<>>]
          \/ Yields(ScansNow[t], new) \/ Ends(ScansNow[t], new)
      <4>1. Begins(old, new) \/ Yields(old, new) \/ Ends(old, new)
        BY <2>3, <3>1
      <4> QED
        BY <4>1, <3>2, <3>4, Zenon
    <3>6. t \in Scanners
      BY <2>3
    <3> QED
      BY <3>2, <3>5, <3>6, Zenon DEF IndexStep
  <2> QED
    BY <2>2, <2>3, <1>5 DEF Shows
<1> QED
  BY <1>4, <1>5 DEF Serves, ShownStep

LEMMA InitIsIndex == ASSUME Objects = 1, Init, IInv, PagesSorted, Ranks PROVE Index!Init
<1>1. IndexNow = [o \in {0} |-> LeafKeys] /\ ScansNow = [t \in Scanners |-> View(op[t])]
  BY ScansAre, IndexIs
<1>2. LeafKeys = {}
  BY DEF Init, LeafPage, LeafKeys, KeysIn
<1>3. Idle \notin ScanCall
  BY DEF Idle, ScanCall
<1>4. ScansNow = [t \in Scanners |-> NoScan]
  BY <1>1, <1>3 DEF Init, View, Threads
<1>5. IndexNow = [o \in ObjectID |-> {}]
  BY <1>1, <1>2 DEF ObjectID
<1> QED
  BY <1>4, <1>5 DEF Index!Init, IndexNow, ScansNow

-----------------------------------------------------------------------------
(* The results. *)

ServesInv == Accounted /\ ExactInv

LEMMA NextImplements ==
    ASSUME Objects = 1, Alone, IInv, IInv', PagesSorted, PagesSorted', Ranks, Ranks', KeysInv,
           OrderInv, ScansOK, OneLevel, ReadersApart, ReadersApart', ServesInv, [Next]_vars
    PROVE  ServesInv' /\ [Index!Next]_(Index!vars)
<1>1. Settings /\ ObjectID = {0}
  BY DEF Settings, ServesInv, ObjectID
<1>2. Serves
  BY <1>1, NextServes
<1>3. Moves
  BY <1>1, NextMovesIndex DEF Settings
<1>4. IndexStep
  BY <1>1, <1>2, <1>3, StepIsIndexStep
<1> QED
  BY <1>2, <1>3, <1>4, IndexStepIs DEF Serves, Moves, ServesInv

LEMMA InitServes == ASSUME Init PROVE ServesInv
<1>1. Accounted
  BY InitAccounted
<1>2. \A t \in Threads : op[t] \notin ScanCall
  BY DEF Init, Idle, ScanCall
<1> QED
  BY <1>1, <1>2 DEF ServesInv, ExactInv

\* What IInv and the invariants of the order of the leaves come to.
LEMMA TreeInvariants ==
    ASSUME Objects = 1, ~Duplicates, Alone
    PROVE  Spec => [](IInv /\ PagesSorted /\ Ranks /\ KeysInv /\ OrderInv /\ ScansOK)
<1>1. Init => ScansOK
  BY InitScans
<1>2. /\ IInv /\ IInv' /\ PagesSorted /\ PagesSorted' /\ Ranks /\ KeysInv /\ OrderInv
      /\ [Next]_vars /\ ScansOK
      => ScansOK'
  BY NextKeepsScans
<1> QED
  BY <1>1, <1>2, Invariant, PagesInOrder, LeavesFormChains, KeysStayApart, LeavesInOrder,
     PTL DEF Spec

\* As long as nothing is inserted while a scan goes on, and the only tree has one
\* inner node at most, the tree is an ordered set of keys: an insertion adds its
\* key at one instant, the one at which a leaf gets it, and a scan yields exactly
\* the keys of its range, the least that is left at each step (66-88, 146-185,
\* 218-249).
THEOREM ServesAsIndex ==
    ASSUME Objects = 1, ~Duplicates, Alone
    PROVE  Spec /\ [](OneLevel /\ ReadersApart) => IndexSpec
<1>1. Init => ServesInv
  BY InitServes
<1>2. Init /\ IInv /\ PagesSorted /\ Ranks => Index!Init
  BY InitIsIndex
<1>3. /\ IInv /\ IInv' /\ PagesSorted /\ PagesSorted' /\ Ranks /\ Ranks' /\ KeysInv
      /\ OrderInv /\ ScansOK /\ OneLevel /\ ReadersApart /\ ReadersApart' /\ ServesInv
      /\ [Next]_vars
      => ServesInv' /\ [Index!Next]_(Index!vars)
  BY NextImplements
<1> QED
  BY <1>1, <1>2, <1>3, TreeInvariants, PTL DEF Spec, IndexSpec, Index!Spec

\* The keys that a scan has yielded are of its range and in order (11, and the
\* test at 449), under the same conditions.
THEOREM ScansInRange ==
    ASSUME Objects = 1, ~Duplicates, Alone
    PROVE  Spec /\ [](OneLevel /\ ReadersApart) => [](ScanInRange /\ ScanSorted)
<1>1. Init => ServesInv
  BY InitServes
<1>2. /\ IInv /\ IInv' /\ PagesSorted /\ PagesSorted' /\ Ranks /\ Ranks' /\ KeysInv
      /\ OrderInv /\ ScansOK /\ OneLevel /\ ReadersApart /\ ReadersApart' /\ ServesInv
      /\ [Next]_vars
      => ServesInv'
  BY NextImplements
<1>3. IInv /\ ServesInv => ScanInRange /\ ScanSorted
  <2> SUFFICES ASSUME IInv, ServesInv, NEW t \in Scanners, op[t].at = "next",
                      NEW out, out = op[t].out
               PROVE  /\ \A k \in ToSet(out) : op[t].key <= k /\ k <= op[t].end
                      /\ \A i \in 2 .. Len(out) : out[i - 1] <= out[i]
    BY DEF ScanInRange, ScanSorted
  <2>1. op[t] \in ScanCall
    BY CallOf, CallsApart DEF Threads
  <2>2. Yielded(op[t])
    BY <2>1 DEF ServesInv, ExactInv, Exact, Threads
  <2>3. out \in Seq(Key)
    BY <2>1 DEF ScanCall
  <2>4. Len(out) \in Nat /\ DOMAIN out = 1 .. Len(out)
    BY <2>3, LenProperties
  <2>5. ASSUME NEW i \in 2 .. Len(out) PROVE out[i - 1] <= out[i]
    <3>1. i - 1 \in DOMAIN out /\ i \in DOMAIN out /\ i - 1 < i
      BY <2>4
    <3>2. out[i - 1] < out[i]
      BY <3>1, <2>2 DEF Yielded, Increasing
    <3>3. Key \subseteq Nat
      BY TreeAssumption
    <3>4. out[i - 1] \in Key /\ out[i] \in Key
      BY <3>1, <2>3, <2>4, ElementOfSeq
    <3>5. out[i - 1] \in Nat /\ out[i] \in Nat
      BY <3>3, <3>4
    <3> QED
      BY <3>2, <3>5
  <2> QED
    BY <2>2, <2>5 DEF Yielded
<1> QED
  BY <1>1, <1>2, <1>3, TreeInvariants, PTL DEF Spec

\* A tree used by one thread, whose keys have room in one inner node, is an
\* ordered set of keys whose scans yield their range, in order.
THEOREM LoneTreeIsIndex ==
    ASSUME Objects = 1, ~Duplicates, \A t, u \in Threads : t = u,
           IsFiniteSet(Key), Cardinality(Key) <= NodeCap
    PROVE  Spec => IndexSpec /\ [](ScanInRange /\ ScanSorted)
<1>1. Alone
  BY DEF Alone, Threads
<1>2. ReadersApart
  BY DEF ReadersApart, InsertCall, RootCall, ScanCall
<1> QED
  BY <1>1, <1>2, TreeStaysLow, ServesAsIndex, ScansInRange, PTL
=============================================================================
