-------------------------- MODULE BTreeOnPoolProofs --------------------------
(***************************************************************************)
(* A tree on a pool that may be exhausted: what remains true when calls    *)
(* fail half way, and how many pages a call references at most.            *)
(***************************************************************************)
EXTENDS BTreeOnPool, BTreeOrderProofs

-----------------------------------------------------------------------------
(* The steps of the tree on a pool: those of BTree, and failures. *)

Failed(t) ==
    /\ op' = [op EXCEPT ![t] = Panicked]
    /\ UNCHANGED <<pages, dbobjects, history, aborted>>

\* A step of a call is a step of BTree.
LEMMA WorkIsNext ==
    ASSUME ~aborted, NEW t \in Threads, BeginCall(t) \/ Work(t)
    PROVE  Next
<1>1. CASE BeginCall(t)
  <2>1. ASSUME NEW o \in ObjectID, NEW r \in Ranges
        PROVE  r[1] \in Key /\ r[2] \in Key
    BY <2>1, FramesAssumption
  <2> QED
    BY <1>1, <2>1 DEF BeginCall, Next
<1>2. CASE Work(t)
  BY <1>2 DEF Work, Next
<1> QED
  BY <1>1, <1>2

\* What a thread does on the pool.
LEMMA PoolSteps ==
    ASSUME [NextOnPool]_varsOnPool
    PROVE  [Next]_vars \/ \E t \in Threads : Failed(t)
<1>1. CASE UNCHANGED varsOnPool
  BY <1>1 DEF varsOnPool
<1>2. CASE Rest /\ UNCHANGED poolVars
  BY <1>2 DEF Next
<1>3. ASSUME ~aborted, NEW t \in Threads, BeginCall(t) \/ CallStep(t)
      PROVE  [Next]_vars \/ Failed(t)
  <2>1. CASE BeginCall(t) \/ Work(t)
    BY <2>1, <1>3, WorkIsNext
  <2>2. CASE Get(t) \/ GetNew(t) \/ Drop(t)
    BY <2>2 DEF Get, GetNew, Drop
  <2>3. CASE Fail(t)
    BY <2>3 DEF Fail, Failed, Step
  <2> QED
    BY <1>3, <2>1, <2>2, <2>3 DEF CallStep
<1> QED
  BY <1>1, <1>2, <1>3 DEF NextOnPool

\* A call that fails leaves pages behind as it left them, and they are sound.
LEMMA FailedKeeps ==
    ASSUME IInv, NEW t \in Threads, Failed(t)
    PROVE  IInv'
<1>1. Panicked \in CallState /\ CallOK(Panicked)
  BY NoCall
<1> QED
  BY <1>1, QuietCall DEF Failed

-----------------------------------------------------------------------------
(* Levels of pages. *)

\* Page p is a root that is published and still zeroed.
Bare(p) == \E t \in Threads : op[t] \in RootCall /\ op[t].root = p

\* The pages that an insertion passed are on ever higher levels, from its own up
\* to the root it began at.
Stacked(lv, c) ==
    /\ \A i \in DOMAIN c.parents : lv[c.page] < lv[c.parents[i]]
    /\ \A i, j \in DOMAIN c.parents : i < j => lv[c.parents[j]] < lv[c.parents[i]]
Top(c) == IF c.parents = <<>> THEN c.page ELSE c.parents[1]
Climbs(lv, edge, c) ==
    /\ Stacked(lv, c) /\ Top(c) \in edge
    /\ c.at \in {"insert", "split"} /\ ~IsLeaf(c.page) => lv[c.tuple.value] < lv[c.page]
    /\ c.at = "parent" => lv[c.tuple.value] <= lv[c.page]
CallGraded(lv, edge, t, s) ==
    /\ s \in InsertCall => t \in Inserters /\ Climbs(lv, edge, s)
    /\ s \in RootCall => /\ t \in Inserters /\ Climbs(lv, edge, s.call)
                         /\ lv[s.root] = lv[s.call.page] + 1

\* Every page has a level above those of its children, and the pages of edge one
\* right above that of their first child: first children lead from a page of the
\* highest level down to a leaf.  A root is above them only once it is initialised;
\* until then it leads to a leaf.
TreeGraded(lv, edge, high) ==
    /\ lv \in [DOMAIN pages -> Nat] /\ edge \subseteq DOMAIN pages /\ high \in Nat
    /\ \A p \in DOMAIN pages :
          /\ lv[p] < NewID /\ (lv[p] <= high \/ Bare(p))
          /\ Bare(p) => \A c \in Children(pages[p]) : IsLeaf(c)
          /\ IsLeaf(p) => lv[p] = 0
          /\ ~IsLeaf(p) => \A c \in Children(pages[p]) : lv[c] < lv[p]
    /\ \E p \in edge : lv[p] = high
    /\ \A p \in edge :
          /\ ~Bare(p)
          /\ lv[p] # 0 => pages[p].child \in edge /\ lv[pages[p].child] = lv[p] - 1
    /\ \A o \in ObjectID : dbobjects[o] \in edge \/ Bare(dbobjects[o])
Graded(lv, edge, high) ==
    TreeGraded(lv, edge, high) /\ \A t \in Threads : CallGraded(lv, edge, t, op[t])

\* Levels are given to new pages, and those that were given remain.
Extends(lv, lw, high, top) == high <= top /\ \A p \in DOMAIN pages : lw[p] = lv[p]

\* No page goes or changes its type.
PagesStay == \A p \in DOMAIN pages : p \in DOMAIN pages' /\ (IsLeaf(p)' <=> IsLeaf(p))

\* What a call knows of levels stays true.
LEMMA GradesStay ==
    ASSUME PagesStay, NEW lv, NEW lw, \A p \in DOMAIN pages : lw[p] = lv[p],
           NEW edge, NEW edge2, edge \subseteq edge2,
           NEW t, NEW s \in CallState, CallOK(s), CallGraded(lv, edge, t, s)
    PROVE  CallGraded(lw, edge2, t, s)'
<1>1. ASSUME NEW c \in InsertCall, InsertOK(c), Climbs(lv, edge, c)
      PROVE  Climbs(lw, edge2, c)'
  <2>1. /\ c.page \in DOMAIN pages /\ \A i \in DOMAIN c.parents : c.parents[i] \in DOMAIN pages
        /\ c.at \in {"insert", "split"} /\ ~IsLeaf(c.page) => c.tuple.value \in DOMAIN pages
        /\ c.at = "parent" => c.tuple.value \in DOMAIN pages
    BY <1>1 DEF InsertOK, PlaceOK, CarriesSeparator
  <2>2. Stacked(lw, c)
    BY <1>1, <2>1 DEF Climbs, Stacked
  <2>3. Top(c) \in edge2
    BY <1>1 DEF Climbs
  <2>4. IsLeaf(c.page)' <=> IsLeaf(c.page)
    BY <2>1 DEF PagesStay
  <2>5. /\ c.at \in {"insert", "split"} /\ ~IsLeaf(c.page) => lw[c.tuple.value] < lw[c.page]
        /\ c.at = "parent" => lw[c.tuple.value] <= lw[c.page]
    BY <1>1, <2>1 DEF Climbs
  <2> QED
    BY <2>2, <2>3, <2>4, <2>5 DEF Climbs, Stacked, Top
<1>2. CASE s \in InsertCall
  <2>1. InsertOK(s) /\ s \notin RootCall
    BY <1>2, CallsApart DEF CallOK
  <2> QED
    BY <1>1, <1>2, <2>1 DEF CallGraded
<1>3. CASE s \in RootCall
  <2>1. /\ InsertOK(s.call) /\ s.call \in InsertCall /\ s.root \in DOMAIN pages
        /\ s.call.page \in DOMAIN pages /\ s \notin InsertCall
    BY <1>3, CallsApart DEF CallOK, RootOK, RootCall, InsertOK, PlaceOK
  <2>2. Climbs(lw, edge2, s.call)' /\ t \in Inserters /\ lv[s.root] = lv[s.call.page] + 1
    BY <1>1, <1>3, <2>1 DEF CallGraded
  <2> QED
    BY <2>1, <2>2 DEF CallGraded
<1> QED
  BY <1>2, <1>3 DEF CallGraded

\* A step of one thread leaves what the others know of levels true.
LEMMA CallsStayGraded ==
    ASSUME IInv, PagesStay, NEW lv, NEW lw, \A p \in DOMAIN pages : lw[p] = lv[p],
           NEW edge, NEW edge2, edge \subseteq edge2,
           \A u \in Threads : CallGraded(lv, edge, u, op[u]),
           NEW t \in Threads, NEW s, op' = [op EXCEPT ![t] = s], CallGraded(lw, edge2, t, s)'
    PROVE  \A u \in Threads : CallGraded(lw, edge2, u, op[u])'
<1> SUFFICES ASSUME NEW u \in Threads PROVE CallGraded(lw, edge2, u, op[u])'
  OBVIOUS
<1>1. op'[t] = s /\ (u # t => op'[u] = op[u])
  BY DEF IInv, TypeOK
<1>2. CASE u = t
  BY <1>1, <1>2 DEF CallGraded, Climbs
<1>3. CASE u # t
  <2>1. PICK d : d = op[u]
    OBVIOUS
  <2>2. d \in CallState /\ CallOK(d)
    BY <2>1, CallOf
  <2>3. CallGraded(lw, edge2, u, d)'
    BY <2>1, <2>2, GradesStay
  <2> QED
    BY <2>1, <2>3, <1>1, <1>3 DEF CallGraded, Climbs
<1> QED
  BY <1>2, <1>3

\* Which roots are bare changes only when one is published or initialised.
LEMMA BareStays ==
    ASSUME IInv, NEW t \in Threads, NEW s, op' = [op EXCEPT ![t] = s],
           op[t] \notin RootCall, s \notin RootCall, NEW p
    PROVE  Bare(p)' <=> Bare(p)
<1>1. op'[t] = s /\ \A u \in Threads : u # t => op'[u] = op[u]
  BY DEF IInv, TypeOK
<1> QED
  BY <1>1 DEF Bare

\* A step that changes neither pages nor roots.
LEMMA QuietGraded ==
    ASSUME IInv, NEW lv, NEW edge, NEW high, Graded(lv, edge, high),
           NEW t \in Threads, NEW s, op' = [op EXCEPT ![t] = s],
           op[t] \notin RootCall, s \notin RootCall,
           UNCHANGED <<pages, dbobjects>>, CallGraded(lv, edge, t, s)
    PROVE  Graded(lv, edge, high)'
<1>1. PagesStay
  BY DEF PagesStay, IsLeaf
<1>2. CallGraded(lv, edge, t, s)'
  BY DEF CallGraded, Climbs, IsLeaf
<1>3. \A u \in Threads : CallGraded(lv, edge, u, op[u])'
  BY <1>1, <1>2, CallsStayGraded DEF Graded
<1>4. \A p : Bare(p)' <=> Bare(p)
  BY BareStays
<1>5. TreeGraded(lv, edge, high)'
  BY <1>4 DEF Graded, TreeGraded, IsLeaf, NewID
<1> QED
  BY <1>3, <1>5 DEF Graded

\* A state that is no insertion needs no level.
LEMMA NoInsertionGraded ==
    ASSUME NEW lv, NEW edge, NEW t, NEW s, s \notin InsertCall \cup RootCall
    PROVE  CallGraded(lv, edge, t, s)
  BY DEF CallGraded

\* While one thread inserts no root is bare when an insertion begins.
LEMMA BeginInsertGraded ==
    ASSUME IInv, NEW lv, NEW edge, NEW high, Graded(lv, edge, high),
           \A t, u \in Inserters : t = u,
           NEW t \in Inserters, NEW o \in ObjectID, NEW k \in Key, BeginInsert(t, o, k)
    PROVE  Graded(lv, edge, high)'
<1>1. t \in Threads
  BY DEF Threads
<1>2. /\ op[t].at = "idle" /\ UNCHANGED <<pages, dbobjects>>
      /\ \E s \in InsertCall : /\ op' = [op EXCEPT ![t] = s] /\ Reached(s)
                               /\ s.page = dbobjects[o] /\ s.parents = <<>>
  BY <1>1, BeginInsertDoes
<1>3. PICK s \in InsertCall : /\ op' = [op EXCEPT ![t] = s] /\ Reached(s)
                              /\ s.page = dbobjects[o] /\ s.parents = <<>>
  BY <1>2
<1>4. op[t] \notin RootCall /\ s \notin RootCall
  BY <1>2 DEF RootCall, InsertCall
<1>5. ~Bare(dbobjects[o])
  BY <1>4 DEF Bare, Graded, CallGraded
<1>6. s.page \in edge
  BY <1>3, <1>5 DEF Graded, TreeGraded
<1>7. Climbs(lv, edge, s)
  <2>1. DOMAIN s.parents = {}
    BY <1>3
  <2>2. s.at \notin {"split", "parent"} /\ (s.at = "insert" => IsLeaf(s.page))
    BY <1>3 DEF Reached
  <2> QED
    BY <1>3, <1>6, <2>1, <2>2 DEF Climbs, Stacked, Top
<1>8. CallGraded(lv, edge, t, s)
  BY <1>4, <1>7 DEF CallGraded
<1> QED
  BY <1>1, <1>2, <1>3, <1>4, <1>8, QuietGraded

\* A page that a search goes to is below the one it comes from.
LEMMA ChildIsLower ==
    ASSUME IInv, NEW lv, NEW edge, NEW high, TreeGraded(lv, edge, high),
           NEW p \in DOMAIN pages, ~IsLeaf(p), NEW k
    PROVE  /\ Child(pages[p], k) \in DOMAIN pages /\ Child(pages[p], k) \in Children(pages[p])
           /\ lv[Child(pages[p], k)] < lv[p] /\ lv[Child(pages[p], k)] \in Nat /\ lv[p] \in Nat
<1>1. TypeOK
  BY DEF IInv
<1>2. Child(pages[p], k) \in DOMAIN pages
  BY <1>1, ChildIsPage
<1>3. Child(pages[p], k) \in Children(pages[p])
  <2>1. pages[p].items \in Seq(Tuple)
    BY <1>1 DEF TypeOK, Page
  <2>2. PICK f : f = PartitionUpper(pages[p].items, k)
    OBVIOUS
  <2>3. f \in 0 .. Len(pages[p].items)
    BY <2>1, <2>2, PartitionBounds
  <2>4. f # 0 => f \in DOMAIN pages[p].items
    BY <2>1, <2>3, LenProperties
  <2> QED
    BY <2>2, <2>4 DEF Child, Children
<1> QED
  BY <1>2, <1>3 DEF TreeGraded

LEMMA DescendGraded ==
    ASSUME IInv, NEW lv, NEW edge, NEW high, Graded(lv, edge, high),
           NEW t \in Threads, Descend(t)
    PROVE  Graded(lv, edge, high)'
<1>1. PICK c : c = op[t]
  OBVIOUS
<1>2. /\ c.at = "descend" /\ c.page \in DOMAIN pages /\ ~IsLeaf(c.page)
      /\ UNCHANGED <<pages, dbobjects>>
  BY <1>1, DescendDoes
<1>3. c \notin RootCall
  BY <1>2 DEF RootCall
<1>6. ~(c \in InsertCall /\ c \in ScanCall)
  BY DEF InsertCall, ScanCall
<1>7. \/ /\ c \in InsertCall
         /\ \E s \in InsertCall : /\ op' = [op EXCEPT ![t] = s] /\ Reached(s)
                                  /\ s.page = Child(pages[c.page], c.key)
      \/ /\ c \in ScanCall
         /\ \E s \in ScanCall : op' = [op EXCEPT ![t] = s]
  <2>1. \/ /\ c \in InsertCall
           /\ \E s \in InsertCall :
                 /\ op' = [op EXCEPT ![t] = s] /\ PlaceOK(s) /\ Reached(s)
                 /\ s.key = c.key /\ s.page = Child(pages[c.page], c.key)
        \/ /\ c \in ScanCall
           /\ \E s \in ScanCall : op' = [op EXCEPT ![t] = s]
    BY <1>1, DescendDoes
  <2> QED
    BY <2>1
<1>4. CASE c \in ScanCall
  <2>1. PICK s \in ScanCall : op' = [op EXCEPT ![t] = s]
    BY <1>4, <1>6, <1>7
  <2>2. s \notin InsertCall \cup RootCall
    BY <2>1 DEF ScanCall, InsertCall, RootCall
  <2> QED
    BY <1>1, <1>2, <1>3, <2>1, <2>2, NoInsertionGraded, QuietGraded
<1>5. CASE c \in InsertCall
  <2>1. PICK s \in InsertCall : /\ op' = [op EXCEPT ![t] = s] /\ Reached(s)
                                /\ s.page = Child(pages[c.page], c.key)
    BY <1>5, <1>6, <1>7
  <2>2. s.parents = Append(c.parents, c.page)
    <3>1. PICK p, ps : p = Child(pages[c.page], c.key) /\ ps = Append(c.parents, c.page)
      OBVIOUS
    <3>2. op' = [op EXCEPT ![t] = Reach(c, p, ps)]
      BY <1>1, <3>1 DEF Descend, Step
    <3>3. s = Reach(c, p, ps)
      BY <2>1, <3>2 DEF IInv, TypeOK
    <3>4. Reach(c, p, ps).parents = ps
      BY <1>5 DEF Reach, InsertCall
    <3> QED
      BY <3>1, <3>3, <3>4
  <2>3. c.parents \in Seq(PageID) /\ c.page \in PageID
    BY <1>5 DEF InsertCall
  <2>4. PICK n \in Nat : /\ n = Len(c.parents) /\ DOMAIN c.parents = 1 .. n
                         /\ DOMAIN s.parents = 1 .. n + 1 /\ s.parents[n + 1] = c.page
                         /\ \A i \in 1 .. n : s.parents[i] = c.parents[i]
    <3>1. /\ s.parents \in Seq(PageID) /\ Len(s.parents) = Len(c.parents) + 1
          /\ \A i \in 1 .. Len(c.parents) : s.parents[i] = c.parents[i]
          /\ s.parents[Len(c.parents) + 1] = c.page
      BY <2>2, <2>3, AppendProperties
    <3> QED
      BY <2>3, <3>1, LenProperties
  <2>5. t \in Inserters /\ Climbs(lv, edge, c) /\ TreeGraded(lv, edge, high)
    BY <1>1, <1>5 DEF Graded, CallGraded
  <2>6. lv[s.page] < lv[c.page] /\ lv[s.page] \in Nat /\ lv[c.page] \in Nat
    BY <1>2, <2>1, <2>5, ChildIsLower
  <2>7. \A i \in 1 .. n : lv[c.page] < lv[s.parents[i]] /\ lv[s.parents[i]] \in Nat
    <3>1. \A i \in DOMAIN c.parents : c.parents[i] \in DOMAIN pages
      BY <1>1, <1>5, CallOf DEF CallOK, InsertOK, PlaceOK
    <3> QED
      BY <2>4, <2>5, <3>1 DEF Climbs, Stacked, TreeGraded
  <2>8. Stacked(lv, s)
    <3>1. ASSUME NEW i \in 1 .. n + 1 PROVE lv[s.page] < lv[s.parents[i]]
      <4>1. i \in 1 .. n \/ i = n + 1
        OBVIOUS
      <4> QED
        BY <4>1, <2>4, <2>6, <2>7
    <3>2. ASSUME NEW i \in 1 .. n + 1, NEW j \in 1 .. n + 1, i < j
          PROVE  lv[s.parents[j]] < lv[s.parents[i]]
      <4>1. i \in 1 .. n
        BY <3>2
      <4>2. CASE j = n + 1
        BY <4>1, <4>2, <2>4, <2>7
      <4>3. CASE j # n + 1
        <5>1. j \in 1 .. n
          BY <4>3
        <5> QED
          BY <5>1, <4>1, <3>2, <2>4, <2>5 DEF Climbs, Stacked
      <4> QED
        BY <4>2, <4>3
    <3> QED
      BY <3>1, <3>2, <2>4 DEF Stacked
  <2>9. Top(s) = Top(c)
    <3>1. s.parents # <<>>
      <4>1. 1 \in DOMAIN s.parents
        BY <2>4
      <4> QED
        BY <4>1
    <3>2. CASE n = 0
      <4>1. c.parents = <<>>
        BY <3>2, <2>3, <2>4, EmptySeq
      <4> QED
        BY <3>1, <3>2, <4>1, <2>4 DEF Top
    <3>3. CASE n # 0
      <4>1. c.parents # <<>> /\ 1 \in 1 .. n
        BY <3>3, <2>3, <2>4, EmptySeq
      <4> QED
        BY <3>1, <4>1, <2>4 DEF Top
    <3> QED
      BY <3>2, <3>3
  <2>10. s.at \notin {"split", "parent"} /\ (s.at = "insert" => IsLeaf(s.page))
    BY <2>1 DEF Reached
  <2>11. Climbs(lv, edge, s)
    BY <2>5, <2>8, <2>9, <2>10 DEF Climbs
  <2>12. s \notin RootCall
    BY <2>10, <2>1 DEF RootCall, InsertCall
  <2>13. CallGraded(lv, edge, t, s)
    BY <2>5, <2>11, <2>12 DEF CallGraded
  <2> QED
    BY <1>1, <1>2, <1>3, <2>1, <2>12, <2>13, QuietGraded
<1> QED
  BY <1>1, <1>4, <1>5, DescendDoes

\* While the one inserter initialises no root there is none to initialise.
LEMMA NoRootBare ==
    ASSUME NEW lv, NEW edge, NEW high, Graded(lv, edge, high), \A t, u \in Inserters : t = u,
           NEW t \in Inserters, op[t] \notin RootCall
    PROVE  \A p : ~Bare(p)
  BY DEF Bare, Graded, CallGraded

\* A step of the one insertion that changes pages, none of them the child of an
\* edge, and adds none above the others.
LEMMA ChangeGraded ==
    ASSUME IInv, NEW lv, NEW edge, NEW high, Graded(lv, edge, high),
           \A t, u \in Inserters : t = u,
           NEW t \in Inserters, NEW s, op' = [op EXCEPT ![t] = s],
           op[t] \notin RootCall, s \notin RootCall, PagesStay, UNCHANGED dbobjects,
           NEW lw \in [DOMAIN pages' -> Nat], \A p \in DOMAIN pages : lw[p] = lv[p],
           CallGraded(lw, edge, t, s)',
           \A p \in DOMAIN pages' :
              /\ lw[p] < NewID' /\ lw[p] <= high
              /\ IsLeaf(p)' => lw[p] = 0
              /\ ~IsLeaf(p)' => \A c \in Children(pages'[p]) : lw[c] < lw[p],
           \A p \in edge : lv[p] # 0 => pages'[p].child = pages[p].child
    PROVE  Graded(lw, edge, high)'
<1>1. t \in Threads
  BY DEF Threads
<1>2. \A u \in Threads : CallGraded(lw, edge, u, op[u])'
  BY <1>1, CallsStayGraded DEF Graded
<1>3. \A p : ~Bare(p) /\ ~Bare(p)'
  BY <1>1, NoRootBare, BareStays
<1>4. /\ edge \subseteq DOMAIN pages /\ high \in Nat
      /\ \E p \in edge : lv[p] = high
      /\ \A p \in edge : lv[p] # 0 => pages[p].child \in edge /\ lv[pages[p].child] = lv[p] - 1
      /\ \A o \in ObjectID : dbobjects[o] \in edge
  BY <1>3 DEF Graded, TreeGraded
<1>5. \A p \in edge : p \in DOMAIN pages' /\ lw[p] = lv[p]
  BY <1>4 DEF PagesStay
<1>6. \A p \in edge : lw[p] # 0 => pages'[p].child \in edge /\ lw[pages'[p].child] = lw[p] - 1
  BY <1>4, <1>5
<1>7. TreeGraded(lw, edge, high)'
  BY <1>3, <1>4, <1>5, <1>6 DEF TreeGraded
<1> QED
  BY <1>2, <1>7 DEF Graded

\* A sequence without its last element.
LEMMA FrontOf ==
    ASSUME NEW S, NEW ps \in Seq(S), ps # <<>>
    PROVE  /\ Len(ps) \in Nat /\ Len(ps) >= 1 /\ DOMAIN ps = 1 .. Len(ps)
           /\ Last(ps) = ps[Len(ps)] /\ Last(ps) \in S
           /\ Front(ps) \in Seq(S) /\ Len(Front(ps)) = Len(ps) - 1
           /\ DOMAIN Front(ps) = 1 .. Len(ps) - 1
           /\ \A i \in 1 .. Len(ps) - 1 : Front(ps)[i] = ps[i]
<1>1. PICK n \in Nat : n = Len(ps) /\ DOMAIN ps = 1 .. n /\ n >= 1
  BY LenProperties, EmptySeq
<1>2. \A i \in 1 .. n : ps[i] \in S
  BY <1>1, ElementOfSeq
<1>3. PICK f : f = SubSeq(ps, 1, n - 1)
  OBVIOUS
<1>4. f \in Seq(S) /\ Len(f) = n - 1 /\ \A i \in 1 .. n - 1 : f[i] = ps[i]
  <2>1. /\ f \in Seq(S) /\ Len(f) = IF 1 <= n - 1 THEN (n - 1) - 1 + 1 ELSE 0
        /\ \A i \in 1 .. (n - 1) - 1 + 1 : f[i] = ps[1 + i - 1]
    <3>1. \A i \in 1 .. n - 1 : ps[i] \in S
      BY <1>2
    <3> QED
      BY <1>1, <1>3, <3>1, SubSeqProperties
  <2> QED
    BY <2>1, <1>1
<1>5. DOMAIN f = 1 .. n - 1
  BY <1>4, LenProperties
<1>6. Front(ps) = f /\ Last(ps) = ps[n]
  BY <1>1, <1>3 DEF Front, Last
<1> QED
  BY <1>1, <1>2, <1>4, <1>5, <1>6

\* get_parent turns to the page passed last, which is on a higher level.
LEMMA PopParentGraded ==
    ASSUME IInv, NEW lv, NEW edge, NEW high, Graded(lv, edge, high),
           NEW t \in Threads, PopParent(t), NEW c, c = op[t]
    PROVE  /\ Graded(lv, edge, high)'
           /\ op'[t].at = "insert" /\ op'[t] \in InsertCall
           /\ lv[c.page] < lv[op'[t].page] /\ ~IsLeaf(op'[t].page)
<1>1. c \in CallState /\ CallOK(c) /\ c.at = "parent" /\ c.parents # <<>>
  BY CallOf DEF PopParent
<1>2. c \in InsertCall /\ c \notin RootCall /\ InsertOK(c)
  BY <1>1, CallsApart DEF CallOK
<1>3. PICK ps : ps = c.parents
  OBVIOUS
<1>4. PICK s : s = [c EXCEPT !.at = "insert", !.page = Last(ps), !.parents = Front(ps)]
  OBVIOUS
<1>5. op' = [op EXCEPT ![t] = s] /\ UNCHANGED <<pages, dbobjects>>
  BY <1>3, <1>4 DEF PopParent, Step
<1>6. op'[t] = s
  BY <1>5 DEF IInv, TypeOK
<1>7. ps \in Seq(PageID) /\ ps # <<>>
  BY <1>1, <1>2, <1>3 DEF InsertCall
<1>8. PICK n \in Nat : /\ n = Len(ps) /\ n >= 1 /\ DOMAIN ps = 1 .. n
                       /\ Last(ps) = ps[n] /\ Front(ps) \in Seq(PageID)
                       /\ DOMAIN Front(ps) = 1 .. n - 1
                       /\ \A i \in 1 .. n - 1 : Front(ps)[i] = ps[i]
  BY <1>7, FrontOf
<1>9. /\ s \in InsertCall /\ s.at = "insert" /\ s.page = ps[n] /\ s.parents = Front(ps)
      /\ s.tuple = c.tuple /\ s \notin RootCall
  <2>1. ps[n] \in PageID
    BY <1>7, <1>8, FrontOf
  <2>2. PICK q \in PageID, fs \in Seq(PageID) : q = Last(ps) /\ fs = Front(ps)
    BY <1>8, <2>1
  <2>3. s = [c EXCEPT !.at = "insert", !.page = q, !.parents = fs]
    BY <1>4, <2>2
  <2>4. s \in InsertCall /\ s.at = "insert" /\ s.page = q /\ s.parents = fs /\ s.tuple = c.tuple
    BY <1>2, <2>3 DEF InsertCall
  <2> QED
    BY <2>2, <2>4, <1>8 DEF RootCall
<1>10. /\ \A i \in 1 .. n : ps[i] \in DOMAIN pages /\ ~IsLeaf(ps[i])
       /\ c.page \in DOMAIN pages /\ c.tuple.value \in DOMAIN pages
  BY <1>1, <1>2, <1>3, <1>8 DEF InsertOK, PlaceOK, CarriesSeparator
<1>11. t \in Inserters /\ Climbs(lv, edge, c) /\ TreeGraded(lv, edge, high)
  BY <1>2 DEF Graded, CallGraded
<1>12. /\ \A p \in DOMAIN pages : lv[p] \in Nat
       /\ \A i \in 1 .. n : lv[c.page] < lv[ps[i]]
       /\ \A i, j \in 1 .. n : i < j => lv[ps[j]] < lv[ps[i]]
       /\ lv[c.tuple.value] <= lv[c.page] /\ Top(c) = ps[1] /\ ps[1] \in edge
  BY <1>1, <1>3, <1>8, <1>11 DEF TreeGraded, Climbs, Stacked, Top
<1>13. lv[c.page] < lv[s.page] /\ ~IsLeaf(s.page) /\ lv[c.tuple.value] < lv[s.page]
  BY <1>8, <1>9, <1>10, <1>12
<1>14. Stacked(lv, s)
  <2>1. ASSUME NEW i \in 1 .. n - 1
        PROVE  lv[s.page] < lv[s.parents[i]]
    <3>1. i \in 1 .. n /\ n \in 1 .. n /\ i < n
      BY <1>8
    <3> QED
      BY <3>1, <1>8, <1>9, <1>12
  <2>2. ASSUME NEW i \in 1 .. n - 1, NEW j \in 1 .. n - 1, i < j
        PROVE  lv[s.parents[j]] < lv[s.parents[i]]
    <3>1. i \in 1 .. n /\ j \in 1 .. n
      BY <1>8
    <3> QED
      BY <3>1, <2>2, <1>8, <1>9, <1>12
  <2>3. DOMAIN s.parents = 1 .. n - 1
    BY <1>8, <1>9
  <2> QED
    BY <2>1, <2>2, <2>3 DEF Stacked
<1>15. Top(s) = ps[1]
  <2>1. CASE n = 1
    <3>1. s.parents = <<>>
      BY <2>1, <1>8, <1>9, EmptySeq
    <3> QED
      BY <2>1, <3>1, <1>9 DEF Top
  <2>2. CASE n # 1
    <3>1. 1 \in 1 .. n - 1
      BY <2>2, <1>8
    <3>2. s.parents # <<>> /\ s.parents[1] = ps[1]
      BY <3>1, <1>8, <1>9
    <3> QED
      BY <3>2 DEF Top
  <2> QED
    BY <2>1, <2>2
<1>16. Climbs(lv, edge, s)
  BY <1>9, <1>12, <1>13, <1>14, <1>15 DEF Climbs
<1>17. CallGraded(lv, edge, t, s)
  BY <1>9, <1>11, <1>16 DEF CallGraded
<1>18. Graded(lv, edge, high)'
  BY <1>2, <1>5, <1>9, <1>17, QuietGraded
<1> QED
  BY <1>6, <1>9, <1>13, <1>18

\* The attempt of insert_recurs.
LEMMA TryInsertGraded ==
    ASSUME IInv, NEW lv, NEW edge, NEW high, Graded(lv, edge, high),
           \A t, u \in Inserters : t = u, NEW t \in Inserters, TryInsert(t)
    PROVE  Graded(lv, edge, high)'
<1>1. t \in Threads
  BY DEF Threads
<1>2. PICK c : c = op[t]
  OBVIOUS
<1>3. /\ c \in InsertCall /\ InsertOK(c) /\ c.at = "insert"
      /\ UNCHANGED dbobjects
      /\ \/ /\ op' = [op EXCEPT ![t] = Panicked] /\ UNCHANGED pages
         \/ PutIn(c.page, c.tuple) /\ op' = [op EXCEPT ![t] = Idle]
         \/ op' = [op EXCEPT ![t] = [c EXCEPT !.at = "split"]] /\ UNCHANGED pages
  BY <1>1, <1>2, TryInsertDoes
<1>4. c \notin RootCall /\ Climbs(lv, edge, c) /\ TreeGraded(lv, edge, high)
  BY <1>1, <1>2, <1>3 DEF RootCall, Graded, CallGraded
<1>5. \A s \in {Idle, Panicked} : s \notin InsertCall \cup RootCall
  BY NoCall, CallsApart
<1>6. CASE op' = [op EXCEPT ![t] = Panicked] /\ UNCHANGED pages
  <2>1. PICK s : s = Panicked
    OBVIOUS
  <2>2. s \notin InsertCall \cup RootCall
    BY <2>1, <1>5
  <2> QED
    BY <1>1, <1>2, <1>3, <1>4, <1>6, <2>1, <2>2, NoInsertionGraded, QuietGraded
<1>7. CASE op' = [op EXCEPT ![t] = [c EXCEPT !.at = "split"]] /\ UNCHANGED pages
  <2>1. PICK s : s = [c EXCEPT !.at = "split"]
    OBVIOUS
  <2>2. /\ s \in InsertCall /\ s.at = "split" /\ s.page = c.page /\ s.parents = c.parents
        /\ s.tuple = c.tuple /\ s \notin RootCall
    BY <1>3, <2>1 DEF InsertCall, RootCall
  <2>3. Climbs(lv, edge, s)
    BY <2>2, <1>3, <1>4 DEF Climbs, Stacked, Top
  <2>4. CallGraded(lv, edge, t, s)
    BY <2>2, <2>3 DEF CallGraded
  <2> QED
    BY <1>1, <1>2, <1>3, <1>4, <1>7, <2>1, <2>2, <2>4, QuietGraded
<1>8. CASE PutIn(c.page, c.tuple) /\ op' = [op EXCEPT ![t] = Idle]
  <2>1. PICK p, s : p = c.page /\ s = Idle
    OBVIOUS
  <2>2. s \notin InsertCall \cup RootCall
    BY <2>1, <1>5
  <2>3. /\ p \in DOMAIN pages /\ DOMAIN pages' = DOMAIN pages
        /\ pages'[p] = [pages[p] EXCEPT !.items = Inserted(@, c.tuple)]
        /\ \A x \in DOMAIN pages : x # p => pages'[x] = pages[x]
        /\ c.tuple \in Tuple
    BY <1>8, <2>1 DEF PutIn
  <2>4. \A x \in DOMAIN pages : pages[x] \in Page
    BY DEF IInv, TypeOK
  <2>5. PICK items : items = Inserted(pages[p].items, c.tuple)
    OBVIOUS
  <2>6. items \in Seq(Tuple) /\ ToSet(items) = ToSet(pages[p].items) \cup {c.tuple}
    <3>1. pages[p].items \in Seq(Tuple)
      BY <2>3, <2>4 DEF Page
    <3> QED
      BY <3>1, <2>3, <2>5, InsertedProperties
  <2>7. /\ pages'[p] \in Page /\ pages'[p].items = items
        /\ pages'[p].child = pages[p].child /\ pages'[p].type = pages[p].type
    BY <2>3, <2>4, <2>5, <2>6 DEF Page
  <2>8. Children(pages'[p]) = Children(pages[p]) \cup {c.tuple.value}
    <3>1. PICK old, new : old = pages[p] /\ new = pages'[p]
      OBVIOUS
    <3>2. /\ Children(old) = {old.child} \cup {x.value : x \in ToSet(old.items)}
          /\ Children(new) = {new.child} \cup {x.value : x \in ToSet(new.items)}
      BY <2>3, <2>4, <2>7, <3>1, ChildrenAreOfTuples
    <3>3. new.child = old.child /\ ToSet(new.items) = ToSet(old.items) \cup {c.tuple}
      BY <2>6, <2>7, <3>1
    <3>4. Children(new) = Children(old) \cup {c.tuple.value}
      BY <3>2, <3>3
    <3> QED
      BY <3>1, <3>4
  <2>9. PagesStay
    BY <2>3, <2>7 DEF PagesStay, IsLeaf
  <2>10. \A x \in DOMAIN pages :
            /\ lv[x] < NewID' /\ lv[x] <= high
            /\ IsLeaf(x)' => lv[x] = 0
            /\ ~IsLeaf(x)' => \A d \in Children(pages'[x]) : lv[d] < lv[x]
    <3>1. \A x : ~Bare(x)
      BY <1>2, <1>4, NoRootBare
    <3>2. NewID' = NewID
      BY <2>3 DEF NewID
    <3>3. \A x \in DOMAIN pages : IsLeaf(x)' <=> IsLeaf(x)
      BY <2>9 DEF PagesStay
    <3>4. ~IsLeaf(p) => lv[c.tuple.value] < lv[p]
      BY <1>3, <1>4, <2>1 DEF Climbs
    <3>5. \A x \in DOMAIN pages : ~IsLeaf(x) => \A d \in Children(pages'[x]) : lv[d] < lv[x]
      BY <1>4, <2>3, <2>8, <3>4 DEF TreeGraded
    <3> QED
      BY <1>4, <3>1, <3>2, <3>3, <3>5 DEF TreeGraded
  <2>11. \A x \in edge : pages'[x].child = pages[x].child
    BY <1>4, <2>3, <2>7 DEF TreeGraded
  <2>12. lv \in [DOMAIN pages' -> Nat]
    BY <1>4, <2>3 DEF TreeGraded
  <2>13. CallGraded(lv, edge, t, s)'
    BY <2>2, <2>1 DEF CallGraded, Idle, InsertCall, RootCall
  <2> QED
    BY <1>2, <1>3, <1>4, <1>8, <2>1, <2>2, <2>3, <2>9, <2>10, <2>11, <2>12, <2>13, ChangeGraded
<1> QED
  BY <1>3, <1>6, <1>7, <1>8

\* split_and_insert: the right half is on the level of the page.
LEMMA SplitGraded ==
    ASSUME IInv, NEW lv, NEW edge, NEW high, Graded(lv, edge, high),
           \A t, u \in Inserters : t = u, NEW t \in Inserters, Split(t)
    PROVE  \E lw : Graded(lw, edge, high)' /\ Extends(lv, lw, high, high)
<1>1. t \in Threads
  BY DEF Threads
<1>2. PICK c : c = op[t]
  OBVIOUS
<1>3. /\ c \in InsertCall /\ InsertOK(c) /\ c.at = "split" /\ UNCHANGED dbobjects
      /\ \/ UNCHANGED <<pages, op>>
         \/ \E s : Halved(c.page, c.tuple, s) /\ op' = [op EXCEPT ![t] = AfterSplit(c, s.up)]
  BY <1>1, <1>2, SplitDoes
<1>4. /\ c \notin RootCall /\ Climbs(lv, edge, c) /\ TreeGraded(lv, edge, high)
      /\ high \in Nat
  BY <1>1, <1>2, <1>3 DEF RootCall, Graded, CallGraded, TreeGraded
<1>5. CASE UNCHANGED <<pages, op>>
  <2>1. Graded(lv, edge, high)'
    BY <1>3, <1>5 DEF Graded, TreeGraded, CallGraded, Climbs, Bare, IsLeaf, NewID
  <2> QED
    BY <2>1, <1>4 DEF Extends
<1>6. ASSUME NEW h, Halved(c.page, c.tuple, h), op' = [op EXCEPT ![t] = AfterSplit(c, h.up)]
      PROVE  \E lw : Graded(lw, edge, high)' /\ Extends(lv, lw, high, high)
  <2>1. PICK p, q, page : p = c.page /\ q = NewID /\ page = pages[p]
    OBVIOUS
  <2>2. /\ p \in DOMAIN pages /\ c.tuple \in Tuple
        /\ IsLeaf(p) => Filled(p)
        /\ h = IF IsLeaf(p) THEN SplitLeaf(page, p, q, c.tuple)
                            ELSE SplitNode(page, p, q, c.tuple)
        /\ DOMAIN pages' = DOMAIN pages \cup {q} /\ NewID' = q + 1
        /\ pages'[q] = h.right /\ pages'[p] = h.left
        /\ \A x \in DOMAIN pages : x # p => pages'[x] = pages[x]
    BY <1>6, <2>1 DEF Halved, Added
  <2>3. TypeOK /\ PagesFinite
    BY DEF IInv
  <2>4. q \in Nat /\ q \in PageID /\ q \notin DOMAIN pages /\ p \in PageID
    BY <2>1, <2>2, <2>3, NewIDProperties DEF PageID
  <2>5. page \in Page /\ page.type \in {"Leaf", "Node"}
    BY <2>1, <2>2, <2>3 DEF TypeOK, Page
  <2>6. /\ h.left \in Page /\ h.right \in Page /\ h.up \in Tuple
        /\ h.left.type = page.type /\ h.right.type = page.type
        /\ SplitItems(h.left.items, h.right.items, page, c.tuple)
        /\ IsLeaf(p) => h.up.value = q
        /\ ~IsLeaf(p) => /\ h.up \in ToSet(page.items) \cup {c.tuple}
                         /\ h.left.child = page.child /\ h.right.child = h.up.value
    <3>1. CASE IsLeaf(p)
      <4>1. page.type = "Leaf" /\ HasTuples(page) /\ h = SplitLeaf(page, p, q, c.tuple)
        BY <3>1, <2>1, <2>2 DEF IsLeaf, Filled, HasTuples
      <4>2. /\ h.left \in Page /\ h.right \in Page /\ h.up \in Tuple
            /\ h.left.type = "Leaf" /\ h.right.type = "Leaf" /\ h.up.value = q
            /\ SplitItems(h.left.items, h.right.items, page, c.tuple)
        <5>1. /\ page \in Page /\ c.tuple \in Tuple /\ p \in PageID /\ q \in PageID
              /\ HasTuples(page) /\ h = SplitLeaf(page, p, q, c.tuple)
          BY <4>1, <2>2, <2>4, <2>5
        <5> QED
          BY <5>1, SplitLeafProperties
      <4> QED
        BY <3>1, <4>1, <4>2
    <3>2. CASE ~IsLeaf(p)
      <4>1. page.type = "Node" /\ h = SplitNode(page, p, q, c.tuple)
        BY <3>2, <2>1, <2>2, <2>5 DEF IsLeaf
      <4>2. /\ h.left \in Page /\ h.right \in Page /\ h.up \in Tuple
            /\ h.left.type = "Node" /\ h.right.type = "Node"
            /\ SplitItems(h.left.items, h.right.items, page, c.tuple)
            /\ h.up \in ToSet(page.items) \cup {c.tuple}
            /\ h.left.child = page.child /\ h.right.child = h.up.value
        <5>1. /\ page \in Page /\ c.tuple \in Tuple /\ p \in PageID /\ q \in PageID
              /\ h = SplitNode(page, p, q, c.tuple)
          BY <4>1, <2>2, <2>4, <2>5
        <5> QED
          BY <5>1, SplitNodeProperties
      <4> QED
        BY <3>2, <4>1, <4>2
    <3> QED
      BY <3>1, <3>2
  <2>7. PagesStay /\ (IsLeaf(q)' <=> IsLeaf(p)) /\ (IsLeaf(p)' <=> IsLeaf(p))
    BY <2>1, <2>2, <2>6 DEF PagesStay, IsLeaf
  <2>8. PICK lw : lw = [x \in DOMAIN pages' |-> IF x = q THEN lv[p] ELSE lv[x]]
    OBVIOUS
  <2>9. /\ lw \in [DOMAIN pages' -> Nat] /\ lw[q] = lv[p]
        /\ \A x \in DOMAIN pages : lw[x] = lv[x] /\ lv[x] \in Nat
    BY <2>2, <2>4, <2>8, <1>4 DEF TreeGraded
  <2>10. /\ \A d \in Children(page) : ~IsLeaf(p) => lv[d] < lv[p] /\ d \in DOMAIN pages
         /\ ~IsLeaf(p) => lv[c.tuple.value] < lv[p] /\ c.tuple.value \in DOMAIN pages
         /\ IsLeaf(p) => lv[p] = 0
    <3>1. page.type = "Node" => \A d \in Children(page) : d \in DOMAIN pages
      BY <2>1, <2>2, <2>3 DEF TypeOK
    <3>2. ~IsLeaf(p) => c.tuple.value \in DOMAIN pages
      BY <1>3, <2>1 DEF InsertOK, CarriesSeparator
    <3>3. ~IsLeaf(p) => page.type = "Node"
      BY <2>1, <2>5 DEF IsLeaf
    <3> QED
      BY <3>1, <3>2, <3>3, <1>3, <1>4, <2>1, <2>2 DEF TreeGraded, Climbs
  <2>11. ~IsLeaf(p) => \A d \in Children(h.left) \cup Children(h.right) :
                          lw[d] < lv[p]
    <3> SUFFICES ASSUME ~IsLeaf(p), NEW d \in Children(h.left) \cup Children(h.right)
                 PROVE  lw[d] < lv[p]
      OBVIOUS
    <3>1. /\ Children(page) = {page.child} \cup {x.value : x \in ToSet(page.items)}
          /\ Children(h.left) = {h.left.child} \cup {x.value : x \in ToSet(h.left.items)}
          /\ Children(h.right) = {h.right.child} \cup {x.value : x \in ToSet(h.right.items)}
      BY <2>5, <2>6, ChildrenAreOfTuples
    <3>2. d \in Children(page) \cup {c.tuple.value}
      BY <3>1, <2>6 DEF SplitItems
    <3> QED
      BY <3>2, <2>9, <2>10
  <2>12. lw[h.up.value] <= lv[p] /\ (~IsLeaf(p) => h.up.value \in DOMAIN pages)
    <3>1. CASE IsLeaf(p)
      BY <3>1, <2>2, <2>6, <2>9
    <3>2. CASE ~IsLeaf(p)
      <4>1. Children(page) = {page.child} \cup {x.value : x \in ToSet(page.items)}
        BY <2>5, ChildrenAreOfTuples
      <4>2. h.up.value \in Children(page) \cup {c.tuple.value}
        BY <3>2, <4>1, <2>6
      <4> QED
        BY <3>2, <4>2, <2>2, <2>9, <2>10
    <3> QED
      BY <3>1, <3>2
  <2>13. PICK s : s = AfterSplit(c, h.up)
    OBVIOUS
  <2>14. /\ s \in InsertCall /\ s.at = "parent" /\ s.page = p /\ s.parents = c.parents
         /\ s.tuple = h.up /\ s \notin RootCall
    BY <1>3, <2>1, <2>6, <2>13 DEF AfterSplit, InsertCall, RootCall
  <2>15. Climbs(lw, edge, s)'
    <3>1. \A i \in DOMAIN c.parents : c.parents[i] \in DOMAIN pages
      BY <1>3 DEF InsertOK, PlaceOK
    <3>2. Stacked(lw, s)
      BY <1>4, <2>1, <2>2, <2>9, <2>14, <3>1 DEF Climbs, Stacked
    <3>3. Top(s) = Top(c)
      BY <2>1, <2>14 DEF Top
    <3>4. lw[s.tuple.value] <= lw[s.page]
      BY <2>2, <2>9, <2>12, <2>14
    <3> QED
      BY <3>2, <3>3, <3>4, <1>4, <2>14 DEF Climbs, Stacked, Top
  <2>16. CallGraded(lw, edge, t, s)'
    BY <2>14, <2>15 DEF CallGraded
  <2>17. \A x \in DOMAIN pages :
            /\ lv[x] < q /\ lv[x] <= high /\ (IsLeaf(x) => lv[x] = 0)
            /\ ~IsLeaf(x) => \A d \in Children(pages[x]) : d \in DOMAIN pages /\ lv[d] < lv[x]
    <3>1. \A x : ~Bare(x)
      BY <1>2, <1>4, NoRootBare
    <3>2. \A x \in DOMAIN pages : ~IsLeaf(x) => pages[x].type = "Node"
      BY <2>3 DEF TypeOK, Page, IsLeaf
    <3> QED
      BY <1>4, <2>1, <2>3, <3>1, <3>2 DEF TreeGraded, TypeOK
  <2>18. ASSUME NEW x \in DOMAIN pages'
         PROVE  /\ lw[x] < NewID' /\ lw[x] <= high
                /\ IsLeaf(x)' => lw[x] = 0
                /\ ~IsLeaf(x)' => \A d \in Children(pages'[x]) : lw[d] < lw[x]
    <3>1. CASE x = p
      BY <3>1, <1>4, <2>2, <2>4, <2>7, <2>9, <2>11, <2>17
    <3>2. CASE x = q
      BY <3>2, <1>4, <2>2, <2>4, <2>7, <2>9, <2>10, <2>11, <2>17
    <3>3. CASE x # p /\ x # q
      <4>1. x \in DOMAIN pages /\ pages'[x] = pages[x] /\ (IsLeaf(x)' <=> IsLeaf(x))
        BY <3>3, <2>2, <2>7 DEF PagesStay
      <4> QED
        BY <4>1, <1>4, <2>2, <2>4, <2>9, <2>17
    <3> QED
      BY <3>1, <3>2, <3>3
  <2>19. \A x \in edge : lv[x] # 0 => pages'[x].child = pages[x].child
    BY <1>4, <2>1, <2>2, <2>6, <2>10 DEF TreeGraded
  <2>20. Graded(lw, edge, high)'
    <3>1. /\ op' = [op EXCEPT ![t] = s] /\ op[t] \notin RootCall /\ s \notin RootCall
          /\ PagesStay /\ UNCHANGED dbobjects
      BY <1>2, <1>3, <1>4, <1>6, <2>7, <2>13, <2>14
    <3>2. lw \in [DOMAIN pages' -> Nat] /\ \A x \in DOMAIN pages : lw[x] = lv[x]
      BY <2>9
    <3>3. \A x \in DOMAIN pages' :
             /\ lw[x] < NewID' /\ lw[x] <= high
             /\ IsLeaf(x)' => lw[x] = 0
             /\ ~IsLeaf(x)' => \A d \in Children(pages'[x]) : lw[d] < lw[x]
      BY <2>18
    <3> QED
      BY <3>1, <3>2, <3>3, <2>16, <2>19, ChangeGraded
  <2> QED
    BY <2>9, <2>20, <1>4 DEF Extends
<1> QED
  BY <1>3, <1>5, <1>6

\* A root that is published stands right above the root that was split, but no
\* search reaches that one from it yet.
LEMMA PublishRootGraded ==
    ASSUME IInv, NEW lv, NEW edge, NEW high, Graded(lv, edge, high),
           \A t, u \in Inserters : t = u, NEW t \in Inserters, PublishRoot(t)
    PROVE  \E lw : Graded(lw, edge, high)' /\ Extends(lv, lw, high, high)
<1>1. t \in Threads
  BY DEF Threads
<1>2. PICK c, q : c = op[t] /\ q = NewID
  OBVIOUS
<1>3. /\ c \in InsertCall /\ InsertOK(c) /\ c.at = "parent" /\ c.parents = <<>>
      /\ RootAdded /\ dbobjects' = [dbobjects EXCEPT ![c.object] = q]
      /\ op' = [op EXCEPT ![t] = [at |-> "init", root |-> q, call |-> c]]
  BY <1>1, <1>2, PublishRootDoes
<1>4. /\ c \notin RootCall /\ Climbs(lv, edge, c) /\ TreeGraded(lv, edge, high)
      /\ high \in Nat /\ edge \subseteq DOMAIN pages
  BY <1>1, <1>2, <1>3 DEF RootCall, Graded, CallGraded, TreeGraded
<1>5. /\ DOMAIN pages' = DOMAIN pages \cup {q} /\ NewID' = q + 1 /\ pages'[q] = ZeroPage
      /\ \A x \in DOMAIN pages : pages'[x] = pages[x]
  BY <1>2, <1>3 DEF RootAdded, Added
<1>6. TypeOK /\ q \in Nat /\ q \in PageID /\ q \notin DOMAIN pages
  BY <1>2, NewIDProperties DEF IInv, PageID
<1>7. PICK s : s = [at |-> "init", root |-> q, call |-> c]
  OBVIOUS
<1>8. s \in RootCall /\ s.root = q /\ s.call = c /\ s \notin InsertCall
  BY <1>3, <1>6, <1>7 DEF RootCall, InsertCall
<1>9. op'[t] = s /\ \A u \in Threads : u # t => op'[u] = op[u]
  BY <1>1, <1>3, <1>6, <1>7 DEF TypeOK
<1>10. \A p : ~Bare(p) /\ (Bare(p)' <=> p = q)
  <2>1. \A u \in Threads : op[u] \in RootCall => u = t
    BY <1>2, <1>4 DEF Graded, CallGraded
  <2> QED
    BY <2>1, <1>1, <1>2, <1>4, <1>8, <1>9 DEF Bare
<1>11. PICK lw : lw = [x \in DOMAIN pages' |-> IF x = q THEN lv[c.page] + 1 ELSE lv[x]]
  OBVIOUS
<1>12. c.page \in DOMAIN pages /\ c.page \in edge /\ lv[c.page] \in Nat /\ lv[c.page] < q
  BY <1>2, <1>3, <1>4 DEF InsertOK, PlaceOK, Climbs, Top, TreeGraded
<1>13. /\ lw \in [DOMAIN pages' -> Nat] /\ lw[q] = lv[c.page] + 1
       /\ \A x \in DOMAIN pages : lw[x] = lv[x] /\ lv[x] \in Nat
  BY <1>4, <1>5, <1>6, <1>11, <1>12 DEF TreeGraded
<1>14. PagesStay /\ ~IsLeaf(q)'
  BY <1>5 DEF PagesStay, IsLeaf, ZeroPage
<1>15. Climbs(lw, edge, c)'
  <2>1. PagesStay /\ \A x \in DOMAIN pages : lw[x] = lv[x]
    BY <1>13, <1>14
  <2>2. c \in CallState /\ CallOK(c) /\ CallGraded(lv, edge, t, c)
    BY <1>1, <1>2, CallOf DEF Graded
  <2>3. CallGraded(lw, edge, t, c)'
    BY <2>1, <2>2, GradesStay
  <2> QED
    BY <2>3, <1>3 DEF CallGraded
<1>16. CallGraded(lw, edge, t, s)'
  BY <1>8, <1>12, <1>13, <1>15 DEF CallGraded
<1>17. \A u \in Threads : CallGraded(lw, edge, u, op[u])'
  <2>1. op' = [op EXCEPT ![t] = s]
    BY <1>3, <1>7
  <2> QED
    BY <2>1, <1>1, <1>13, <1>14, <1>16, CallsStayGraded DEF Graded
<1>18. \A p \in DOMAIN pages' :
          /\ lw[p] < NewID' /\ (lw[p] <= high \/ Bare(p)')
          /\ Bare(p)' => \A d \in Children(pages'[p]) : IsLeaf(d)'
          /\ IsLeaf(p)' => lw[p] = 0
          /\ ~IsLeaf(p)' => \A d \in Children(pages'[p]) : lw[d] < lw[p]
  <2>1. Children(pages'[q]) = {0}
    BY <1>5 DEF Children, ZeroPage
  <2>2. 0 \in DOMAIN pages /\ IsLeaf(0) /\ lw[0] = 0
    <3>1. 0 \in ObjectID
      BY TreeAssumption DEF ObjectID
    <3>2. 0 \in DOMAIN pages /\ IsLeaf(0)
      BY <3>1 DEF IInv, FirstLeaves
    <3> QED
      BY <3>2, <1>4, <1>13 DEF TreeGraded
  <2>3. ASSUME NEW p \in DOMAIN pages
        PROVE  /\ lw[p] < NewID' /\ lw[p] <= high
               /\ IsLeaf(p)' => lw[p] = 0
               /\ ~IsLeaf(p)' => \A d \in Children(pages'[p]) : lw[d] < lw[p]
    <3>1. pages[p] \in Page /\ (pages[p].type = "Node" => \A d \in Children(pages[p]) : d \in DOMAIN pages)
      BY <1>6 DEF TypeOK
    <3>2. /\ lv[p] < q /\ lv[p] <= high /\ (IsLeaf(p) => lv[p] = 0)
          /\ ~IsLeaf(p) => \A d \in Children(pages[p]) : lv[d] < lv[p]
      BY <1>2, <1>4, <1>10 DEF TreeGraded
    <3>3. pages'[p] = pages[p] /\ (IsLeaf(p)' <=> IsLeaf(p)) /\ p # q
      BY <1>5, <1>6, <1>14 DEF PagesStay
    <3>4. ~IsLeaf(p) => \A d \in Children(pages[p]) : d \in DOMAIN pages
      BY <3>1 DEF Page, IsLeaf
    <3> QED
      BY <3>2, <3>3, <3>4, <1>4, <1>5, <1>6, <1>13
  <2>4. IsLeaf(0)'
    BY <2>2, <1>14 DEF PagesStay
  <2>5. /\ lw[q] < NewID' /\ Bare(q)' /\ ~IsLeaf(q)'
        /\ \A d \in Children(pages'[q]) : IsLeaf(d)' /\ lw[d] < lw[q]
    BY <2>1, <2>2, <2>4, <1>5, <1>6, <1>10, <1>12, <1>13, <1>14
  <2> QED
    BY <2>3, <2>5, <1>5, <1>6, <1>10
<1>19. \A p \in edge : /\ ~Bare(p)'
                       /\ lw[p] # 0 => pages'[p].child \in edge /\ lw[pages'[p].child] = lw[p] - 1
  <2>1. \A p \in edge : p \in DOMAIN pages /\ p # q /\ pages'[p] = pages[p] /\ lw[p] = lv[p]
    BY <1>4, <1>5, <1>6, <1>13
  <2> QED
    BY <2>1, <1>4, <1>10 DEF TreeGraded
<1>20. \A o \in ObjectID : dbobjects'[o] \in edge \/ dbobjects'[o] = q
  <2>1. dbobjects \in [ObjectID -> DOMAIN pages]
    BY <1>6 DEF TypeOK
  <2>2. \A o \in ObjectID : dbobjects[o] \in edge
    BY <1>4, <1>10 DEF TreeGraded
  <2> QED
    BY <2>1, <2>2, <1>3
<1>21. TreeGraded(lw, edge, high)'
  <2>2. \A o \in ObjectID : dbobjects'[o] \in edge \/ Bare(dbobjects[o])'
    BY <1>10, <1>20
  <2>1. edge \subseteq DOMAIN pages' /\ \E p \in edge : lw[p] = high
    BY <1>4, <1>5, <1>13 DEF TreeGraded
  <2> QED
    BY <2>1, <2>2, <1>4, <1>13, <1>18, <1>19 DEF TreeGraded
<1> QED
  BY <1>4, <1>13, <1>17, <1>21 DEF Graded, Extends

\* Once initialised the root is a page of the edge, the highest of its tree.
LEMMA InitRootGraded ==
    ASSUME IInv, NEW lv, NEW edge, NEW high, Graded(lv, edge, high),
           \A t, u \in Inserters : t = u, NEW t \in Inserters, InitRoot(t)
    PROVE  \E edge2, top : Graded(lv, edge2, top)' /\ Extends(lv, lv, high, top)
<1>1. t \in Threads
  BY DEF Threads
<1>2. PICK c, r : c = op[t].call /\ r = op[t].root
  OBVIOUS
<1>3. /\ op[t] \in RootCall /\ RootOK(op[t])
      /\ c \in InsertCall /\ InsertOK(c) /\ c.at = "parent" /\ c.parents = <<>>
      /\ UNCHANGED dbobjects /\ RootMade(r, c.page)
      /\ op' = [op EXCEPT ![t] = InNewRoot(c, r)]
  BY <1>1, <1>2, InitRootDoes DEF RootOK
<1>4. /\ Climbs(lv, edge, c) /\ lv[r] = lv[c.page] + 1 /\ TreeGraded(lv, edge, high)
      /\ high \in Nat /\ edge \subseteq DOMAIN pages
  BY <1>1, <1>2, <1>3 DEF Graded, CallGraded, TreeGraded
<1>5. /\ r \in DOMAIN pages /\ ~IsLeaf(r) /\ c.page \in DOMAIN pages
      /\ DOMAIN pages' = DOMAIN pages
      /\ pages'[r] = NodePage(<<>>, NULL_PTR, NULL_PTR, c.page)
      /\ \A x \in DOMAIN pages : x # r => pages'[x] = pages[x]
  BY <1>3 DEF RootMade
<1>6. TypeOK /\ r \in PageID
  BY <1>2, <1>3 DEF IInv, RootCall
<1>7. PICK s : s = InNewRoot(c, r)
  OBVIOUS
<1>8. /\ s \in InsertCall /\ s.at = "insert" /\ s.page = r /\ s.parents = <<>>
      /\ s.tuple = c.tuple /\ s \notin RootCall
  BY <1>3, <1>6, <1>7 DEF InNewRoot, InsertCall, RootCall
<1>9. op' = [op EXCEPT ![t] = s] /\ op'[t] = s /\ \A u \in Threads : u # t => op'[u] = op[u]
  BY <1>1, <1>3, <1>6, <1>7 DEF TypeOK
<1>10. \A p : (Bare(p) <=> p = r) /\ ~Bare(p)'
  <2>1. \A u \in Threads : op[u] \in RootCall => u = t
    BY DEF Graded, CallGraded
  <2> QED
    BY <2>1, <1>1, <1>2, <1>3, <1>8, <1>9 DEF Bare
<1>11. PICK edge2, top : edge2 = edge \cup {r} /\ top = IF high <= lv[r] THEN lv[r] ELSE high
  OBVIOUS
<1>12. \A p \in DOMAIN pages : lv[p] \in Nat
  BY <1>4 DEF TreeGraded
<1>13. /\ top \in Nat /\ high <= top /\ lv[r] <= top /\ (top = high \/ top = lv[r])
       /\ edge \subseteq edge2 /\ edge2 \subseteq DOMAIN pages'
  BY <1>4, <1>5, <1>11, <1>12
<1>14. PagesStay /\ ~IsLeaf(r)' /\ Children(pages'[r]) = {c.page} /\ pages'[r].child = c.page
  <2>1. DOMAIN <<>> = {}
    OBVIOUS
  <2> QED
    BY <2>1, <1>5 DEF PagesStay, IsLeaf, NodePage, Children
<1>15. c.page \in edge /\ lv[c.tuple.value] <= lv[c.page] /\ c.tuple.value \in DOMAIN pages
  BY <1>3, <1>4 DEF Climbs, Top, InsertOK, CarriesSeparator
<1>16. Climbs(lv, edge2, s)'
  <2>1. DOMAIN s.parents = {}
    BY <1>8
  <2>2. lv[s.tuple.value] < lv[s.page]
    BY <1>4, <1>5, <1>8, <1>12, <1>15
  <2>3. Top(s) \in edge2
    BY <1>8, <1>11 DEF Top
  <2> QED
    BY <2>1, <2>2, <2>3, <1>8 DEF Climbs, Stacked, Top
<1>17. CallGraded(lv, edge2, t, s)'
  BY <1>8, <1>16 DEF CallGraded
<1>18. \A u \in Threads : CallGraded(lv, edge2, u, op[u])'
  BY <1>1, <1>9, <1>13, <1>14, <1>17, CallsStayGraded DEF Graded
<1>19. ASSUME NEW p \in DOMAIN pages'
       PROVE  /\ lv[p] < NewID' /\ lv[p] <= top
              /\ IsLeaf(p)' => lv[p] = 0
              /\ ~IsLeaf(p)' => \A d \in Children(pages'[p]) : lv[d] < lv[p]
  <2>1. p \in DOMAIN pages /\ NewID' = NewID
    BY <1>5 DEF NewID
  <2>2. lv[p] < NewID
    BY <2>1, <1>4 DEF TreeGraded
  <2>3. CASE p = r
    BY <2>1, <2>2, <2>3, <1>4, <1>5, <1>12, <1>13, <1>14
  <2>4. CASE p # r
    <3>1. pages'[p] = pages[p] /\ (IsLeaf(p)' <=> IsLeaf(p))
      BY <2>1, <2>4, <1>5, <1>14 DEF PagesStay
    <3>2. /\ lv[p] <= high /\ (IsLeaf(p) => lv[p] = 0)
          /\ ~IsLeaf(p) => \A d \in Children(pages[p]) : lv[d] < lv[p]
      BY <2>1, <2>4, <1>4, <1>10 DEF TreeGraded
    <3> QED
      BY <2>1, <2>2, <3>1, <3>2, <1>4, <1>12, <1>13
  <2> QED
    BY <2>3, <2>4
<1>20. ASSUME NEW p \in edge2
       PROVE  lv[p] # 0 => pages'[p].child \in edge2 /\ lv[pages'[p].child] = lv[p] - 1
  <2>1. CASE p = r
    BY <2>1, <1>4, <1>5, <1>12, <1>13, <1>14, <1>15
  <2>2. CASE p # r
    <3>1. p \in edge /\ pages'[p] = pages[p]
      BY <2>2, <1>4, <1>5, <1>11
    <3> QED
      BY <3>1, <1>4, <1>13 DEF TreeGraded
  <2> QED
    BY <2>1, <2>2
<1>21. \E p \in edge2 : lv[p] = top
  <2>1. r \in edge2 /\ \E p \in edge : lv[p] = high
    BY <1>4, <1>11 DEF TreeGraded
  <2> QED
    BY <2>1, <1>13
<1>22. \A o \in ObjectID : dbobjects'[o] \in edge2
  BY <1>3, <1>4, <1>10, <1>11 DEF TreeGraded
<1>23. TreeGraded(lv, edge2, top)'
  <2>1. lv \in [DOMAIN pages' -> Nat]
    BY <1>4, <1>5 DEF TreeGraded
  <2> QED
    BY <2>1, <1>10, <1>13, <1>19, <1>20, <1>21, <1>22 DEF TreeGraded
<1> QED
  BY <1>13, <1>18, <1>23 DEF Graded, Extends

-----------------------------------------------------------------------------
(* Levels in every state. *)

\* No step of a scan concerns an insertion.
LEMMA ScanGraded ==
    ASSUME IInv, NEW lv, NEW edge, NEW high, Graded(lv, edge, high), NEW t \in Threads,
           \/ \E o \in ObjectID, a, b \in Key : BeginScan(t, o, a, b)
           \/ Position(t) \/ Advance(t) \/ Fetch(t) \/ EndScan(t)
    PROVE  Graded(lv, edge, high)'
<1>1. /\ UNCHANGED <<pages, dbobjects>> /\ NoInsertion(op[t])
      /\ \E s : op' = [op EXCEPT ![t] = s] /\ NoInsertion(s)
  BY ScanDoes
<1>2. PICK s : op' = [op EXCEPT ![t] = s] /\ NoInsertion(s)
  BY <1>1
<1>3. s \notin RootCall /\ op[t] \notin RootCall
  BY <1>1, <1>2 DEF NoInsertion, RootCall
<1>4. s \notin InsertCall
  BY <1>2, CallIsOf DEF NoInsertion, CallIs
<1>5. CallGraded(lv, edge, t, s)
  BY <1>3, <1>4, NoInsertionGraded
<1> QED
  BY <1>1, <1>2, <1>3, <1>5, QuietGraded

LEMMA FailedGraded ==
    ASSUME IInv, NEW lv, NEW edge, NEW high, Graded(lv, edge, high), NEW t \in Threads,
           Failed(t), op[t] \notin RootCall
    PROVE  Graded(lv, edge, high)'
<1>1. PICK s : s = Panicked
  OBVIOUS
<1>2. s \notin InsertCall \cup RootCall
  BY <1>1, NoCall, CallsApart
<1>3. CallGraded(lv, edge, t, s)
  BY <1>2, NoInsertionGraded
<1> QED
  BY <1>1, <1>2, <1>3, QuietGraded DEF Failed

\* Whatever happens pages keep their levels.
LEMMA NextGraded ==
    ASSUME IInv, NEW lv, NEW edge, NEW high, Graded(lv, edge, high),
           \A t, u \in Inserters : t = u, [Next]_vars
    PROVE  \E lw, edge2, top : Graded(lw, edge2, top)' /\ Extends(lv, lw, high, top)
<1>1. high \in Nat
  BY DEF Graded, TreeGraded
<1>2. ASSUME Graded(lv, edge, high)'
      PROVE  \E lw, edge2, top : Graded(lw, edge2, top)' /\ Extends(lv, lw, high, top)
  BY <1>1, <1>2 DEF Extends
<1>3. CASE UNCHANGED vars
  <2>1. Graded(lv, edge, high)'
    BY <1>3 DEF vars, Graded, TreeGraded, CallGraded, Climbs, Bare, IsLeaf, NewID
  <2> QED
    BY <2>1, <1>2
<1>4. ASSUME NEW t \in Inserters, NEW o \in ObjectID, NEW k \in Key, BeginInsert(t, o, k)
      PROVE  Graded(lv, edge, high)'
  BY <1>4, BeginInsertGraded
<1>5. ASSUME NEW t \in Inserters, InsertStep(t)
      PROVE  \E lw, edge2, top : Graded(lw, edge2, top)' /\ Extends(lv, lw, high, top)
  <2>0. t \in Threads
    BY DEF Threads
  <2>1. CASE Descend(t)
    BY <2>0, <2>1, <1>2, DescendGraded
  <2>2. CASE TryInsert(t)
    BY <2>0, <2>2, <1>2, TryInsertGraded
  <2>3. CASE Split(t)
    BY <2>0, <2>3, SplitGraded
  <2>4. CASE PopParent(t)
    BY <2>0, <2>4, <1>2, PopParentGraded
  <2>5. CASE PublishRoot(t)
    BY <2>0, <2>5, PublishRootGraded
  <2>6. CASE InitRoot(t)
    BY <2>0, <2>6, InitRootGraded
  <2> QED
    BY <1>5, <2>1, <2>2, <2>3, <2>4, <2>5, <2>6 DEF InsertStep
<1>6. ASSUME NEW t \in Scanners,
             (\E o \in ObjectID, a, b \in Key : BeginScan(t, o, a, b)) \/ ScanStep(t)
      PROVE  Graded(lv, edge, high)'
  <2>0. t \in Threads
    BY DEF Threads
  <2>1. CASE Descend(t)
    BY <2>0, <2>1, DescendGraded
  <2>2. CASE \/ \E o \in ObjectID, a, b \in Key : BeginScan(t, o, a, b)
             \/ Position(t) \/ Advance(t) \/ Fetch(t) \/ EndScan(t)
    BY <2>0, <2>2, ScanGraded
  <2> QED
    BY <1>6, <2>1, <2>2 DEF ScanStep
<1> QED
  BY <1>2, <1>3, <1>4, <1>5, <1>6 DEF Next, Rest

\* In the beginning every page is a leaf.
LEMMA InitGraded ==
    ASSUME Init
    PROVE  \E lv, edge : Graded(lv, edge, 0)
<1>1. PICK lv, edge : lv = [p \in DOMAIN pages |-> 0] /\ edge = DOMAIN pages
  OBVIOUS
<1>2. /\ DOMAIN pages = ObjectID /\ \A p \in DOMAIN pages : IsLeaf(p)
      /\ \A o \in ObjectID : dbobjects[o] = o
      /\ \A t \in Threads : op[t] = Idle
  BY DEF Init, LeafPage, IsLeaf
<1>3. 0 \in ObjectID /\ NewID \in Nat /\ 0 < NewID
  <2>1. IInv
    BY InitIInv
  <2>2. NewID \in Nat /\ 0 \in DOMAIN pages /\ DOMAIN pages = 0 .. (NewID - 1)
    BY <2>1, NewIDProperties DEF IInv
  <2> QED
    BY <2>2, <1>2
<1>4. Idle \notin InsertCall /\ Idle \notin RootCall
  BY NoCall, CallsApart
<1>5. \A p : ~Bare(p)
  BY <1>2, <1>4 DEF Bare
<1>6. TreeGraded(lv, edge, 0)
  BY <1>1, <1>2, <1>3, <1>5 DEF TreeGraded
<1>7. \A t \in Threads : CallGraded(lv, edge, t, op[t])
  BY <1>2, <1>4 DEF CallGraded
<1> QED
  BY <1>6, <1>7 DEF Graded

-----------------------------------------------------------------------------
(* The pages that a call references. *)

\* The page is the one obtained last.
New(r, page) == IF r # <<>> /\ Last(r) = page THEN 1 ELSE 0

\* On the way down a call holds the pages it passed, each on a level below the one
\* before.  A bare root alone may be above the highest level of the others, and
\* leads to a leaf at once.
Downward(lv, high, c, r, f) ==
    /\ f = NULL_PTR
    /\ \/ Len(r) <= (high - lv[c.page]) + New(r, c.page)
       \/ Len(r) <= New(r, c.page)
       \/ IsLeaf(c.page) /\ Len(r) <= 1 + New(r, c.page)

\* A thread with references r and new page f, standing at c: on the way up it holds
\* a page of every level that it left behind.
CallRefs(lv, high, t, c, r, f) ==
    /\ c.at \in {"idle", "panicked"} => f = NULL_PTR /\ Len(r) <= high + 2
    /\ c.at \in {"descend", "position"} => Downward(lv, high, c, r, f)
    /\ c.at = "insert" => IF IsLeaf(c.page) THEN Downward(lv, high, c, r, f)
                          ELSE f # t /\ Len(r) <= lv[c.page] + New(r, c.page)
    /\ c.at = "split" => Len(r) <= lv[c.page] + 1
    /\ c.at = "parent" => Len(r) <= lv[c.page] + 1 /\ (c.parents # <<>> => f # t)
    /\ c.at = "init" => Len(r) <= lv[c.call.page] + 1 /\ f # t
    /\ c.at \in {"next", "end"} => f = NULL_PTR /\ Len(r) <= 1
    /\ c.at = "fetch" => f = NULL_PTR /\ Len(r) <= 1 + New(r, c.page)

PoolTypeOK ==
    /\ refs \in [Threads -> Seq(PageID)]
    /\ fresh \in [Threads -> {NULL_PTR} \cup Threads \cup PageID]
    /\ \A t \in Threads : fresh[t] \in {NULL_PTR, t} \cup PageID
RefsGraded(lv, high) ==
    PoolTypeOK /\ \A t \in Threads : CallRefs(lv, high, t, op[t], refs[t], fresh[t])

\* Where a thread in a call is, there is a page.
LEMMA CallsPage ==
    ASSUME NEW s \in CallState, CallOK(s)
    PROVE  /\ s.at \in {"idle", "panicked", "descend", "insert", "split", "parent", "init",
                        "position", "next", "fetch", "end"}
           /\ s.at \in {"descend", "insert", "split", "parent", "position", "next", "fetch", "end"}
                 => s.page \in DOMAIN pages
           /\ s.at = "init" => s \in RootCall /\ s.call.page \in DOMAIN pages
           /\ s.at \in {"position", "fetch"} => IsLeaf(s.page)
           /\ s.at = "descend" => ~IsLeaf(s.page)
<1>1. CASE s \in InsertCall
  <2>1. s.at \in {"descend", "insert", "split", "parent"} /\ InsertOK(s)
    BY <1>1, CallsApart DEF CallOK
  <2> QED
    BY <2>1 DEF InsertOK, PlaceOK
<1>2. CASE s \in ScanCall
  <2>1. s.at \in {"descend", "position", "next", "fetch", "end"} /\ ScanOK(s)
    BY <1>2, CallsApart DEF CallOK
  <2> QED
    BY <2>1 DEF ScanOK, PlaceOK
<1>3. CASE s \in RootCall
  <2>1. s.at = "init" /\ RootOK(s)
    BY <1>3 DEF CallOK, RootCall
  <2> QED
    BY <1>3, <2>1 DEF RootOK, InsertOK, PlaceOK
<1>4. CASE s \in {Idle, Panicked}
  BY <1>4 DEF Idle, Panicked
<1> QED
  BY <1>1, <1>2, <1>3, <1>4 DEF CallState

\* What a call holds stays enough while levels are added.
LEMMA CallRefsStay ==
    ASSUME PagesStay, NEW lv \in [DOMAIN pages -> Nat], NEW lw, NEW high \in Nat, NEW top \in Nat,
           Extends(lv, lw, high, top),
           NEW t, NEW s \in CallState, CallOK(s), NEW r, Len(r) \in Nat, NEW f,
           CallRefs(lv, high, t, s, r, f)
    PROVE  CallRefs(lw, top, t, s, r, f)'
<1>1. /\ s.at \in {"descend", "insert", "split", "parent", "position", "next", "fetch", "end"}
           => s.page \in DOMAIN pages
      /\ s.at = "init" => s.call.page \in DOMAIN pages
  BY CallsPage
<1>2. high <= top /\ \A p \in DOMAIN pages : lw[p] = lv[p] /\ (IsLeaf(p)' <=> IsLeaf(p))
  BY DEF Extends, PagesStay
<1>3. New(r, s.page) \in Nat
  BY DEF New
<1>4. ASSUME s.page \in DOMAIN pages, Downward(lv, high, s, r, f)
      PROVE  Downward(lw, top, s, r, f)'
  <2>1. lw[s.page] = lv[s.page] /\ lv[s.page] \in Nat /\ (IsLeaf(s.page)' <=> IsLeaf(s.page))
    BY <1>2, <1>4
  <2> QED
    BY <1>2, <1>3, <1>4, <2>1 DEF Downward, New
<1>5. s.at \in {"idle", "panicked"} => f = NULL_PTR /\ Len(r) <= top + 2
  BY <1>2 DEF CallRefs
<1>6. s.at \in {"descend", "position"} => Downward(lw, top, s, r, f)'
  BY <1>1, <1>4 DEF CallRefs
<1>7. s.at = "insert" => IF IsLeaf(s.page)' THEN Downward(lw, top, s, r, f)'
                         ELSE f # t /\ Len(r) <= lw[s.page] + New(r, s.page)
  BY <1>1, <1>2, <1>4 DEF CallRefs
<1>8. /\ s.at = "split" => Len(r) <= lw[s.page] + 1
      /\ s.at = "parent" => Len(r) <= lw[s.page] + 1 /\ (s.parents # <<>> => f # t)
      /\ s.at = "init" => Len(r) <= lw[s.call.page] + 1 /\ f # t
      /\ s.at \in {"next", "end"} => f = NULL_PTR /\ Len(r) <= 1
      /\ s.at = "fetch" => f = NULL_PTR /\ Len(r) <= 1 + New(r, s.page)
  BY <1>1, <1>2 DEF CallRefs
<1> QED
  BY <1>5, <1>6, <1>7, <1>8 DEF CallRefs, New

\* A step of one thread leaves what the others hold enough.
LEMMA OthersRefs ==
    ASSUME IInv, PagesStay, NEW lv \in [DOMAIN pages -> Nat], NEW lw,
           NEW high \in Nat, NEW top \in Nat, Extends(lv, lw, high, top), RefsGraded(lv, high),
           NEW t \in Threads,
           \A u \in Threads : u # t => op'[u] = op[u] /\ refs'[u] = refs[u] /\ fresh'[u] = fresh[u],
           PoolTypeOK', CallRefs(lw, top, t, op[t], refs[t], fresh[t])'
    PROVE  RefsGraded(lw, top)'
<1> SUFFICES ASSUME NEW u \in Threads, u # t
             PROVE  CallRefs(lw, top, u, op[u], refs[u], fresh[u])'
  BY DEF RefsGraded
<1>1. PICK s, r, f : s = op[u] /\ r = refs[u] /\ f = fresh[u]
  OBVIOUS
<1>2. s \in CallState /\ CallOK(s)
  BY <1>1, CallOf
<1>3. Len(r) \in Nat /\ CallRefs(lv, high, u, s, r, f)
  <2>1. r \in Seq(PageID)
    BY <1>1 DEF RefsGraded, PoolTypeOK
  <2> QED
    BY <1>1, <2>1, LenProperties DEF RefsGraded
<1>4. CallRefs(lw, top, u, s, r, f)'
  BY <1>2, <1>3, CallRefsStay
<1>5. op'[u] = s /\ refs'[u] = r /\ fresh'[u] = f
  BY <1>1
<1> QED
  BY <1>4, <1>5 DEF CallRefs, Downward

\* What a call that is ready for its next step holds.
LEMMA ReadyHolds ==
    ASSUME NEW lv, NEW high \in Nat, RefsGraded(lv, high), NEW t \in Threads, Ready(t),
           op[t] \in CallState, CallOK(op[t]), lv \in [DOMAIN pages -> Nat],
           NEW c, c = op[t], NEW r, r = refs[t], NEW f, f = fresh[t]
    PROVE  /\ Len(r) \in Nat /\ f \in {NULL_PTR, t} \cup PageID
           /\ c.at \in {"descend", "insert", "position", "fetch"} =>
                 f = NULL_PTR /\ New(r, c.page) = 1
           /\ c.at \in {"insert", "position", "fetch"} /\ IsLeaf(c.page) => Len(r) <= 1
           /\ c.at = "insert" /\ ~IsLeaf(c.page) => Len(r) <= lv[c.page] + 1
           /\ c.at = "split" => f # NULL_PTR
           /\ c.at = "parent" => f \in {NULL_PTR, t}
           /\ c.at \in {"idle", "panicked"} => r = <<>>
<1>1. /\ r \in Seq(PageID) /\ f \in {NULL_PTR, t} \cup PageID
      /\ CallRefs(lv, high, t, c, r, f)
  BY DEF RefsGraded, PoolTypeOK
<1>2. Len(r) \in Nat
  BY <1>1, LenProperties
<1>3. /\ ~NeedsPage(t) /\ ~NeedsNewPage(t) /\ ~DropsFresh(t) /\ ~DropsFormer(t) /\ ~Leaves(t)
  BY DEF Ready
<1>4. c.at \in {"descend", "insert", "position", "fetch"} => f = NULL_PTR
  <2>1. c.at = "insert" => f \notin PageID
    BY <1>3 DEF DropsFresh
  <2> QED
    BY <2>1, <1>1 DEF CallRefs, Downward
<1>5. c.at \in {"descend", "insert", "position", "fetch"} =>
         r # <<>> /\ Last(r) = c.page /\ Newest(t) = c.page
  <2>1. ASSUME c.at \in {"descend", "insert", "position", "fetch"} PROVE Newest(t) = c.page
    BY <1>3, <1>4, <2>1 DEF NeedsPage
  <2>2. ASSUME c.at \in {"descend", "insert", "position", "fetch"} PROVE c.page # NULL_PTR
    <3>1. c \in InsertCall \cup ScanCall
      BY <2>2, CallsApart
    <3>2. c.page \in PageID
      BY <3>1 DEF InsertCall, ScanCall
    <3> QED
      BY <3>2, TreeAssumption
  <2> QED
    BY <2>1, <2>2 DEF Newest
<1>6. c.at \in {"insert", "position", "fetch"} /\ IsLeaf(c.page) => Len(r) <= 1
  BY <1>2, <1>3, <1>5 DEF DropsFormer, IsLeaf
<1>7. c.at \in {"descend", "insert", "position", "fetch"} => New(r, c.page) = 1
  BY <1>5 DEF New
<1>8. c.at = "insert" /\ ~IsLeaf(c.page) => Len(r) <= lv[c.page] + 1
  BY <1>1, <1>7 DEF CallRefs
<1>9. /\ c.at = "split" => f # NULL_PTR
      /\ c.at = "parent" => f \in {NULL_PTR, t}
      /\ c.at \in {"idle", "panicked"} => r = <<>>
  BY <1>1, <1>3 DEF NeedsNewPage, DropsFresh, Leaves
<1> QED
  BY <1>1, <1>2, <1>4, <1>6, <1>7, <1>8, <1>9

\* A climbing call is on a level of the tree.
LEMMA ClimbsInTree ==
    ASSUME NEW lv, NEW edge, NEW high, TreeGraded(lv, edge, high),
           NEW c \in InsertCall, InsertOK(c), Climbs(lv, edge, c)
    PROVE  lv[c.page] <= high /\ lv[c.page] \in Nat /\ high \in Nat
<1>1. \A p \in edge : lv[p] <= high /\ lv[p] \in Nat
  BY DEF TreeGraded
<1>2. c.page \in DOMAIN pages /\ high \in Nat /\ lv[c.page] \in Nat
  BY DEF TreeGraded, InsertOK, PlaceOK
<1>3. CASE c.parents = <<>>
  BY <1>1, <1>2, <1>3 DEF Climbs, Top
<1>4. CASE c.parents # <<>>
  <2>1. 1 \in DOMAIN c.parents
    <3>1. c.parents \in Seq(PageID)
      BY DEF InsertCall
    <3> QED
      BY <3>1, <1>4, FrontOf
  <2>2. lv[c.page] < lv[c.parents[1]] /\ c.parents[1] \in edge
    BY <1>4, <2>1 DEF Climbs, Stacked, Top
  <2> QED
    BY <1>1, <1>2, <2>2
<1> QED
  BY <1>3, <1>4

\* In every state a call holds at most two pages more than the highest level.
LEMMA RefsBounded ==
    ASSUME IInv, NEW lv, NEW edge, NEW high, Graded(lv, edge, high), RefsGraded(lv, high),
           NEW t \in Threads
    PROVE  Len(refs[t]) + (IF fresh[t] = NULL_PTR THEN 0 ELSE 1) <= high + 2
<1>1. PICK c, r, f : c = op[t] /\ r = refs[t] /\ f = fresh[t]
  OBVIOUS
<1>2. /\ c \in CallState /\ CallOK(c)
      /\ TreeGraded(lv, edge, high) /\ CallGraded(lv, edge, t, c)
      /\ CallRefs(lv, high, t, c, r, f)
  BY <1>1, CallOf DEF Graded, RefsGraded
<1>3. lv \in [DOMAIN pages -> Nat] /\ high \in Nat
  BY <1>2 DEF TreeGraded
<1>4. Len(r) \in Nat
  <2>1. r \in Seq(PageID)
    BY <1>1 DEF RefsGraded, PoolTypeOK
  <2> QED
    BY <2>1, LenProperties
<1>5. /\ c.at \in {"descend", "insert", "split", "parent", "position", "next", "fetch", "end"}
           => c.page \in DOMAIN pages
      /\ c.at \in {"idle", "panicked", "descend", "insert", "split", "parent", "init",
                   "position", "next", "fetch", "end"}
  BY <1>2, CallsPage
<1>6. New(r, c.page) \in 0 .. 1
  BY DEF New
<1>7. ASSUME Downward(lv, high, c, r, f), c.page \in DOMAIN pages
      PROVE  f = NULL_PTR /\ Len(r) <= high + 2
  <2>1. lv[c.page] \in Nat
    BY <1>3, <1>7
  <2> QED
    BY <2>1, <1>3, <1>4, <1>6, <1>7 DEF Downward
<1> DEFINE Few == Len(r) <= high + 1 \/ (f = NULL_PTR /\ Len(r) <= high + 2)
<1>13. SUFFICES Few
  <2>1. ASSUME NEW n, n = (IF f = NULL_PTR THEN 0 ELSE 1), Few
        PROVE  Len(r) + n <= high + 2
    <3>1. n \in 0 .. 1 /\ (f = NULL_PTR => n = 0)
      BY <2>1
    <3> QED
      BY <2>1, <3>1, <1>3, <1>4
  <2> QED
    BY <2>1, <1>1
<1>8. CASE c.at \in {"idle", "panicked"}
  BY <1>2, <1>8 DEF CallRefs
<1>9. CASE c.at \in {"descend", "position"} \/ (c.at = "insert" /\ IsLeaf(c.page))
  BY <1>2, <1>5, <1>7, <1>9 DEF CallRefs
<1>10. CASE c.at \in {"next", "end", "fetch"}
  <2>1. f = NULL_PTR /\ Len(r) <= 2
    BY <1>2, <1>4, <1>6, <1>10 DEF CallRefs
  <2> QED
    BY <2>1, <1>3, <1>4
<1>11. CASE (c.at = "insert" /\ ~IsLeaf(c.page)) \/ c.at \in {"split", "parent"}
  <2>1. c \in InsertCall /\ InsertOK(c) /\ Climbs(lv, edge, c)
    <3>1. c \in InsertCall
      BY <1>2, <1>11, CallsApart
    <3> QED
      BY <3>1, <1>2 DEF CallOK, CallGraded
  <2>2. lv[c.page] <= high /\ lv[c.page] \in Nat
    BY <2>1, <1>2, ClimbsInTree
  <2>3. Len(r) <= lv[c.page] + 1
    BY <1>2, <1>4, <1>6, <1>11, <2>2 DEF CallRefs
  <2> QED
    BY <2>2, <2>3, <1>3, <1>4
<1>12. CASE c.at = "init"
  <2>1. c \in RootCall
    BY <1>2, <1>12, CallsApart
  <2>2. c.call \in InsertCall /\ InsertOK(c.call) /\ Climbs(lv, edge, c.call)
    BY <1>2, <2>1 DEF CallOK, RootOK, RootCall, CallGraded
  <2>3. lv[c.call.page] <= high /\ lv[c.call.page] \in Nat
    BY <2>2, <1>2, ClimbsInTree
  <2>4. Len(r) <= lv[c.call.page] + 1
    BY <1>2, <1>12 DEF CallRefs
  <2> QED
    BY <2>3, <2>4, <1>3, <1>4
<1> QED
  BY <1>5, <1>8, <1>9, <1>10, <1>11, <1>12

-----------------------------------------------------------------------------
(* What the steps do to the references. *)

\* No page goes or changes its type in a step.
LEMMA StepsStay ==
    ASSUME IInv, PagesStep
    PROVE  PagesStay
<1>1. CASE pages' = pages
  BY <1>1 DEF PagesStay, IsLeaf
<1>2. ASSUME NEW p, NEW tuple, PutIn(p, tuple) PROVE PagesStay
  <2>1. pages'[p].type = pages[p].type
    <3>1. pages[p] \in Page
      BY <1>2 DEF PutIn, IInv, TypeOK
    <3> QED
      BY <3>1, <1>2 DEF PutIn, Page
  <2> QED
    BY <2>1, <1>2 DEF PutIn, PagesStay, IsLeaf
<1>3. ASSUME NEW p, NEW tuple, NEW s, Halved(p, tuple, s) PROVE PagesStay
  <2>1. pages[p] \in Page /\ NewID \notin DOMAIN pages
    BY <1>3, NewIDProperties DEF Halved, IInv, TypeOK
  <2>2. s.left.type = "Leaf" <=> IsLeaf(p)
    BY <1>3 DEF Halved, SplitLeaf, SplitNode, LeafPage, NodePage
  <2> QED
    BY <2>1, <2>2, <1>3 DEF Halved, Added, PagesStay, IsLeaf
<1>4. CASE RootAdded
  BY <1>4 DEF RootAdded, Added, PagesStay, IsLeaf
<1>5. ASSUME NEW r, NEW child, RootMade(r, child) PROVE PagesStay
  BY <1>5 DEF RootMade, PagesStay, IsLeaf, NodePage
<1> QED
  BY <1>1, <1>2, <1>3, <1>4, <1>5 DEF PagesStep

\* A sequence with one more element at its end, and without its last but one.
LEMMA NewestOf ==
    ASSUME NEW r \in Seq(PageID), NEW page \in PageID
    PROVE  /\ Append(r, page) \in Seq(PageID) /\ Len(Append(r, page)) = Len(r) + 1
           /\ New(Append(r, page), page) = 1
<1>1. PICK s : s = Append(r, page)
  OBVIOUS
<1>2. /\ s \in Seq(PageID) /\ Len(s) = Len(r) + 1 /\ s[Len(r) + 1] = page
  BY <1>1, AppendProperties
<1>3. Len(r) \in Nat /\ DOMAIN s = 1 .. Len(s)
  BY <1>2, LenProperties
<1>4. s # <<>> /\ Last(s) = page
  <2>1. 1 \in DOMAIN s
    BY <1>2, <1>3
  <2> QED
    BY <2>1, <1>2 DEF Last
<1> QED
  BY <1>1, <1>2, <1>4 DEF New

LEMMA FormerDropped ==
    ASSUME NEW r \in Seq(PageID), Len(r) > 1, NEW s, s = RemoveAt(r, Len(r) - 1)
    PROVE  s \in Seq(PageID) /\ Len(s) = Len(r) - 1 /\ s # <<>> /\ Last(s) = Last(r)
<1>1. PICK n \in Nat : n = Len(r) /\ n > 1
  BY LenProperties
<1>2. PICK a, b : a = SubSeq(r, 1, n - 2) /\ b = SubSeq(r, n, n)
  OBVIOUS
<1>3. s = a \o b
  BY <1>1, <1>2 DEF RemoveAt
<1>4. \A i \in 1 .. n : r[i] \in PageID
  BY <1>1, ElementOfSeq
<1>5. a \in Seq(PageID) /\ Len(a) = n - 2
  <2>1. \A i \in 1 .. n - 2 : r[i] \in PageID
    BY <1>1, <1>4
  <2>2. a \in Seq(PageID) /\ Len(a) = IF 1 <= n - 2 THEN n - 2 - 1 + 1 ELSE 0
    BY <2>1, <1>1, <1>2, SubSeqProperties
  <2> QED
    BY <2>2, <1>1
<1>6. b \in Seq(PageID) /\ Len(b) = 1 /\ b[1] = r[n]
  <2>1. \A i \in n .. n : r[i] \in PageID
    BY <1>1, <1>4
  <2>2. /\ b \in Seq(PageID) /\ Len(b) = IF n <= n THEN n - n + 1 ELSE 0
        /\ \A i \in 1 .. n - n + 1 : b[i] = r[n + i - 1]
    BY <2>1, <1>1, <1>2, SubSeqProperties
  <2> QED
    BY <2>2, <1>1
<1>7. /\ s \in Seq(PageID) /\ Len(s) = (n - 2) + 1 /\ s[(n - 2) + 1] = r[n]
  <2>1. /\ a \o b \in Seq(PageID) /\ Len(a \o b) = Len(a) + Len(b)
        /\ \A i \in 1 .. Len(a) + Len(b) :
              (a \o b)[i] = IF i <= Len(a) THEN a[i] ELSE b[i - Len(a)]
    BY <1>5, <1>6, ConcatProperties
  <2>2. PICK m \in Nat : m = n - 2 /\ Len(a) = m
    BY <1>1, <1>5
  <2>3. s[m + 1] = b[1]
    <3>1. m + 1 \in 1 .. Len(a) + Len(b) /\ ~(m + 1 <= Len(a)) /\ m + 1 - Len(a) = 1
      BY <2>2, <1>6
    <3> QED
      BY <2>1, <3>1, <1>3
  <2> QED
    BY <2>1, <2>2, <2>3, <1>3, <1>6
<1>8. 1 \in DOMAIN s
  BY <1>1, <1>7, LenProperties
<1> QED
  BY <1>1, <1>7, <1>8 DEF Last

\* A thread obtains or drops a page.
LEMMA PoolRefs ==
    ASSUME IInv, NEW lv \in [DOMAIN pages -> Nat], NEW high \in Nat, RefsGraded(lv, high),
           NEW t \in Threads, Get(t) \/ GetNew(t) \/ Drop(t)
    PROVE  RefsGraded(lv, high)'
<1>1. PICK c, r, f : c = op[t] /\ r = refs[t] /\ f = fresh[t]
  OBVIOUS
<1>2. /\ r \in Seq(PageID) /\ f \in {NULL_PTR, t} \cup PageID
      /\ CallRefs(lv, high, t, c, r, f) /\ UNCHANGED vars
  BY <1>1 DEF RefsGraded, PoolTypeOK, Get, GetNew, Drop
<1>3. Len(r) \in Nat
  BY <1>2, LenProperties
<1>4. c \in CallState /\ CallOK(c)
  BY <1>1, CallOf
<1>5. /\ c.at \in {"descend", "insert", "split", "parent", "position", "next", "fetch", "end"}
           => c.page \in DOMAIN pages /\ lv[c.page] \in Nat
      /\ c.at = "init" => c.call.page \in DOMAIN pages /\ lv[c.call.page] \in Nat
      /\ c.at \in {"position", "fetch"} => IsLeaf(c.page)
  BY <1>4, CallsPage
<1>6. SUFFICES ASSUME NEW r2 \in Seq(PageID), NEW f2 \in {NULL_PTR, t} \cup PageID,
                      refs' = [refs EXCEPT ![t] = r2], fresh' = [fresh EXCEPT ![t] = f2]
               PROVE  CallRefs(lv, high, t, c, r2, f2)
  <2>1. \E r2 \in Seq(PageID), f2 \in {NULL_PTR, t} \cup PageID :
           refs' = [refs EXCEPT ![t] = r2] /\ fresh' = [fresh EXCEPT ![t] = f2]
    <3>0. refs = [refs EXCEPT ![t] = r] /\ fresh = [fresh EXCEPT ![t] = f]
      BY <1>1 DEF RefsGraded, PoolTypeOK
    <3>1. CASE Get(t)
      <4>1. c.page \in PageID
        BY <3>1, <1>1, <1>4, CallsApart DEF Get, NeedsPage, InsertCall, ScanCall
      <4>2. PICK r2 : r2 = Append(r, c.page)
        OBVIOUS
      <4>3. r2 \in Seq(PageID)
        BY <4>1, <4>2, <1>2, NewestOf
      <4>4. refs' = [refs EXCEPT ![t] = r2] /\ fresh' = fresh
        BY <3>1, <4>2, <1>1 DEF Get
      <4> QED
        BY <4>3, <4>4, <3>0, <1>2
    <3>2. CASE GetNew(t)
      BY <3>2, <3>0, <1>2 DEF GetNew
    <3>3. CASE Drop(t)
      <4>1. CASE DropsFresh(t) /\ fresh' = [fresh EXCEPT ![t] = NULL_PTR] /\ UNCHANGED refs
        BY <4>1, <3>0, <1>2
      <4>2. CASE DropsFormer(t) /\ refs' = [refs EXCEPT ![t] = RemoveAt(@, Len(@) - 1)] /\ UNCHANGED fresh
        <5>1. PICK r2 : r2 = RemoveAt(r, Len(r) - 1)
          OBVIOUS
        <5>2. r2 \in Seq(PageID)
          BY <4>2, <5>1, <1>1, <1>2, FormerDropped DEF DropsFormer
        <5>3. refs' = [refs EXCEPT ![t] = r2]
          BY <4>2, <5>1, <1>1
        <5> QED
          BY <4>2, <5>2, <5>3, <3>0, <1>2
      <4>3. CASE Leaves(t) /\ refs' = [refs EXCEPT ![t] = Front(@)] /\ UNCHANGED fresh
        <5>1. PICK r2 : r2 = Front(r)
          OBVIOUS
        <5>2. r2 \in Seq(PageID)
          BY <4>3, <5>1, <1>1, <1>2, FrontOf DEF Leaves
        <5>3. refs' = [refs EXCEPT ![t] = r2]
          BY <4>3, <5>1, <1>1
        <5> QED
          BY <4>3, <5>2, <5>3, <3>0, <1>2
      <4> QED
        BY <3>3, <4>1, <4>2, <4>3 DEF Drop
    <3> QED
      BY <3>1, <3>2, <3>3
  <2>2. PICK r2 \in Seq(PageID), f2 \in {NULL_PTR, t} \cup PageID :
           refs' = [refs EXCEPT ![t] = r2] /\ fresh' = [fresh EXCEPT ![t] = f2]
    BY <2>1
  <2>3. CallRefs(lv, high, t, c, r2, f2)
    BY <1>6, <2>2
  <2>4. /\ refs'[t] = r2 /\ fresh'[t] = f2 /\ op' = op /\ pages' = pages
        /\ \A u \in Threads : u # t => refs'[u] = refs[u] /\ fresh'[u] = fresh[u]
        /\ PoolTypeOK'
    BY <2>2, <1>2 DEF RefsGraded, PoolTypeOK, vars
  <2>5. PagesStay /\ Extends(lv, lv, high, high)
    BY <2>4 DEF PagesStay, IsLeaf, Extends
  <2>6. CallRefs(lv, high, t, op[t], refs[t], fresh[t])'
    BY <2>3, <2>4, <1>1 DEF CallRefs, Downward, IsLeaf
  <2> QED
    BY <2>4, <2>5, <2>6, OthersRefs
<1>7. r2 = refs'[t] /\ f2 = fresh'[t]
  BY <1>6 DEF RefsGraded, PoolTypeOK
<1>8. New(r, c.page) \in 0 .. 1 /\ New(r2, c.page) \in 0 .. 1
  BY DEF New
<1>9. CASE Get(t)
  <2>1. c.at \in {"descend", "insert", "position", "fetch"} /\ f = NULL_PTR /\ Newest(t) # c.page
    BY <1>1, <1>9 DEF Get, NeedsPage
  <2>2. c.page \in PageID
    BY <2>1, <1>4, CallsApart DEF InsertCall, ScanCall
  <2>3. r2 = Append(r, c.page) /\ f2 = f
    BY <1>1, <1>6, <1>7, <1>9 DEF Get, RefsGraded, PoolTypeOK
  <2>4. Len(r2) = Len(r) + 1 /\ New(r2, c.page) = 1
    BY <2>2, <2>3, <1>2, NewestOf
  <2>5. New(r, c.page) = 0
    BY <2>1, <1>1 DEF New, Newest
  <2> QED
    BY <2>1, <2>3, <2>4, <2>5, <1>2, <1>3, <1>5 DEF CallRefs, Downward
<1>10. CASE GetNew(t)
  <2>1. r2 = r /\ (c.at = "split" \/ (c.at = "parent" /\ c.parents = <<>>))
    BY <1>1, <1>7, <1>10 DEF GetNew, NeedsNewPage
  <2> QED
    BY <2>1, <1>2 DEF CallRefs
<1>11. CASE Drop(t)
  <2>1. CASE DropsFresh(t) /\ fresh' = [fresh EXCEPT ![t] = NULL_PTR] /\ UNCHANGED refs
    <3>1. r2 = r /\ f2 = NULL_PTR /\ c.at \in {"parent", "insert"}
      BY <2>1, <1>1, <1>7 DEF DropsFresh, RefsGraded, PoolTypeOK
    <3>2. NULL_PTR # t
      BY ThreadsAssumption
    <3> QED
      BY <3>1, <3>2, <1>2 DEF CallRefs, Downward
  <2>2. CASE DropsFormer(t) /\ refs' = [refs EXCEPT ![t] = RemoveAt(@, Len(@) - 1)] /\ UNCHANGED fresh
    <3>1. /\ c.at \in {"insert", "position", "fetch"} /\ IsLeaf(c.page)
          /\ Len(r) > 1 /\ r2 = RemoveAt(r, Len(r) - 1) /\ f2 = f
      BY <2>2, <1>1, <1>7 DEF DropsFormer, IsLeaf, RefsGraded, PoolTypeOK
    <3>2. Len(r2) = Len(r) - 1 /\ r2 # <<>> /\ Last(r2) = Last(r)
      BY <3>1, <1>2, FormerDropped
    <3>3. r # <<>>
      BY <3>1
    <3>4. New(r2, c.page) = New(r, c.page)
      BY <3>2, <3>3 DEF New
    <3> QED
      BY <3>1, <3>2, <3>4, <1>2, <1>3, <1>5, <1>8 DEF CallRefs, Downward
  <2>3. CASE Leaves(t) /\ refs' = [refs EXCEPT ![t] = Front(@)] /\ UNCHANGED fresh
    <3>1. c.at \in {"idle", "panicked"} /\ r # <<>> /\ r2 = Front(r) /\ f2 = f
      BY <2>3, <1>1, <1>7 DEF Leaves, RefsGraded, PoolTypeOK
    <3>2. Len(r2) = Len(r) - 1
      BY <3>1, <1>2, FrontOf
    <3> QED
      BY <3>1, <3>2, <1>2, <1>3 DEF CallRefs
  <2> QED
    BY <1>11, <2>1, <2>2, <2>3 DEF Drop
<1> QED
  BY <1>9, <1>10, <1>11

\* A call that begins holds nothing.
LEMMA BeginRefs ==
    ASSUME IInv, IInv', PagesStay, UNCHANGED pages,
           NEW lv \in [DOMAIN pages -> Nat], NEW high \in Nat, RefsGraded(lv, high),
           NEW t \in Threads, Ready(t), op[t].at = "idle",
           NEW s, op' = [op EXCEPT ![t] = s], UNCHANGED poolVars
    PROVE  RefsGraded(lv, high)'
<1>1. PICK r, f : r = refs[t] /\ f = fresh[t]
  OBVIOUS
<1>2. op[t] \in CallState /\ CallOK(op[t])
  BY CallOf
<1>3. r = <<>> /\ Len(r) = 0 /\ f = NULL_PTR
  <2>1. r = <<>>
    BY <1>1, <1>2, ReadyHolds
  <2>2. f = NULL_PTR
    BY <1>1 DEF RefsGraded, CallRefs
  <2> QED
    BY <2>1, <2>2
<1>4. op'[t] = s /\ \A u \in Threads : u # t => op'[u] = op[u]
  BY DEF IInv, TypeOK
<1>5. s \in CallState /\ CallOK(s)'
  BY <1>4 DEF IInv, TypeOK, CallsOK, CallState, CallOK, InsertOK, RootOK, ScanOK, PlaceOK,
              CarriesSeparator
<1>6. CallRefs(lv, high, t, s, r, f)'
  <2>1. /\ s.at \in {"split", "parent", "insert"} => s.page \in DOMAIN pages
        /\ s.at = "init" => s.call.page \in DOMAIN pages
    <3>1. s.at \in {"split", "parent", "insert"} => s \in InsertCall
      BY <1>5, CallsApart
    <3>2. s.at = "init" => s \in RootCall /\ s.call \in InsertCall
      BY <1>5, CallsApart DEF RootCall
    <3> QED
      BY <3>1, <3>2, <1>5 DEF CallOK, RootOK, InsertOK, PlaceOK
  <2>2. /\ s.at \in {"split", "parent", "insert"} => lv[s.page] \in Nat
        /\ s.at = "init" => lv[s.call.page] \in Nat
    BY <2>1
  <2>3. New(r, s.page) = 0 /\ NULL_PTR # t
    BY <1>3, ThreadsAssumption DEF New
  <2> QED
    BY <1>3, <2>2, <2>3 DEF CallRefs, Downward, New
<1>7. /\ CallRefs(lv, high, t, op[t], refs[t], fresh[t])' /\ PoolTypeOK'
      /\ \A u \in Threads : refs'[u] = refs[u] /\ fresh'[u] = fresh[u]
  BY <1>1, <1>4, <1>6 DEF poolVars, RefsGraded, PoolTypeOK, CallRefs, Downward, New
<1>8. Extends(lv, lv, high, high)
  BY DEF Extends
<1> QED
  BY <1>4, <1>7, <1>8, OthersRefs

\* A call that fails for want of a page keeps those it has until it unwinds.
LEMMA FailRefs ==
    ASSUME IInv, NEW lv, NEW edge, NEW high, Graded(lv, edge, high), RefsGraded(lv, high),
           NEW t \in Threads, Fail(t)
    PROVE  RefsGraded(lv, high)'
<1>1. PICK r, f, s : r = refs[t] /\ f = fresh[t] /\ s = Panicked
  OBVIOUS
<1>2. /\ f = NULL_PTR /\ op' = [op EXCEPT ![t] = s] /\ UNCHANGED pages /\ UNCHANGED poolVars
  BY <1>1 DEF Fail, NeedsPage, NeedsNewPage, Step
<1>3. Len(r) <= high + 2 /\ lv \in [DOMAIN pages -> Nat] /\ high \in Nat
  <2>1. lv \in [DOMAIN pages -> Nat] /\ high \in Nat
    BY DEF Graded, TreeGraded
  <2>2. Len(r) \in Nat
    <3>1. r \in Seq(PageID)
      BY <1>1 DEF RefsGraded, PoolTypeOK
    <3> QED
      BY <3>1, LenProperties
  <2>3. Len(r) + (IF f = NULL_PTR THEN 0 ELSE 1) <= high + 2
    BY <1>1, RefsBounded
  <2>4. (IF f = NULL_PTR THEN 0 ELSE 1) = 0
    BY <1>2
  <2> QED
    BY <2>1, <2>2, <2>3, <2>4
<1>4. op'[t] = s /\ \A u \in Threads : u # t => op'[u] = op[u]
  BY <1>2 DEF IInv, TypeOK
<1>5. s.at = "panicked"
  BY <1>1 DEF Panicked
<1>6. CallRefs(lv, high, t, s, r, f)'
  BY <1>2, <1>3, <1>5 DEF CallRefs
<1>7. /\ CallRefs(lv, high, t, op[t], refs[t], fresh[t])' /\ PoolTypeOK'
      /\ \A u \in Threads : refs'[u] = refs[u] /\ fresh'[u] = fresh[u]
  BY <1>1, <1>2, <1>4, <1>6 DEF poolVars, RefsGraded, PoolTypeOK, CallRefs, Downward, New
<1>8. Extends(lv, lv, high, high) /\ PagesStay
  BY <1>2, <1>3 DEF Extends, PagesStay, IsLeaf
<1> QED
  BY <1>3, <1>4, <1>7, <1>8, OthersRefs

\* What a thread that works holds when its step is done.
LEMMA WorkCallRefs ==
    ASSUME IInv, IInv', PagesStay, \A t, u \in Inserters : t = u,
           NEW lv, NEW edge, NEW high, Graded(lv, edge, high), RefsGraded(lv, high),
           NEW lw, NEW top \in Nat, Extends(lv, lw, high, top), lw \in [DOMAIN pages' -> Nat],
           NEW t \in Threads, Work(t), NEW r, r = refs[t], NEW f, f = fresh[t],
           NEW s, s = op'[t], NEW g, g = IF f = t THEN NewID ELSE f
    PROVE  CallRefs(lw, top, t, s, r, g)'
<1>1. PICK c : c = op[t]
  OBVIOUS
<1>2. /\ c \in CallState /\ CallOK(c) /\ TypeOK
      /\ TreeGraded(lv, edge, high) /\ CallGraded(lv, edge, t, c)
      /\ CallRefs(lv, high, t, c, r, f)
  BY <1>1, CallOf DEF Graded, RefsGraded, IInv
<1>3. /\ lv \in [DOMAIN pages -> Nat] /\ high \in Nat /\ high <= top
      /\ \A p \in DOMAIN pages : p \in DOMAIN pages' /\ lw[p] = lv[p] /\ (IsLeaf(p)' <=> IsLeaf(p))
  BY <1>2 DEF TreeGraded, Extends, PagesStay
<1>4. /\ Len(r) \in Nat /\ f \in {NULL_PTR, t} \cup PageID
      /\ c.at \in {"descend", "insert", "position", "fetch"} =>
            f = NULL_PTR /\ New(r, c.page) = 1
      /\ c.at \in {"insert", "position", "fetch"} /\ IsLeaf(c.page) => Len(r) <= 1
      /\ c.at = "insert" /\ ~IsLeaf(c.page) => Len(r) <= lv[c.page] + 1
      /\ c.at = "parent" => f \in {NULL_PTR, t}
  BY <1>1, <1>2, <1>3, ReadyHolds DEF Work
<1>5. g # t /\ (f = NULL_PTR => g = NULL_PTR)
  <2>1. NewID \in PageID
    BY NewIDProperties DEF IInv, PageID
  <2> QED
    BY <2>1, ThreadsAssumption
<1>7. \A x : op' = [op EXCEPT ![t] = x] => s = x
  BY <1>2 DEF TypeOK
<1>9. c.at \in {"descend", "insert", "split", "parent", "position", "next", "fetch", "end"}
         => c.page \in DOMAIN pages /\ lv[c.page] \in Nat /\ lw[c.page] = lv[c.page]
  BY <1>2, <1>3, CallsPage
<1>10. New(r, s.page) \in 0 .. 1
  BY DEF New
<1>11. CASE Descend(t)
  <2>1. c.at = "descend" /\ c.page \in DOMAIN pages /\ ~IsLeaf(c.page) /\ UNCHANGED pages
    BY <1>1, <1>11, DescendDoes
  <2>2. PICK d : d = Child(pages[c.page], c.key)
    OBVIOUS
  <2>3. /\ d \in DOMAIN pages /\ d \in Children(pages[c.page])
        /\ lv[d] < lv[c.page] /\ lv[d] \in Nat /\ lw[d] = lv[d] /\ (IsLeaf(d)' <=> IsLeaf(d))
    BY <1>2, <1>3, <2>1, <2>2, ChildIsLower
  <2>4. s.page = d /\ s.at = IF IsLeaf(d) THEN s.at ELSE "descend"
    <3>1. PICK ps, x : ps = Append(c.parents, c.page) /\ x = Reach(c, d, ps)
      OBVIOUS
    <3>2. s = x
      BY <3>1, <1>1, <1>7, <1>11, <2>2 DEF Descend, Step
    <3>3. c \in InsertCall \cup ScanCall
      BY <1>2, <2>1, CallsApart
    <3>4. pages[d].type = "Node" \/ IsLeaf(d)
      BY <1>2, <2>3 DEF TypeOK, Page, IsLeaf
    <3> QED
      BY <3>1, <3>2, <3>3, <3>4 DEF Reach, InsertCall, ScanCall
  <2>5. s.at \in {"descend", "insert", "position"} /\ (s.at = "insert" => IsLeaf(d))
    <3>1. PICK ps, x : ps = Append(c.parents, c.page) /\ x = Reach(c, d, ps)
      OBVIOUS
    <3>2. s = x
      BY <3>1, <1>1, <1>7, <1>11, <2>2 DEF Descend, Step
    <3>3. c \in InsertCall \cup ScanCall
      BY <1>2, <2>1, CallsApart
    <3>4. pages[d].type = "Node" \/ IsLeaf(d)
      BY <1>2, <2>3 DEF TypeOK, Page, IsLeaf
    <3> QED
      BY <3>1, <3>2, <3>3, <3>4 DEF Reach, InsertCall, ScanCall
  <2>6. Len(r) <= (high - lv[c.page]) + 1 \/ Len(r) <= 1
    BY <1>2, <1>4, <2>1 DEF CallRefs, Downward
  <2>7. lv[c.page] <= high \/ IsLeaf(d)
    BY <1>2, <2>1, <2>3 DEF TreeGraded
  <2>8. Downward(lw, top, s, r, g)'
    <3>1. /\ g = NULL_PTR
          /\ \/ Len(r) <= (top - lw[s.page]) + New(r, s.page)
             \/ IsLeaf(s.page)' /\ Len(r) <= 1 + New(r, s.page)
      BY <1>3, <1>4, <1>5, <1>9, <1>10, <2>1, <2>3, <2>4, <2>6, <2>7
    <3> QED
      BY <3>1 DEF Downward, New
  <2>9. s.at = "insert" => IsLeaf(s.page)'
    BY <2>3, <2>4, <2>5
  <2> QED
    BY <2>5, <2>8, <2>9 DEF CallRefs
<1>12. CASE t \in Inserters /\ TryInsert(t)
  <2>1. /\ c \in InsertCall /\ InsertOK(c) /\ c.at = "insert"
        /\ s \in {Idle, Panicked, [c EXCEPT !.at = "split"]}
    <3>1. /\ c \in InsertCall /\ InsertOK(c) /\ c.at = "insert"
          /\ \/ op' = [op EXCEPT ![t] = Panicked]
             \/ op' = [op EXCEPT ![t] = Idle]
             \/ op' = [op EXCEPT ![t] = [c EXCEPT !.at = "split"]]
      BY <1>1, <1>12, TryInsertDoes
    <3>2. PICK x \in {Idle, Panicked, [c EXCEPT !.at = "split"]} : op' = [op EXCEPT ![t] = x]
      BY <3>1
    <3>3. s = x
      BY <3>2, <1>7
    <3> QED
      BY <3>1, <3>3
  <2>2. Len(r) <= lv[c.page] + 1
    BY <1>4, <1>9, <2>1
  <2>3. lv[c.page] <= high
    <3>1. Climbs(lv, edge, c)
      BY <1>2, <2>1 DEF CallGraded
    <3> QED
      BY <3>1, <1>2, <2>1, ClimbsInTree
  <2>4. g = NULL_PTR /\ Len(r) <= top + 2
    BY <1>3, <1>4, <1>5, <1>9, <2>1, <2>2, <2>3
  <2>5. CASE s \in {Idle, Panicked}
    <3>1. s.at \in {"idle", "panicked"}
      BY <2>5 DEF Idle, Panicked
    <3> QED
      BY <3>1, <2>4 DEF CallRefs
  <2>6. CASE s = [c EXCEPT !.at = "split"]
    <3>1. s.at = "split" /\ s.page = c.page
      BY <2>1, <2>6 DEF InsertCall
    <3> QED
      BY <3>1, <2>1, <2>2, <1>9 DEF CallRefs
  <2> QED
    BY <2>1, <2>5, <2>6
<1>13. CASE t \in Inserters /\ Split(t)
  <2>1. /\ c \in InsertCall /\ InsertOK(c) /\ c.at = "split"
        /\ \/ op' = op
           \/ \E up : op' = [op EXCEPT ![t] = AfterSplit(c, up)]
    BY <1>1, <1>13, SplitDoes
  <2>2. Len(r) <= lw[c.page] + 1
    BY <1>2, <1>9, <2>1 DEF CallRefs
  <2>3. CASE op' = op
    BY <2>1, <2>2, <2>3, <1>1 DEF CallRefs
  <2>4. ASSUME NEW up, op' = [op EXCEPT ![t] = AfterSplit(c, up)]
        PROVE  CallRefs(lw, top, t, s, r, g)'
    <3>1. s = AfterSplit(c, up)
      BY <2>4, <1>7
    <3>2. s.at = "parent" /\ s.page = c.page
      BY <2>1, <3>1 DEF AfterSplit, InsertCall
    <3> QED
      BY <3>2, <2>2, <1>5 DEF CallRefs
  <2> QED
    BY <2>1, <2>3, <2>4
<1>14. CASE t \in Inserters /\ PopParent(t)
  <2>1. /\ c.at = "parent" /\ c.parents # <<>> /\ UNCHANGED pages
        /\ s.at = "insert" /\ s \in InsertCall
        /\ lv[c.page] < lv[s.page] /\ ~IsLeaf(s.page)
    BY <1>1, <1>14, PopParentGraded DEF PopParent
  <2>2. Len(r) <= lv[c.page] + 1 /\ f # t
    BY <1>2, <2>1 DEF CallRefs
  <2>3. s.page \in DOMAIN pages'
    <3>1. s \in CallState /\ CallOK(op[t])'
      BY DEF IInv, TypeOK, CallsOK, CallState
    <3>2. InsertOK(op[t])'
      BY <3>1, <2>1 DEF CallOK
    <3> QED
      BY <3>2 DEF InsertOK, PlaceOK
  <2>4. lw[s.page] = lv[s.page] /\ lv[s.page] \in Nat /\ ~IsLeaf(s.page)'
    BY <2>1, <2>3, <1>3
  <2>5. Len(r) <= lw[s.page]
    BY <2>1, <2>2, <2>4, <1>4, <1>9
  <2> QED
    BY <2>1, <2>4, <2>5, <1>4, <1>5, <1>10 DEF CallRefs, New
<1>15. CASE t \in Inserters /\ PublishRoot(t)
  <2>1. /\ c.at = "parent"
        /\ op' = [op EXCEPT ![t] = [at |-> "init", root |-> NewID, call |-> c]]
    BY <1>1, <1>15, PublishRootDoes
  <2>2. s.at = "init" /\ s.call = c
    BY <2>1, <1>7
  <2>3. Len(r) <= lw[c.page] + 1
    BY <1>2, <1>9, <2>1 DEF CallRefs
  <2> QED
    BY <2>2, <2>3, <1>5 DEF CallRefs
<1>16. CASE t \in Inserters /\ InitRoot(t)
  <2>1. PICK d, q : d = c.call /\ q = c.root
    OBVIOUS
  <2>2. /\ c \in RootCall /\ d \in InsertCall /\ InsertOK(d) /\ RootMade(q, d.page)
        /\ op' = [op EXCEPT ![t] = InNewRoot(d, q)]
    BY <1>1, <1>16, <2>1, InitRootDoes
  <2>3. s = InNewRoot(d, q)
    BY <2>2, <1>7
  <2>4. s.at = "insert" /\ s.page = q
    BY <2>2, <2>3 DEF InNewRoot, InsertCall
  <2>5. /\ q \in DOMAIN pages /\ ~IsLeaf(q)' /\ lw[q] = lv[q] /\ lv[q] = lv[d.page] + 1
    BY <1>2, <1>3, <2>1, <2>2 DEF RootMade, CallGraded
  <2>6. c.at = "init" /\ Len(r) <= lv[d.page] + 1
    BY <1>2, <2>1, <2>2 DEF RootCall, CallRefs
  <2>7. lv[q] \in Nat /\ Len(r) <= lv[q]
    BY <1>3, <2>5, <2>6
  <2> QED
    BY <2>4, <2>5, <2>7, <1>4, <1>5, <1>10 DEF CallRefs, New
<1>17. CASE Position(t) \/ Advance(t) \/ Fetch(t) \/ EndScan(t)
  <2>1. c.at \in {"position", "next", "fetch", "end"}
    BY <1>1, <1>17 DEF Position, Advance, Fetch, EndScan
  <2>2. c \in ScanCall
    BY <1>2, <2>1, CallsApart
  <2>3. f = NULL_PTR /\ Len(r) <= 1
    <3>1. c.at \in {"position", "fetch"} => IsLeaf(c.page)
      BY <1>2, CallsPage
    <3> QED
      BY <2>1, <3>1, <1>2, <1>4 DEF CallRefs
  <2>4. s.at \in {"idle", "panicked", "next", "fetch", "end"}
    <3>1. CASE EndScan(t)
      <4>1. s = Idle
        BY <3>1, <1>7 DEF EndScan, Step
      <4> QED
        BY <4>1 DEF Idle
    <3>2. CASE Position(t)
      <4>1. PICK x, idx : x = [c EXCEPT !.at = "next", !.idx = idx] /\ op' = [op EXCEPT ![t] = x]
        BY <3>2, <1>1 DEF Position, Step
      <4>2. x.at = "next"
        BY <4>1, <2>2 DEF ScanCall
      <4> QED
        BY <4>1, <4>2, <1>7
    <3>3. CASE Advance(t)
      <4>1. PICK x, page : /\ \/ x = [c EXCEPT !.at = "fetch"]
                              \/ x = [c EXCEPT !.at = "fetch", !.page = page, !.idx = 0]
                              \/ x = [c EXCEPT !.at = "end"]
                           /\ op' = [op EXCEPT ![t] = x]
        BY <3>3, <1>1 DEF Advance, Step
      <4>2. x.at \in {"fetch", "end"}
        BY <4>1, <2>2 DEF ScanCall
      <4> QED
        BY <4>1, <4>2, <1>7
    <3>4. CASE Fetch(t)
      <4>1. PICK x, idx, out : /\ \/ x = Panicked
                                  \/ x = [c EXCEPT !.at = "end"]
                                  \/ x = [c EXCEPT !.at = "next", !.idx = idx, !.out = out]
                               /\ op' = [op EXCEPT ![t] = x]
        BY <3>4, <1>1 DEF Fetch, Step
      <4>2. Panicked.at = "panicked"
        BY DEF Panicked
      <4>3. x # Panicked => x.at \in {"end", "next"}
        BY <4>1, <2>2 DEF ScanCall
      <4> QED
        BY <4>1, <4>2, <4>3, <1>7
    <3> QED
      BY <1>17, <3>1, <3>2, <3>3, <3>4
  <2>5. g = NULL_PTR /\ Len(r) <= 1 + New(r, s.page) /\ Len(r) <= top + 2
    BY <2>3, <1>4, <1>5, <1>10
  <2> QED
    BY <2>3, <2>4, <2>5 DEF CallRefs, New
<1> QED
  BY <1>11, <1>12, <1>13, <1>14, <1>15, <1>16, <1>17 DEF Work, InsertStep, ScanStep

\* A step of a call takes the references to those of the new levels.
LEMMA WorkRefs ==
    ASSUME IInv, IInv', ~aborted, \A t, u \in Inserters : t = u,
           NEW lv, NEW edge, NEW high, Graded(lv, edge, high), RefsGraded(lv, high),
           NEW t \in Threads, Work(t)
    PROVE  \E lw, edge2, top : Graded(lw, edge2, top)' /\ RefsGraded(lw, top)'
<1>1. [Next]_vars
  BY WorkIsNext
<1>2. PagesStay
  BY <1>1, PagesChange, StepsStay
<1>3. PICK lw, edge2, top : Graded(lw, edge2, top)' /\ Extends(lv, lw, high, top)
  BY <1>1, NextGraded
<1>4. /\ lv \in [DOMAIN pages -> Nat] /\ high \in Nat
      /\ lw \in [DOMAIN pages' -> Nat] /\ top \in Nat
  BY <1>3 DEF Graded, TreeGraded
<1>5. PICK r, f, s, g : /\ r = refs[t] /\ f = fresh[t] /\ s = op'[t]
                        /\ g = IF f = t THEN NewID ELSE f
  OBVIOUS
<1>6. CallRefs(lw, top, t, s, r, g)'
  BY <1>2, <1>3, <1>4, <1>5, WorkCallRefs
<1>7. /\ fresh' = [fresh EXCEPT ![t] = g] /\ refs' = refs
  BY <1>5 DEF Work, Named
<1>8. fresh'[t] = g /\ refs'[t] = r /\ \A u \in Threads : u # t => fresh'[u] = fresh[u]
  BY <1>5, <1>7 DEF RefsGraded, PoolTypeOK
<1>9. PoolTypeOK'
  <2>1. NewID \in PageID
    BY NewIDProperties DEF IInv, PageID
  <2> QED
    BY <2>1, <1>5, <1>7 DEF RefsGraded, PoolTypeOK
<1>10. CallRefs(lw, top, t, op[t], refs[t], fresh[t])'
  BY <1>5, <1>6, <1>8 DEF CallRefs, Downward, New
<1>11. \A u \in Threads : u # t => op'[u] = op[u]
  <2>1. \E x : op' = [op EXCEPT ![t] = x] \/ op' = op
    BY DEF Work, InsertStep, ScanStep, Descend, TryInsert, Split, PopParent, PublishRoot,
           InitRoot, Position, Advance, Fetch, EndScan, Step
  <2> QED
    BY <2>1 DEF IInv, TypeOK
<1>12. RefsGraded(lw, top)'
  BY <1>2, <1>3, <1>4, <1>7, <1>8, <1>9, <1>10, <1>11, OthersRefs
<1> QED
  BY <1>3, <1>12

-----------------------------------------------------------------------------
(* The invariant of the tree on the pool. *)

OnPoolInv == IInv /\ \E lv, edge, high : Graded(lv, edge, high) /\ RefsGraded(lv, high)

\* Whatever fails, the tree stays one of BTree.
LEMMA PoolStepKeeps ==
    ASSUME IInv, [NextOnPool]_varsOnPool
    PROVE  IInv'
  BY PoolSteps, NextKeeps, FailedKeeps

LEMMA NextOnPoolKeeps ==
    ASSUME \A t, u \in Inserters : t = u, OnPoolInv, [NextOnPool]_varsOnPool
    PROVE  OnPoolInv'
<1>1. IInv /\ IInv'
  BY PoolStepKeeps DEF OnPoolInv
<1>2. PICK lv, edge, high : Graded(lv, edge, high) /\ RefsGraded(lv, high)
  BY DEF OnPoolInv
<1>3. lv \in [DOMAIN pages -> Nat] /\ high \in Nat
  BY <1>2 DEF Graded, TreeGraded
<1>4. ASSUME UNCHANGED vars PROVE Graded(lv, edge, high)'
  BY <1>2, <1>4 DEF vars, Graded, TreeGraded, CallGraded, Climbs, Bare, IsLeaf, NewID
<1>5. ASSUME UNCHANGED vars, UNCHANGED poolVars PROVE OnPoolInv'
  <2>1. RefsGraded(lv, high)'
    BY <1>2, <1>5 DEF vars, poolVars, RefsGraded, PoolTypeOK, CallRefs, Downward, IsLeaf
  <2> QED
    BY <2>1, <1>1, <1>4, <1>5 DEF OnPoolInv
<1>6. ASSUME NEW t \in Threads, Get(t) \/ GetNew(t) \/ Drop(t) PROVE OnPoolInv'
  <2>1. UNCHANGED vars
    BY <1>6 DEF Get, GetNew, Drop
  <2>2. RefsGraded(lv, high)'
    BY <1>1, <1>2, <1>3, <1>6, PoolRefs
  <2> QED
    BY <2>1, <2>2, <1>1, <1>4 DEF OnPoolInv
<1>7. ASSUME NEW t \in Threads, Fail(t) PROVE OnPoolInv'
  <2>1. Failed(t) /\ op[t] \notin RootCall
    BY <1>7 DEF Fail, Failed, Step, NeedsPage, NeedsNewPage, RootCall
  <2>2. Graded(lv, edge, high)'
    BY <2>1, <1>1, <1>2, FailedGraded
  <2>3. RefsGraded(lv, high)'
    BY <1>1, <1>2, <1>7, FailRefs
  <2> QED
    BY <2>2, <2>3, <1>1 DEF OnPoolInv
<1>8. ASSUME NEW t \in Threads, Work(t), ~aborted PROVE OnPoolInv'
  BY <1>1, <1>2, <1>8, WorkRefs DEF OnPoolInv
<1>9. ASSUME NEW t \in Threads, BeginCall(t) PROVE OnPoolInv'
  <2>1. PICK s : /\ op' = [op EXCEPT ![t] = s] /\ op[t].at = "idle"
                 /\ UNCHANGED pages /\ UNCHANGED poolVars /\ Ready(t)
    BY <1>9 DEF BeginCall, BeginInsert, BeginScan, Step
  <2>2. Graded(lv, edge, high)'
    <3>1. CASE t \in Inserters /\ \E o \in ObjectID, k \in Key : BeginInsert(t, o, k)
      BY <3>1, <1>1, <1>2, BeginInsertGraded
    <3>2. ASSUME NEW o \in ObjectID, NEW x \in Ranges, BeginScan(t, o, x[1], x[2])
          PROVE  Graded(lv, edge, high)'
      <4>1. x[1] \in Key /\ x[2] \in Key
        BY FramesAssumption
      <4>2. \E oo \in ObjectID, a, b \in Key : BeginScan(t, oo, a, b)
        BY <3>2, <4>1
      <4> QED
        BY <4>2, <1>1, <1>2, ScanGraded
    <3> QED
      BY <1>9, <3>1, <3>2 DEF BeginCall
  <2>3. PagesStay
    BY <2>1 DEF PagesStay, IsLeaf
  <2>4. RefsGraded(lv, high)'
    BY <2>1, <2>3, <1>1, <1>2, <1>3, BeginRefs
  <2> QED
    BY <2>2, <2>4, <1>1 DEF OnPoolInv
<1>10. CASE UNCHANGED varsOnPool
  BY <1>5, <1>10 DEF varsOnPool
<1>11. CASE Rest /\ UNCHANGED poolVars
  BY <1>5, <1>11 DEF Rest
<1> QED
  BY <1>6, <1>7, <1>8, <1>9, <1>10, <1>11 DEF NextOnPool, CallStep

LEMMA InitOnPoolInv ==
    ASSUME InitOnPool
    PROVE  OnPoolInv
<1>1. IInv
  BY InitIInv DEF InitOnPool
<1>2. PICK lv, edge : Graded(lv, edge, 0)
  BY InitGraded DEF InitOnPool
<1>3. PoolTypeOK
  <2>1. <<>> \in Seq(PageID)
    OBVIOUS
  <2> QED
    BY <2>1 DEF InitOnPool, PoolTypeOK
<1>4. ASSUME NEW t \in Threads PROVE CallRefs(lv, 0, t, op[t], refs[t], fresh[t])
  <2>1. op[t].at = "idle" /\ fresh[t] = NULL_PTR /\ Len(refs[t]) = 0
    BY DEF InitOnPool, Init, Idle
  <2> QED
    BY <2>1 DEF CallRefs
<1> QED
  BY <1>1, <1>2, <1>3, <1>4 DEF OnPoolInv, RefsGraded

-----------------------------------------------------------------------------
(* The levels of the tree, counted by Levels. *)

\* The recursive function in Levels.
Falls(p, below) ==
    below = [n \in 0 .. NewID |->
                IF n = 0 THEN {p}
                ELSE UNION {Children(pages[q]) : q \in {q \in below[n - 1] : pages[q].type = "Node"}}]

LEMMA LevelsFall ==
    ASSUME NEW p, \E below : Falls(p, below)
    PROVE  \E below : /\ Falls(p, below)
                      /\ Levels(p) = Cardinality({n \in 0 .. NewID : below[n] # {}})
<1> DEFINE b == CHOOSE below : Falls(p, below)
<1>1. Falls(p, b)
  OBVIOUS
<1>2. Levels(p) = Cardinality({n \in 0 .. NewID : b[n] # {}})
  BY DEF Levels, Falls
<1> QED
  BY <1>1, <1>2

\* First children lead down through as many levels as an edge page is high.
LEMMA HighestLevels ==
    ASSUME IInv, NEW lv, NEW edge, NEW high, TreeGraded(lv, edge, high),
           NEW p \in edge, lv[p] = high
    PROVE  Levels(p) \in Nat /\ Levels(p) >= high + 1
<1>1. /\ TypeOK /\ NewID \in Nat
      /\ high \in Nat /\ edge \subseteq DOMAIN pages /\ high < NewID
  BY NewIDProperties DEF IInv, TreeGraded
<1> DEFINE D == SUBSET (DOMAIN pages)
           Next1(S) == UNION {Children(pages[q]) : q \in {q \in S : pages[q].type = "Node"}}
           f == [n \in Nat |-> [S \in D |-> Next1(S)]]
<1>2. \A S \in D : Next1(S) \in D
  BY <1>1 DEF TypeOK
<1>3. \A n \in Nat : f[n] \in [D -> D]
  BY <1>2
<1>4. {p} \in D
  BY <1>1
<1>5. PICK g \in [0 .. NewID -> D] : Iteration(g, NewID, {p}, f)
  <2> HIDE DEF f, D
  <2> QED
    BY <1>1, <1>3, <1>4, Iterates
<1>6. Falls(p, g)
  <2>1. g[0] = {p}
    BY <1>5 DEF Iteration
  <2>2. ASSUME NEW n \in 0 .. NewID, n # 0 PROVE g[n] = Next1(g[n - 1])
    <3>1. n \in 1 .. NewID /\ n \in Nat /\ n - 1 \in 0 .. NewID
      BY <2>2, <1>1
    <3>2. g[n] = f[n][g[n - 1]] /\ g[n - 1] \in D
      BY <3>1, <1>5 DEF Iteration
    <3> QED
      BY <3>1, <3>2
  <2>3. g = [n \in 0 .. NewID |-> g[n]]
    BY <1>5
  <2> QED
    BY <2>1, <2>2, <2>3 DEF Falls
<1>7. PICK b : Falls(p, b) /\ Levels(p) = Cardinality({n \in 0 .. NewID : b[n] # {}})
  BY <1>6, LevelsFall
<1>8. \A n \in 0 .. high : \E q \in b[n] : q \in edge /\ lv[q] = high - n
  <2> DEFINE Reached1(n) == \E q \in b[n] : q \in edge /\ lv[q] = high - n
             I == {n \in 0 .. high : ~Reached1(n)}
  <2>1. SUFFICES ASSUME I # {} PROVE FALSE
    OBVIOUS
  <2>0. I \in SUBSET Nat
    BY <1>1
  <2>2. PICK n \in I : \A m \in I : n <= m
    <3> HIDE DEF I
    <3> QED
      BY <2>0, <2>1, Least
  <2>3. CASE n = 0
    <3>1. b[0] = {p}
      BY <1>1, <1>7 DEF Falls
    <3> QED
      BY <3>1, <2>2, <2>3, <1>1
  <2>4. CASE n # 0
    <3>1. n \in 0 .. NewID /\ n - 1 \in 0 .. high /\ n - 1 \notin I /\ n \in Nat
      BY <2>2, <2>4, <1>1
    <3>2. PICK q \in b[n - 1] : q \in edge /\ lv[q] = high - (n - 1)
      BY <3>1
    <3>3. lv[q] # 0 /\ lv[q] - 1 = high - n
      BY <3>1, <3>2, <2>2, <1>1
    <3>4. pages[q].child \in edge /\ lv[pages[q].child] = high - n
      BY <3>2, <3>3 DEF TreeGraded
    <3>5. pages[q].type = "Node"
      <4>1. q \in DOMAIN pages /\ ~IsLeaf(q)
        BY <3>2, <3>3, <1>1 DEF TreeGraded
      <4> QED
        BY <4>1, <1>1 DEF TypeOK, Page, IsLeaf
    <3>6. pages[q].child \in b[n]
      <4>1. b[n] = Next1(b[n - 1])
        BY <3>1, <2>4, <1>7 DEF Falls
      <4> QED
        BY <4>1, <3>2, <3>5 DEF Children
    <3> QED
      BY <3>4, <3>6, <2>2
  <2> QED
    BY <2>3, <2>4
<1>9. PICK L : L = {n \in 0 .. NewID : b[n] # {}}
  OBVIOUS
<1>10. 0 .. high \subseteq L
  BY <1>1, <1>8, <1>9
<1>11. IsFiniteSet(L) /\ IsFiniteSet(0 .. high)
  <2>1. IsFiniteSet(0 .. NewID)
    BY <1>1, FS_Interval
  <2>2. L \in SUBSET (0 .. NewID) /\ 0 .. high \in SUBSET L
    BY <1>9, <1>10
  <2> QED
    BY <2>1, <2>2, FS_Subset
<1>12. Cardinality(0 .. high) = high + 1
  BY <1>1, FS_Interval
<1>13. Cardinality(0 .. high) <= Cardinality(L) /\ Cardinality(L) \in Nat
  BY <1>10, <1>11, FS_Subset, FS_CardinalityType
<1> QED
  BY <1>7, <1>9, <1>12, <1>13

-----------------------------------------------------------------------------
(* Theorems *)

\* For any number of objects, keys and frames and any capacity of pages: while one
\* thread inserts, no call ever references more pages than the tree has levels and
\* one more, which is what a pool must have for it (get_page_ref, new_page and the
\* unwraps of their results).
THEOREM FewReferencesHold ==
    ASSUME \A t, u \in Inserters : t = u
    PROVE  FairSpecOnPool => []FewReferences
<1>1. OnPoolInv => FewReferences
  <2> SUFFICES ASSUME OnPoolInv, NEW t \in Threads
               PROVE  \E p \in DOMAIN pages :
                         Len(refs[t]) + (IF fresh[t] = NULL_PTR THEN 0 ELSE 1) <= Levels(p) + 1
    BY DEF FewReferences
  <2>1. PICK lv, edge, high : Graded(lv, edge, high) /\ RefsGraded(lv, high)
    BY DEF OnPoolInv
  <2>2. IInv /\ TreeGraded(lv, edge, high)
    BY <2>1 DEF OnPoolInv, Graded
  <2>3. PICK p \in edge : lv[p] = high
    BY <2>2 DEF TreeGraded
  <2>4. Levels(p) \in Nat /\ Levels(p) >= high + 1 /\ high \in Nat /\ p \in DOMAIN pages
    BY <2>2, <2>3, HighestLevels DEF TreeGraded
  <2>5. PICK k, n : k = (IF fresh[t] = NULL_PTR THEN 0 ELSE 1) /\ n = Len(refs[t]) + k
    OBVIOUS
  <2>6. n <= high + 2 /\ n \in Nat
    <3>1. n <= high + 2
      <4>1. Len(refs[t]) + (IF fresh[t] = NULL_PTR THEN 0 ELSE 1) <= high + 2
        BY <2>1, <2>2, RefsBounded
      <4> QED
        BY <4>1, <2>5
    <3>2. refs[t] \in Seq(PageID)
      BY <2>1 DEF RefsGraded, PoolTypeOK
    <3>3. Len(refs[t]) \in Nat
      BY <3>2, LenProperties
    <3>4. k \in Nat /\ n = Len(refs[t]) + k
      BY <2>5
    <3>5. n \in Nat
      BY <3>3, <3>4
    <3> QED
      BY <3>1, <3>5
  <2>7. n <= Levels(p) + 1
    BY <2>4, <2>6
  <2>8. p \in DOMAIN pages /\ Len(refs[t]) + (IF fresh[t] = NULL_PTR THEN 0 ELSE 1) <= Levels(p) + 1
    BY <2>4, <2>5, <2>7
  <2> QED
    BY <2>8
<1>2. OnPoolInv /\ [NextOnPool]_varsOnPool => OnPoolInv'
  BY NextOnPoolKeeps
<1> QED
  BY <1>1, <1>2, InitOnPoolInv, PTL DEF FairSpecOnPool

\* However many insertions run and wherever one of them fails for want of a frame,
\* also between a split and the insertion into the parent: pages and calls keep
\* their types, no page is overfilled and no leaf emptied, every key whose insertion
\* returned is in a leaf, and no leaf holds a key that nobody began to insert
\* (split_and_insert and the unwraps in insert_recurs).
THEOREM FailuresKeepKeys ==
    FairSpecOnPool => [](TypeOK /\ PagesFilled /\ StoredInLeaves /\ LeavesBegun)
<1>1. InitOnPool => IInv
  BY InitIInv DEF InitOnPool
<1>2. IInv /\ [NextOnPool]_varsOnPool => IInv'
  BY PoolStepKeeps
<1>3. IInv => TypeOK /\ PagesFilled /\ StoredInLeaves /\ LeavesBegun
  BY DEF IInv
<1> QED
  BY <1>1, <1>2, <1>3, PTL DEF FairSpecOnPool

\* So too the order within pages and the chains of leaves: they are never left half
\* done, because a split links both of its halves before it asks for another page
\* (218-249), and every left pointer leads back.
THEOREM FailuresKeepChains ==
    FairSpecOnPool => [](PagesSorted /\ Ranks /\ LeftIsBefore)
<1>1. IInv /\ PagesSorted /\ Ranks /\ [NextOnPool]_varsOnPool => PagesSorted' /\ Ranks'
  <2> SUFFICES ASSUME IInv, PagesSorted, Ranks, [NextOnPool]_varsOnPool
               PROVE  PagesSorted' /\ Ranks'
    OBVIOUS
  <2>1. PagesStep
    <3>1. CASE [Next]_vars
      BY <3>1, PagesChange
    <3>2. ASSUME NEW t \in Threads, Failed(t) PROVE PagesStep
      BY <3>2 DEF Failed, PagesStep
    <3> QED
      BY <3>1, <3>2, PoolSteps
  <2> QED
    BY <2>1, StepSorts, StepRanks
<1>2. InitOnPool => IInv /\ PagesSorted /\ Ranks
  BY InitIInv, InitSorts, InitRanks DEF InitOnPool
<1>3. IInv /\ [NextOnPool]_varsOnPool => IInv'
  BY PoolStepKeeps
<1>4. IInv /\ Ranks => LeftIsBefore
  BY LeftLeads
<1> QED
  BY <1>1, <1>2, <1>3, <1>4, PTL DEF FairSpecOnPool

\* A call that fails carries its separator away, and with it what leads to the leaf
\* that it split off; no other call waits for it.
LEMMA FailedKeepsKeys ==
    ASSUME IInv, KeysInv, NEW t \in Threads, Failed(t)
    PROVE  KeysInv'
<1>1. \A c : ~CallIs(Panicked, c)
  BY NoCallIs
<1>2. UNCHANGED <<pages, dbobjects>> /\ op' = [op EXCEPT ![t] = Panicked]
  BY DEF Failed
<1> QED
  BY <1>1, <1>2, QuietKeepsKeys

LEMMA PoolKeepsKeys ==
    ASSUME ObjectID = {0}, ~Duplicates, IInv, PagesSorted, KeysInv, [NextOnPool]_varsOnPool
    PROVE  KeysInv'
<1>1. CASE [Next]_vars
  BY <1>1, NextKeepsKeys
<1>2. ASSUME NEW t \in Threads, Failed(t) PROVE KeysInv'
  BY <1>2, FailedKeepsKeys
<1> QED
  BY <1>1, <1>2, PoolSteps

\* No key is lost from the leaf chain of the only tree, doubled or made up, when
\* insertions fail for want of a frame half way through a split, as long as a key is
\* inserted once (204-216): what a failed insertion leaves out is an entry of an
\* inner node, which scans along the chain do without.
THEOREM FailuresKeepOneTree ==
    ASSUME Objects = 1, ~Duplicates PROVE FairSpecOnPool => []ChainKeepsKeys
<1>1. ObjectID = {0}
  BY DEF ObjectID
<1>2. InitOnPool => IInv /\ KeysInv
  BY <1>1, InitIInv, InitKeys DEF InitOnPool
<1>3. IInv /\ PagesSorted /\ KeysInv /\ [NextOnPool]_varsOnPool => KeysInv'
  BY <1>1, PoolKeepsKeys
<1>4. ASSUME IInv, PagesSorted, Ranks, KeysInv PROVE ChainKeepsKeys
  <2>1. ChainHoldsKeys /\ IsInjective(ChainKeys(0))
    BY <1>4, ChainHasAll, ChainHasOnce
  <2> QED
    BY <1>1, <2>1 DEF ChainHoldsKeys, ChainKeepsKeys
<1>5. IInv /\ [NextOnPool]_varsOnPool => IInv'
  BY PoolStepKeeps
<1> QED
  BY <1>2, <1>3, <1>4, <1>5, FailuresKeepChains, PTL DEF FairSpecOnPool

-----------------------------------------------------------------------------
(* One inserter.  If it fails the separator that it carried is lost, so that a *)
(* leaf is left which no search finds; but then nothing is inserted any more,  *)
(* and scans come to that leaf along the chain.                                *)

Stopped == \E t \in Inserters : op[t] = Panicked
OrderOnPool == InsertersInsert /\ Ascends /\ (Stopped \/ OrderInv)

\* Once the inserter has failed only scans take steps.
LEMMA StoppedScans ==
    ASSUME Alone, IInv, InsertersInsert, Stopped, [Next]_vars
    PROVE  /\ ScanningStep /\ UNCHANGED <<pages, dbobjects>>
           /\ InsertersInsert' /\ Stopped'
<1>1. PICK t \in Inserters : op[t] = Panicked
  BY DEF Stopped
<1>2. op[t].at = "panicked" /\ t \in Threads /\ op \in [Threads -> CallState]
  BY <1>1 DEF Panicked, Threads, IInv, TypeOK, CallState
<1>3. ASSUME NEW u \in Inserters, InsertionStep(u) PROVE FALSE
  <2>1. op[u].at = "panicked"
    BY <1>1, <1>2 DEF Alone
  <2> QED
    BY <1>3, <2>1 DEF InsertionStep, BeginInsert, TryInsert, Split, PopParent, PublishRoot, InitRoot
<1>4. ScanningStep
  BY <1>3, StepsAre
<1>5. ASSUME NEW u \in Threads, NEW s, op[u].at # "panicked", op' = [op EXCEPT ![u] = s],
             NoInsertion(s)
      PROVE  InsertersInsert' /\ Stopped'
  <2>1. u # t /\ op'[u] = s /\ \A v \in Threads : v # u => op'[v] = op[v]
    BY <1>2, <1>5
  <2>2. op'[t] = Panicked
    BY <2>1, <1>1, <1>2
  <2>3. \A v \in Threads : \A c \in InsertCall : CallIs(op'[v], c) => v \in Inserters
    BY <2>1, <1>5 DEF InsertersInsert, NoInsertion
  <2> QED
    BY <2>2, <2>3 DEF Stopped, InsertersInsert, CallIs
<1>6. ASSUME NEW u \in Threads, Descend(u)
      PROVE  UNCHANGED <<pages, dbobjects>> /\ InsertersInsert' /\ Stopped'
  <2>1. PICK c : c = op[u]
    OBVIOUS
  <2>2. c.at = "descend" /\ UNCHANGED <<pages, dbobjects>>
    BY <1>6, <2>1, DescendDoes
  <2>3. c \notin InsertCall
    <3>1. u # t
      BY <1>2, <2>1, <2>2
    <3>2. u \notin Inserters
      BY <3>1 DEF Alone
    <3> QED
      BY <3>2, <2>1 DEF InsertersInsert, CallIs
  <2>4. PICK s \in ScanCall : op' = [op EXCEPT ![u] = s]
    BY <1>6, <2>1, <2>3, DescendDoes
  <2>5. NoInsertion(s)
    <3>1. s.scan = TRUE /\ s.at # "init"
      BY <2>4 DEF ScanCall
    <3> QED
      BY <3>1 DEF NoInsertion, CallIs, InsertCall, RootCall
  <2> QED
    BY <2>1, <2>2, <2>4, <2>5, <1>5
<1>7. ASSUME NEW u \in Threads,
             \/ \E o \in ObjectID, a, b \in Key : BeginScan(u, o, a, b)
             \/ Position(u) \/ Advance(u) \/ Fetch(u) \/ EndScan(u)
      PROVE  UNCHANGED <<pages, dbobjects>> /\ InsertersInsert' /\ Stopped'
  <2>1. op[u].at # "panicked"
    BY <1>7 DEF BeginScan, Position, Advance, Fetch, EndScan
  <2>2. UNCHANGED <<pages, dbobjects>> /\ \E s : op' = [op EXCEPT ![u] = s] /\ NoInsertion(s)
    BY <1>7, ScanDoes
  <2> QED
    BY <2>1, <2>2, <1>5
<1>8. ASSUME UNCHANGED vars PROVE UNCHANGED <<pages, dbobjects>> /\ InsertersInsert' /\ Stopped'
  BY <1>8, <1>1 DEF vars, Stopped, InsertersInsert, CallIs
<1>9. UNCHANGED <<pages, dbobjects>> /\ InsertersInsert' /\ Stopped'
  <2>1. CASE \E u \in Threads : Descend(u)
    BY <1>6, <2>1
  <2>2. CASE \E u \in Threads : \/ \E o \in ObjectID, a, b \in Key : BeginScan(u, o, a, b)
                               \/ Position(u) \/ Advance(u) \/ Fetch(u) \/ EndScan(u)
    BY <1>7, <2>2
  <2>3. \/ \E u \in Threads : Descend(u)
        \/ \E u \in Threads : \/ \E o \in ObjectID, a, b \in Key : BeginScan(u, o, a, b)
                              \/ Position(u) \/ Advance(u) \/ Fetch(u) \/ EndScan(u)
        \/ UNCHANGED vars
    BY <1>4 DEF ScanningStep
  <2> QED
    BY <1>8, <2>1, <2>2, <2>3
<1> QED
  BY <1>4, <1>9

LEMMA FailedKeepsOrder ==
    ASSUME IInv, OrderOnPool, NEW t \in Threads, Failed(t)
    PROVE  OrderOnPool'
<1>1. UNCHANGED <<pages, dbobjects>> /\ op' = [op EXCEPT ![t] = Panicked]
  BY DEF Failed
<1>2. op'[t] = Panicked /\ \A u \in Threads : u # t => op'[u] = op[u]
  BY <1>1 DEF IInv, TypeOK
<1>3. Ascends'
  BY <1>1, QuietPages DEF OrderOnPool, Ascends
<1>4. InsertersInsert'
  <2>1. \A v \in Threads : \A c \in InsertCall : CallIs(op'[v], c) => v \in Inserters
    BY <1>2, NoCallIs DEF OrderOnPool, InsertersInsert
  <2> QED
    BY <2>1 DEF InsertersInsert, CallIs
<1>5. CASE t \in Inserters \/ Stopped
  <2>1. Stopped'
    BY <1>2, <1>5 DEF Stopped, Threads
  <2> QED
    BY <2>1, <1>3, <1>4 DEF OrderOnPool
<1>6. CASE t \notin Inserters /\ OrderInv
  <2>1. \A c \in InsertCall : ~CallIs(op[t], c)
    BY <1>6 DEF OrderOnPool, InsertersInsert
  <2>2. CarriesOn(Panicked, op[t])
    BY <2>1 DEF CarriesOn
  <2>3. RootNew(Panicked)
    BY DEF RootNew, RootCall, Panicked
  <2>4. OrderInv'
    BY <1>1, <1>6, <2>2, <2>3, NoCallIs, QuietKeepsOrder
  <2> QED
    BY <2>4, <1>3, <1>4 DEF OrderOnPool
<1> QED
  BY <1>5, <1>6 DEF OrderOnPool

LEMMA OrderAscends == OrderInv => Ascends /\ InsertersInsert
BY DEF OrderInv, InOrder, Ascends

LEMMA PoolKeepsOrder ==
    ASSUME ObjectID = {0}, Alone, IInv, PagesSorted, Ranks, KeysInv, OrderOnPool,
           [NextOnPool]_varsOnPool
    PROVE  OrderOnPool'
<1>1. CASE [Next]_vars /\ Stopped
  <2>1. UNCHANGED <<pages, dbobjects>> /\ InsertersInsert' /\ Stopped'
    BY <1>1, StoppedScans DEF OrderOnPool
  <2>2. Ascends'
    BY <2>1, QuietPages DEF OrderOnPool, Ascends
  <2> QED
    BY <2>1, <2>2 DEF OrderOnPool
<1>2. CASE [Next]_vars /\ OrderInv
  <2>1. OrderInv'
    BY <1>2, NextKeepsOrder
  <2>2. Ascends' /\ InsertersInsert'
    BY <2>1 DEF OrderInv, InOrder, Ascends
  <2> QED
    BY <2>1, <2>2 DEF OrderOnPool
<1>3. ASSUME NEW t \in Threads, Failed(t) PROVE OrderOnPool'
  BY <1>3, FailedKeepsOrder
<1> QED
  BY <1>1, <1>2, <1>3, PoolSteps DEF OrderOnPool

\* Scans owe no more when another call fails.
LEMMA PoolKeepsScans ==
    ASSUME Objects = 1, Alone, IInv, IInv', PagesSorted, PagesSorted', Ranks, KeysInv,
           OrderOnPool, ScansOK, [NextOnPool]_varsOnPool
    PROVE  ScansOK'
<1>1. CASE [Next]_vars /\ Stopped
  <2>1. ScanningStep
    BY <1>1, StoppedScans DEF OrderOnPool
  <2> QED
    BY <2>1, <1>1, ScanningKeepsScans DEF OrderOnPool
<1>2. CASE [Next]_vars /\ OrderInv
  BY <1>2, NextKeepsScans
<1>3. ASSUME NEW t \in Threads, Failed(t) PROVE ScansOK'
  <2>1. UNCHANGED <<pages, dbobjects, stored>> /\ op' = [op EXCEPT ![t] = Panicked]
    BY <1>3 DEF Failed, history
  <2>2. op'[t] \notin ScanCall /\ \A u \in Threads : u # t => op'[u] = op[u]
    BY <2>1 DEF IInv, TypeOK, ScanCall, Panicked
  <2>3. OneLevel' <=> OneLevel
    BY <2>1, QuietPages
  <2>4. \A s : ScanSound(s) => ScanSound(s)'
    BY <2>1, QuietSound
  <2> QED
    BY <2>2, <2>3, <2>4 DEF ScansOK
<1> QED
  BY <1>1, <1>2, <1>3, PoolSteps DEF OrderOnPool

LEMMA PoolOrderInvariant ==
    ASSUME Objects = 1, ~Duplicates, Alone
    PROVE  FairSpecOnPool =>
              [](IInv /\ PagesSorted /\ Ranks /\ KeysInv /\ OrderOnPool /\ ScansOK)
<1>1. ObjectID = {0}
  BY DEF ObjectID
<1>2. InitOnPool => IInv /\ KeysInv /\ OrderOnPool /\ ScansOK
  BY <1>1, InitIInv, InitKeys, InitInOrder, InitScans, OrderAscends DEF InitOnPool, OrderOnPool
<1>3. IInv /\ PagesSorted /\ KeysInv /\ [NextOnPool]_varsOnPool => KeysInv'
  BY <1>1, PoolKeepsKeys
<1>4. /\ IInv /\ PagesSorted /\ Ranks /\ KeysInv /\ OrderOnPool /\ [NextOnPool]_varsOnPool
      => OrderOnPool'
  BY <1>1, PoolKeepsOrder
<1>5. /\ IInv /\ IInv' /\ PagesSorted /\ PagesSorted' /\ Ranks /\ KeysInv /\ OrderOnPool
      /\ ScansOK /\ [NextOnPool]_varsOnPool
      => ScansOK'
  BY PoolKeepsScans
<1>6. IInv /\ [NextOnPool]_varsOnPool => IInv'
  BY PoolStepKeeps
<1> QED
  BY <1>2, <1>3, <1>4, <1>5, <1>6, FailuresKeepChains, PTL DEF FairSpecOnPool

\* A scan that comes to its end has yielded every key of its range that was stored
\* when it began, and the leaf chain is sorted, also when calls fail for want of a
\* frame, as long as one thread inserts and the only tree has one inner node at most
\* (66-88, 204-249).  A search for a key may then miss the leaf that the failed
\* insertion split off.
THEOREM FailuresKeepScans ==
    ASSUME Objects = 1, ~Duplicates, Alone
    PROVE  FairSpecOnPool => [](OneLevel => ChainSorted /\ ScanComplete)
<1>1. IInv /\ PagesSorted /\ Ranks /\ OrderOnPool /\ ScansOK => (OneLevel => ChainSorted /\ ScanComplete)
  BY AscentSorts, NothingOwed DEF OrderOnPool, Ascends
<1> QED
  BY <1>1, PoolOrderInvariant, PTL

\* A tree stays so low, whatever fails, when its keys have room in one inner node.
LowOnPool == OneLevel /\ (Stopped \/ LowInv)

LEMMA PoolKeepsLow ==
    ASSUME ObjectID = {0}, RoomForAll, Alone, IInv, PagesSorted, KeysInv, OrderOnPool, LowOnPool,
           [NextOnPool]_varsOnPool
    PROVE  LowOnPool'
<1>1. CASE [Next]_vars /\ Stopped
  <2>1. UNCHANGED <<pages, dbobjects>> /\ Stopped'
    BY <1>1, StoppedScans DEF OrderOnPool
  <2> QED
    BY <2>1, QuietPages DEF LowOnPool
<1>2. CASE [Next]_vars /\ ~Stopped
  <2>1. OrderInv /\ LowInv
    BY <1>2 DEF OrderOnPool, LowOnPool
  <2>2. LowInv'
    BY <1>2, <2>1, NextKeepsLow
  <2> QED
    BY <2>2 DEF LowOnPool, LowInv
<1>3. ASSUME NEW t \in Threads, Failed(t) PROVE LowOnPool'
  <2>1. UNCHANGED <<pages, dbobjects>> /\ op' = [op EXCEPT ![t] = Panicked]
    BY <1>3 DEF Failed
  <2>2. OneLevel'
    BY <2>1, QuietPages DEF LowOnPool
  <2>3. op'[t] = Panicked /\ \A u \in Threads : u # t => op'[u] = op[u]
    BY <2>1 DEF IInv, TypeOK
  <2>4. CASE t \in Inserters \/ Stopped
    <3>1. Stopped'
      BY <2>3, <2>4 DEF Stopped, Threads
    <3> QED
      BY <3>1, <2>2 DEF LowOnPool
  <2>5. CASE t \notin Inserters /\ ~Stopped
    <3>1. OrderInv /\ LowInv
      BY <2>5 DEF OrderOnPool, LowOnPool
    <3>2. op[t] \notin RootCall
      <4>1. ASSUME NEW s \in RootCall, s = op[t] PROVE FALSE
        <5>1. s.call \in InsertCall /\ CallIs(op[t], s.call)
          BY <4>1 DEF RootCall, CallIs
        <5> QED
          BY <5>1, <2>5 DEF OrderOnPool, InsertersInsert
      <4> QED
        BY <4>1
    <3>3. CallLow(Panicked)
      <4>1. Panicked \notin InsertCall
        BY DEF Panicked, InsertCall
      <4> QED
        BY <4>1 DEF CallLow
    <3>4. LowInv'
      BY <2>1, <3>1, <3>2, <3>3, QuietKeepsLow
    <3> QED
      BY <3>4, <2>2 DEF LowOnPool
  <2> QED
    BY <2>4, <2>5
<1> QED
  BY <1>1, <1>2, <1>3, PoolSteps

\* So all this holds in every behaviour of a tree whose keys have room in one inner
\* node, on a pool of any size: the sorted chain and the complete scans.
THEOREM LowTreeOnPool ==
    ASSUME Objects = 1, ~Duplicates, Alone, IsFiniteSet(Key), Cardinality(Key) <= NodeCap
    PROVE  FairSpecOnPool => [](ChainSorted /\ ScanComplete)
<1>1. ObjectID = {0} /\ RoomForAll
  BY DEF ObjectID, RoomForAll
<1>2. InitOnPool => LowOnPool
  BY InitLow DEF InitOnPool, LowOnPool, LowInv
<1>3. /\ IInv /\ PagesSorted /\ KeysInv /\ OrderOnPool /\ LowOnPool /\ [NextOnPool]_varsOnPool
      => LowOnPool'
  BY <1>1, PoolKeepsLow
<1>4. LowOnPool => OneLevel
  BY DEF LowOnPool
<1> QED
  BY <1>2, <1>3, <1>4, PoolOrderInvariant, FailuresKeepScans, PTL DEF FairSpecOnPool
=============================================================================
