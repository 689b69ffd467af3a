-------------------------------- MODULE BTree --------------------------------
(***************************************************************************)
(* The B-tree of src/btree.rs on the pages of src/representations/page.rs. *)
(*                                                                         *)
(* Threads insert tuples and scan ranges of several objects at once.  The  *)
(* code takes a page's lock for one look or one change at a time, never    *)
(* two locks of pages that others know, and keeps nothing locked between   *)
(* them; a step is one such scope.  The pages live in a store that keeps   *)
(* what was written to them, what PageStore says the pool promises.        *)
(*                                                                         *)
(* Tuples have one size, so a page is full at a number of items; a page    *)
(* of zeros, allocated and not yet initialised, has no room and reads as   *)
(* an inner node whose left child is page 0.  The slots of a page are in   *)
(* key order, so the searches of search.rs return the counts below.        *)
(*                                                                         *)
(* A panic ends its thread.  Under a write guard it ends the process: the  *)
(* guard poisons the frame, and the drop of the PageRef, unwinding, panics *)
(* on the poison.                                                          *)
(***************************************************************************)
EXTENDS Integers, Sequences, FiniteSets, SequencesExt

CONSTANTS
    Inserters,   \* threads that insert
    Scanners,    \* threads that scan
    Objects,     \* number of trees, objects 0 .. Objects - 1
    Key,         \* keys, numbers in the order of their bytes
    LeafCap,     \* tuples that fit in a leaf
    NodeCap,     \* separators that fit in an inner node
    NoScan,      \* no scan is in progress
    Duplicates,  \* may a key be inserted that was inserted before
    NULL_PTR     \* no sibling, no child

Threads == Inserters \cup Scanners
ObjectID == 0 .. (Objects - 1)
PageID == Nat

ASSUME TreeAssumption ==
    /\ Objects \in Nat \ {0}
    /\ Key \subseteq Nat
    /\ LeafCap \in Nat \ {0} /\ NodeCap \in Nat \ {0}
    /\ Duplicates \in BOOLEAN
    /\ NULL_PTR \notin PageID

\* What a scanner that does not scan shows is not what one that does shows.
ASSUME ScanAssumption == NoScan \notin [rest : SUBSET Key, out : Seq(Key)]

VARIABLES
    pages,      \* the pages allocated so far, by id
    dbobjects,  \* the root page of each object
    op,         \* each thread's call: where it stands and its locals
    begun,      \* history: keys whose insertion into an object began
    stored,     \* history: keys whose insertion into an object returned
    aborted     \* a panic under a write guard ended the process

history == <<begun, stored>>
vars == <<pages, dbobjects, op, history, aborted>>

Pointer == PageID \cup {NULL_PTR}
Tuple == [key : Key, value : Pointer]
Page == [type : {"Node", "Leaf"}, items : Seq(Tuple), left : Pointer,
         right : Pointer, child : Pointer, zeroed : BOOLEAN]

\* A page as new_page leaves it.
ZeroPage == [type |-> "Node", items |-> <<>>, left |-> 0, right |-> 0,
             child |-> 0, zeroed |-> TRUE]

\* Leaf::init and InnerNode::init, followed by the insertion of items.
LeafSwapped(items, left, right) ==   \* mutant: sibling arguments swapped
    [type |-> "Leaf", items |-> items, left |-> right, right |-> left,
     child |-> NULL_PTR, zeroed |-> FALSE]
LeafPage(items, left, right) ==
    [type |-> "Leaf", items |-> items, left |-> left, right |-> right,
     child |-> NULL_PTR, zeroed |-> FALSE]
NodePage(items, left, right, child) ==
    [type |-> "Node", items |-> items, left |-> left, right |-> right,
     child |-> child, zeroed |-> FALSE]

Idle == [at |-> "idle"]

Init ==
    /\ pages = [p \in ObjectID |-> LeafPage(<<>>, NULL_PTR, NULL_PTR)]
    /\ dbobjects = [o \in ObjectID |-> o]
    /\ op = [t \in Threads |-> Idle]
    /\ begun = [o \in ObjectID |-> {}]
    /\ stored = [o \in ObjectID |-> {}]
    /\ aborted = FALSE

-----------------------------------------------------------------------------
(* Pages: search, insertion, splitting. *)

KeysIn(items) == {items[i].key : i \in DOMAIN items}
Sorted(items) == \A i, j \in DOMAIN items : i < j => items[i].key < items[j].key

\* find_partition_upper, find_partition_lower and, of a new key, find_insert_idx.
PartitionUpper(items, k) == Cardinality({j \in KeysIn(items) : j <= k})
LowerLikeUpper(items, k) == PartitionUpper(items, k)   \* mutant
PartitionLower(items, k) == Cardinality({j \in KeysIn(items) : j < k})

\* SlottedPage::insert, once the key is known to be new and the page to have room.
Inserted(items, tuple) ==
    InsertAt(items, PartitionLower(items, tuple.key) + 1, tuple)

\* check_space
HasRoom(page) ==
    ~page.zeroed /\ Len(page.items) < (IF page.type = "Leaf" THEN LeafCap ELSE NodeCap)

\* InnerNode::child
Child(page, k) ==
    LET found == PartitionUpper(page.items, k) IN
    IF found = 0 THEN page.child ELSE page.items[found].value

\* split_half: what stays, what moves right, and the tuple in the middle once
\* the new one is counted in.
NeverClears(items, tuple) ==   \* mutant: no keep_left
    LET n   == Len(items)
        mid == (n + 1) \div 2
        loc == PartitionUpper(items, tuple.key)
        cut == IF loc < mid THEN mid - 1 ELSE mid
    IN  [kept   |-> items,
         moved  |-> SubSeq(items, cut + 1, n),
         middle |-> IF loc = mid THEN tuple ELSE items[cut + 1]]
SplitHalf(items, tuple) ==
    LET n   == Len(items)
        mid == (n + 1) \div 2
        loc == PartitionUpper(items, tuple.key)
        cut == IF loc < mid THEN mid - 1 ELSE mid
    IN  [kept   |-> SubSeq(items, 1, cut),
         moved  |-> SubSeq(items, cut + 1, n),
         middle |-> IF loc = mid THEN tuple ELSE items[cut + 1]]

\* split_and_insert of page p into p and the new page q: both pages, and the
\* tuple for the parent.
AlwaysRight(k, middle) == FALSE   \* mutant
MiddleToo(k, middle) == k <= middle   \* mutant
GoesLeft(k, middle) == k < middle

PointsBack(middle, q) == middle   \* mutant: as SplitNode does
Upstream(middle, q) == [key |-> middle.key, value |-> q]

SplitLeaf(page, p, q, tuple) ==
    LET h == SplitHalf(page.items, tuple)
        goesLeft == GoesLeft(tuple.key, h.middle.key)
    IN  [left  |-> LeafPage(IF goesLeft THEN Inserted(h.kept, tuple) ELSE h.kept, page.left, q),
         right |-> LeafPage(IF goesLeft THEN h.moved ELSE Inserted(h.moved, tuple), p, page.right),
         up    |-> Upstream(h.middle, q)]

SplitNode(page, p, q, tuple) ==
    LET h == SplitHalf(page.items, tuple)
        side(s, goes) == IF goes THEN Inserted(s, tuple) ELSE s
    IN  [left  |-> NodePage(side(h.kept, tuple.key < h.middle.key), page.left, q, page.child),
         right |-> NodePage(side(h.moved, tuple.key > h.middle.key), p, page.right, h.middle.value),
         up    |-> h.middle]

NeverLooks(page, tuple) == FALSE   \* mutant: the halves are filled by push
\* The unwrap of the insertion into one of the halves panics: that half has the
\* key.  A leaf whose last kept tuple has it, and whose middle is the new one,
\* does not notice: the right half gets the key a second time.
SplitPanics(page, tuple) ==
    LET h == SplitHalf(page.items, tuple) IN
    \/ tuple.key < h.middle.key /\ tuple.key \in KeysIn(h.kept)
    \/ page.type = "Leaf" /\ tuple.key = h.middle.key /\ tuple.key \in KeysIn(h.moved)
    \/ tuple.key > h.middle.key /\ tuple.key \in KeysIn(h.moved)

\* new_page
Allocated(page) == [p \in 0 .. Cardinality(DOMAIN pages) |->
                        IF p \in DOMAIN pages THEN pages[p] ELSE page]
NewID == Cardinality(DOMAIN pages)

-----------------------------------------------------------------------------
(* Steps of a call. *)

Step(t, s) == op' = [op EXCEPT ![t] = s]
Panicked == [at |-> "panicked"]

\* get_page_ref on the root or a child; the page's type never changes, so the
\* test of traverse_to_leaf can be made here.
Reach(call, p, parents) ==
    [call EXCEPT !.page = p, !.parents = parents,
                 !.at = IF pages[p].type = "Node" THEN "descend"
                        ELSE IF call.scan THEN "position" ELSE "insert"]

BeginInsert(t, o, k) ==
    /\ op[t].at = "idle" /\ (Duplicates \/ k \notin begun[o])
    /\ begun' = [begun EXCEPT ![o] = @ \cup {k}]
    /\ Step(t, Reach([scan |-> FALSE, object |-> o, key |-> k, page |-> NULL_PTR,
                      tuple |-> [key |-> k, value |-> NULL_PTR],
                      parents |-> <<>>, at |-> "idle"], dbobjects[o], <<>>))
    /\ UNCHANGED <<pages, dbobjects, stored, aborted>>

\* traverse_to_leaf on an inner node.
Descend(t) ==
    LET c == op[t] IN
    /\ c.at = "descend"
    /\ Step(t, Reach(c, Child(pages[c.page], c.key), Append(c.parents, c.page)))
    /\ UNCHANGED <<pages, dbobjects, history, aborted>>

\* mutant: a full page is tried again.
TriesAgain(t) ==
    LET c == op[t] IN
    /\ c.at = "insert" /\ ~HasRoom(pages[c.page])
    /\ UNCHANGED vars

\* insert_recurs: the attempt.  A key already in the page is unreachable!().
TryInsert(t) ==
    LET c    == op[t]
        page == pages[c.page]
    IN
    /\ c.at = "insert"
    /\ \/ /\ c.tuple.key \in KeysIn(page.items)
          /\ Step(t, Panicked)
          /\ UNCHANGED <<pages, stored>>
       \/ /\ c.tuple.key \notin KeysIn(page.items) /\ HasRoom(page)
          /\ pages' = [pages EXCEPT ![c.page].items = Inserted(@, c.tuple)]
          /\ stored' = [stored EXCEPT ![c.object] = @ \cup {c.key}]
          /\ Step(t, Idle)
       \/ /\ c.tuple.key \notin KeysIn(page.items) /\ ~HasRoom(page)
          /\ Step(t, [c EXCEPT !.at = "split"])
          /\ UNCHANGED <<pages, stored>>
    /\ UNCHANGED <<dbobjects, begun, aborted>>

\* split_and_insert, which trusts the earlier verdict that the page is full.
Split(t) ==
    LET c    == op[t]
        page == pages[c.page]
        s    == IF page.type = "Leaf" THEN SplitLeaf(page, c.page, NewID, c.tuple)
                                      ELSE SplitNode(page, c.page, NewID, c.tuple)
    IN
    /\ c.at = "split"
    /\ IF SplitPanics(page, c.tuple)
       THEN aborted' = TRUE /\ UNCHANGED <<pages, op>>
       ELSE /\ pages' = [Allocated(s.right) EXCEPT ![c.page] = s.left]
            /\ Step(t, [c EXCEPT !.at = "parent", !.tuple = s.up])
            /\ UNCHANGED aborted
    /\ UNCHANGED <<dbobjects, history>>

\* get_parent: the inner node last passed on the way down ...
PopParent(t) ==
    LET c == op[t] IN
    /\ c.at = "parent" /\ c.parents # <<>>
    /\ Step(t, [c EXCEPT !.at = "insert", !.page = Last(c.parents),
                         !.parents = Front(c.parents)])
    /\ UNCHANGED <<pages, dbobjects, history, aborted>>

\* ... or a new root, published before it is initialised.
PublishRoot(t) ==
    LET c == op[t] IN
    /\ c.at = "parent" /\ c.parents = <<>>
    /\ pages' = Allocated(ZeroPage)
    /\ dbobjects' = [dbobjects EXCEPT ![c.object] = NewID]
    /\ Step(t, [at |-> "init", root |-> NewID, call |-> c])
    /\ UNCHANGED <<history, aborted>>

InitRoot(t) ==
    LET c == op[t].call
        r == op[t].root
    IN
    /\ op[t].at = "init"
    /\ pages' = [pages EXCEPT ![r] = NodePage(<<>>, NULL_PTR, NULL_PTR, c.page)]
    /\ Step(t, [c EXCEPT !.at = "insert", !.page = r])
    /\ UNCHANGED <<dbobjects, history, aborted>>

-----------------------------------------------------------------------------
(* iter_scan and ScanIterator::next, called until it returns None. *)

BeginScan(t, o, start, end) ==
    /\ op[t].at = "idle"
    /\ Step(t, Reach([scan |-> TRUE, object |-> o, key |-> start, end |-> end,
                      page |-> NULL_PTR, parents |-> <<>>, idx |-> 0,
                      out |-> <<>>, due |-> {k \in stored[o] : start <= k /\ k <= end},
                      at |-> "idle"], dbobjects[o], <<>>))
    /\ UNCHANGED <<pages, dbobjects, history, aborted>>

Position(t) ==
    LET c == op[t] IN
    /\ c.at = "position"
    /\ Step(t, [c EXCEPT !.at = "next",
                         !.idx = PartitionLower(pages[c.page].items, c.key)])
    /\ UNCHANGED <<pages, dbobjects, history, aborted>>

\* The first lock scope of next: the item count and the right sibling.
Advance(t) ==
    LET c    == op[t]
        page == pages[c.page]
    IN
    /\ c.at = "next"
    /\ \/ /\ c.idx < Len(page.items)
          /\ Step(t, [c EXCEPT !.at = "fetch"])
       \/ /\ c.idx >= Len(page.items) /\ page.right # NULL_PTR
          /\ Step(t, [c EXCEPT !.at = "fetch", !.page = page.right, !.idx = 0])
       \/ /\ c.idx >= Len(page.items) /\ page.right = NULL_PTR
          /\ Step(t, [c EXCEPT !.at = "end"])
    /\ UNCHANGED <<pages, dbobjects, history, aborted>>

\* The second one: the tuple at idx, whose absence panics.
Fetch(t) ==
    LET c     == op[t]
        items == pages[c.page].items
    IN
    /\ c.at = "fetch"
    /\ \/ /\ c.idx >= Len(items)
          /\ Step(t, Panicked)
       \/ /\ c.idx < Len(items) /\ items[c.idx + 1].key > c.end
          /\ Step(t, [c EXCEPT !.at = "end"])
       \/ /\ c.idx < Len(items) /\ items[c.idx + 1].key <= c.end
          /\ Step(t, [c EXCEPT !.at = "next", !.idx = @ + 1,
                               !.out = Append(@, items[c.idx + 1].key)])
    /\ UNCHANGED <<pages, dbobjects, history, aborted>>

\* The iterator is dropped.
EndScan(t) ==
    /\ op[t].at = "end"
    /\ Step(t, Idle)
    /\ UNCHANGED <<pages, dbobjects, history, aborted>>
-----------------------------------------------------------------------------
InsertStep(t) ==
    \/ Descend(t) \/ TryInsert(t) \/ Split(t)
    \/ PopParent(t) \/ PublishRoot(t) \/ InitRoot(t)

ScanStep(t) == Descend(t) \/ Position(t) \/ Advance(t) \/ Fetch(t) \/ EndScan(t)

\* Every key was inserted, or no inserter is left, or the process is gone.
Rest ==
    /\ \/ aborted
       \/ \A t \in Threads : \/ op[t].at = "panicked"
                             \/ t \notin Scanners /\ op[t].at = "idle"
                                                  /\ begun = [o \in ObjectID |-> Key]
    /\ UNCHANGED vars

Next ==
    \/ /\ ~aborted
       /\ \/ \E t \in Inserters : \/ \E o \in ObjectID, k \in Key : BeginInsert(t, o, k)
                                  \/ InsertStep(t)
          \/ \E t \in Scanners : \/ \E o \in ObjectID, a, b \in Key : BeginScan(t, o, a, b)
                                 \/ ScanStep(t)
    \/ Rest

Spec == Init /\ [][Next]_vars

\* A thread inside a call keeps being scheduled: no lock is held between steps.
Fairness ==
    /\ \A t \in Inserters : WF_vars(~aborted /\ InsertStep(t))
    /\ \A t \in Scanners : WF_vars(~aborted /\ ScanStep(t))
FairSpec == Spec /\ Fairness

-----------------------------------------------------------------------------
(* Properties *)

InsertCall == [scan : {FALSE}, object : ObjectID, key : Key, page : PageID, tuple : Tuple,
               parents : Seq(PageID), at : {"descend", "insert", "split", "parent"}]
RootCall == [at : {"init"}, root : PageID, call : InsertCall]
ScanCall == [scan : {TRUE}, object : ObjectID, key : Key, end : Key, page : PageID,
             parents : Seq(PageID), idx : Nat, out : Seq(Key), due : SUBSET Key,
             at : {"descend", "position", "next", "fetch", "end"}]

Children(page) == {page.child} \cup {page.items[i].value : i \in DOMAIN page.items}

TypeOK ==
    /\ DOMAIN pages = 0 .. (NewID - 1)
    /\ \A p \in DOMAIN pages :
          /\ pages[p] \in Page
          /\ pages[p].type = "Node" =>
                \A c \in Children(pages[p]) : c \in DOMAIN pages
    /\ dbobjects \in [ObjectID -> DOMAIN pages]
    /\ op \in [Threads -> {Idle, Panicked} \cup InsertCall \cup RootCall \cup ScanCall]
    /\ begun \in [ObjectID -> SUBSET Key] /\ stored \in [ObjectID -> SUBSET Key]
    /\ aborted \in BOOLEAN

\* The pages to the right of page p, p first, as long as the chain goes on.
Chain(p) ==
    LET walk[n \in 0 .. NewID] ==
            IF n = 0 THEN <<p>>
            ELSE LET c    == walk[n - 1]
                     next == pages[Last(c)].right
                 IN  IF next = NULL_PTR THEN c ELSE Append(c, next)
    IN  walk[NewID]

\* The keys an unbounded scan of object o would yield.  The first leaf of an
\* object is the page its root was in the beginning: a split keeps the lower
\* half in place.
ChainKeys(o) ==
    LET c == Chain(o)
        keys(items) == [j \in DOMAIN items |-> items[j].key]
    IN  FlattenSeq([i \in DOMAIN c |-> keys(pages[c[i]].items)])

\* The leaf that traverse_to_leaf reaches for key k from the root of object o.
Leafward(o, k) ==
    LET down[n \in 0 .. NewID] ==
            IF n = 0 THEN dbobjects[o]
            ELSE LET p == down[n - 1] IN
                 IF pages[p].type = "Leaf" THEN p ELSE Child(pages[p], k)
    IN  down[NewID]

\* No tree is half way through an insertion.
Settled == \A t \in Inserters : op[t].at = "idle"

\* No key is lost or doubled: whatever insertions, splits and root changes
\* overlap, the leaf chain holds every key whose insertion returned, holds it
\* once, and holds nothing that was never inserted (split_and_insert, 218-249).
ChainKeepsKeys ==
    ~aborted => \A o \in ObjectID :
        LET keys == ChainKeys(o) IN
        /\ stored[o] \subseteq ToSet(keys)
        /\ ToSet(keys) \subseteq begun[o]
        /\ IsInjective(keys)

\* The same without the once, whatever key is inserted again: an insertion of a
\* key that is there, at once or on an old verdict, refused or split in beside
\* it, takes no other key with it and makes none up (150-173, 218-249).
ChainHoldsKeys ==
    \A o \in ObjectID : LET keys == ChainKeys(o) IN
        stored[o] \subseteq ToSet(keys) /\ ToSet(keys) \subseteq begun[o]

\* A key is stored once: the insertion of a key that exists is refused (page.rs
\* 18, "Key already exists", and its test at 656-659).  Not so when a split by another
\* insertion moves the key out of the leaf that this one has reached (148-150).
KeysOnce == ~aborted => \A o \in ObjectID : IsInjective(ChainKeys(o))

\* The tuples of every page are in the order of their keys, none twice, as the
\* searches of a page take them to be: of two insertions of one key into a page
\* the second is refused, or splits the page so that the two part (218-249).
PagesSorted == \A p \in DOMAIN pages : Sorted(pages[p].items)

\* A scan yields keys in order: the leaf chain is sorted across its pages
\* (the test at 449 asserts it of a scan).
ChainSorted ==
    \A o \in ObjectID :
        LET keys == ChainKeys(o) IN
        \A i \in 2 .. Len(keys) : keys[i - 1] < keys[i]

\* traverse_to_leaf finds a leaf whose range covers the key (303-304): every
\* key of a settled tree is in the leaf that the search for it reaches.
Routed ==
    Settled => \A o \in ObjectID : \A k \in stored[o] :
                   k \in KeysIn(pages[Leafward(o, k)].items)

\* The left sibling pointer of a leaf leads to a leaf before it: from there the
\* right pointers come back to it, whatever splits overlapped (224-230, 242-246).
\* It need not be the leaf just before: a split does not tell the old neighbour.
\* (An inner node split before its init keeps the zeros of its sibling pointers.)
LeftIsBefore ==
    \A p \in DOMAIN pages :
        LET l == pages[p].left IN
        (pages[p].type = "Leaf" /\ l # NULL_PTR) => l # p /\ p \in ToSet(Chain(l))

\* A split neither overfills a page nor empties a leaf, though the verdict that
\* the page was full may be old when it is split and no half is asked for room:
\* the unwraps at 233, 238 and 239 meet no OutOfSpace, and a scan that moves
\* right finds a tuple at index 0 (80).  Only a tree without keys has an empty leaf.
PagesFilled ==
    \A p \in DOMAIN pages :
        LET n == Len(pages[p].items) IN
        IF pages[p].type = "Node" THEN n <= NodeCap
        ELSE n <= LeafCap /\ (n = 0 => p \in ObjectID /\ stored[p] = {})

\* A scan that comes to its end has yielded every key of its range that was
\* stored when it began, whatever is inserted meanwhile.
ScanComplete ==
    \A t \in Scanners : op[t].at = "end" => op[t].due \subseteq ToSet(op[t].out)

\* A scan yields keys of its range [start..=end] (11), unless an insertion of a smaller
\* key overlaps it (131).  Nothing says what a scan with end below start does.
ScanInRange ==
    \A t \in Scanners : op[t].at = "next" /\ op[t].key <= op[t].end =>
        \A k \in ToSet(op[t].out) : op[t].key <= k /\ k <= op[t].end

\* A scan yields its keys in order (the test at 449 asserts is_sorted), unless a
\* split that overlaps it moves tuples it has passed to the next leaf (72).
ScanSorted ==
    \A t \in Scanners : op[t].at = "next" =>
        LET out == op[t].out IN \A i \in 2 .. Len(out) : out[i - 1] <= out[i]

\* A scan whose page is exhausted goes on at the next leaf (54-55) and never
\* unwraps a tuple that is not there (80), unless a split takes the tuple away between
\* its two looks at the page (58-64, 76-80).
ScanGoesOn == \A t \in Scanners : op[t].at # "panicked"

\* No insertion of a new key panics, whatever insertions overlap (the unwraps at
\* 233, 238 and 239, the unreachable!() at 171), and no scan that no insertion
\* overlaps.
NoPanic == ~aborted /\ \A t \in Threads : op[t].at # "panicked"

\* Every call returns or panics: no insertion splits its way up, and no descent
\* walks on, forever, though parents split and roots are replaced under it.
CallsEnd == \A t \in Threads : op[t].at \notin {"idle", "panicked"} ~>
                                   (op[t].at \in {"idle", "panicked"} \/ aborted)

-----------------------------------------------------------------------------
(* What the tree promises: an ordered set of keys, OrderedIndex. *)

Scanning(t) == op[t].at \notin {"idle", "panicked"} /\ "scan" \in DOMAIN op[t] /\ op[t].scan

Index == INSTANCE OrderedIndex WITH
    index <- [o \in ObjectID |-> UNION {KeysIn(pages[p].items) : p \in ToSet(Chain(o))}],
    scans <- [t \in Scanners |->
                 IF Scanning(t)
                 THEN [rest |-> op[t].due \ ToSet(op[t].out), out |-> op[t].out]
                 ELSE NoScan]

\* A tree used by one thread, and never grown past one level of inner nodes,
\* implements an ordered set whose scans yield exactly their range, in order.
IndexSpec == Index!Spec
=============================================================================
