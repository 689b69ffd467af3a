# mattdb in TLA+

mattdb is the storage layer of a small database in Rust: a buffer pool over a
disk interface, slotted pages with binary search, a B-tree on those pages, and a
serialization format for tuples. The modules here model the parts that keep
state, one step per observable effect of the code; TLC checks them on small
instances, and TLAPS proves some of their properties for every instance. Paths
below are relative to the crate (`src/src/` seen from the root of this project).

## Inventory

| Part | State | Operations | What is hard | Correct means |
|---|---|---|---|---|
| Buffer pool, `data_storage/buffer_pool.rs` | `pages` (a `RwLock<PageSlot>` per frame: content, page id, dirty, pins), `page_table`, `evict_queue`, `unused_frames`, `dbobjects` | `get_page_ref` (pin or evict, write back, load), `PageRef` read, write and drop, `new_page`, object roots | every structure has a lock of its own, taken for one statement; what was read under one lock is used under another | a referenced page stays cached, in one frame; no write is lost; frames are neither lost nor doubled |
| Disk, `data_storage/storage.rs` | `MemoryIO`: a map of pages, a counter. `DiskIO` is `todo!()` | `read_page`, `write_page`, `new_page` | its calls fall between the steps of the pool | what was last written back is what is read |
| Key search, `representations/search.rs` | a window, an answer | `search` with four strategies | `usize` bounds that shrink from both sides | the documented index, no access outside the page, termination |
| Slotted page, `representations/page.rs` | header (two space counters, item count, pointers), slots, tuples | `insert`, `push`, `delete`, `collapse`, `split_half`, `find_*` | two counters for one space, `u32` wrap, splits by count of tuples of different size | slots and tuples never overlap, a split loses nothing and makes room |
| B-tree, `btree.rs` | the pages of a tree, its root in `dbobjects`; the locals of each call | `insert_tuple`, `iter_scan` and `ScanIterator::next` | no lock is held from one page to the next, nor between a split and the insertion of its separator; a scan keeps an index into a page that others change | an ordered set of keys whose scans yield their range |
| Tuples and keys, `representations/tuple.rs` | none (byte views) | `TupleBuf::new`, `Key::bytes`, `to_owned`, accessors | sizes are `u16`, and only they say where the key ends | what a tuple was made of is what it returns |
| Serialization, `serialization.rs` | position of a byte stream | typed write and read, `Serializer`, `Deserializer` | the position moves even when a read or write fails; padding is skipped and not written, and trimmed from texts; integers are also compared as bytes | round trip; errors are not forgotten |
| `main.rs`, `lib.rs` and module files | none | none | | |

The parts call each other downwards: the B-tree obtains `PageRef`s from the pool
and works on their bytes as slotted pages; a page calls the searches; the pool
calls the disk. Threads share one pool and through it one set of trees. There are
no messages and no persistence: `MemoryIO` dies with the process, so restarts and
recovery are not behaviours of this code.

## Modules

| Module | Models |
|---|---|
| `BufferPool` | pool and `MemoryIO`, at the granularity of the locks |
| `PageStore` | what the pool promises: pages that change only through a reference held |
| `MCBufferPool` | which threads own which references in the instances |
| `BufferPoolProofs` | invariants of `BufferPool` whatever overlaps, and when lookups do not; the pool implements `PageStore`, by step simulation; theorems |
| `PageSearch`, `PageSearchProofs` | the search loop and its strategies; theorems |
| `SlottedPage` | the space of one page, and its two halves after a split |
| `SlottedPageProofs` | invariant of `SlottedPage` for any sizes, theorems |
| `BTree` | insertions and scans of several threads on a store of pages |
| `BTreeProofs` | invariant of `BTree` whatever overlaps, theorems |
| `BTreeKeysProofs` | sorted pages, leaf chains, and where the keys of a single tree are |
| `BTreeOrderProofs` | the order of the leaves, searches and scans of a tree of one level; such a tree implements `OrderedIndex`, by step simulation |
| `OrderedIndex` | what the tree promises: sets of keys, and scans that yield their range |
| `BTreeOnPool` | `BTree` on a pool of few frames: references taken, dropped, refused |
| `BTreeOnPoolProofs` | what of all this survives calls that fail half way; how many pages a call references |
| `Tuples` | the byte layout of tuples and keys |
| `Serialization` | rows written to byte streams, carried by tuples, read back |
| `SerializationProofs` | inductive invariant of `Serialization`, theorems on it and on `Tuples` |
| `MCBTree`, `MCBTreeOnPool`, `MCSerialization` | threads, ranges and rows of the instances |

They compose by promise: `BufferPool` is shown, and proved, to implement
`PageStore` (when lookups do not overlap, see below), and `BTree` is written over
such a store. `BTreeOnPool` extends `BTree` with the frames: it assumes of the
pool what `ExhaustedOnlyWhenAllPinned` and `PinnedStaysCached` say of it.
`Serialization` uses the operators of `Tuples`. `PageSearch` shows what the
`find_*` calls return, and `BTree` and `SlottedPage` use these values as counts of
keys.

### BufferPool

An actor is a `PageRef`, a pair of its thread and a number. `refs[r].at` says
where the call on it stands; a thread runs one call at a time, whichever of its
references that call is for. `BeginGet` to `Load` are `get_page_ref`:

    BeginGet -- page_table hit -- PinFind -- PinLock -- Dequeue
             -- miss -- Victim -- EvictLock (lock, WriteBack) -- Remap -- Load

`Read`, `Write` are accesses through the guards, `BeginDrop`, `UnpinLock`,
`Enqueue` the drop. A statement on `page_table`, `evict_queue`, `unused_frames`
or the disk takes its lock for that statement, so it is one step. The `RwLock`
of a frame is held over several steps; its holder shows in `refs`. A panic
unwinds: the guard poisons the frame, the thread's other references are dropped,
and a panic during these drops aborts the process (`Panic`, `PanicLocked`,
`PoisonPanic`). `pins` is unsigned and its decrement panics at zero, as in the
debug and test profiles.

`OverlappingGets` says whether two threads may be inside `get_page_ref` at once.
The code does not prevent it, and then loses the properties listed under
"Disagreements". `FALSE` is the discipline under which the pool keeps its
promises; drops, reads, writes and allocations overlap everything even then.

### PageSearch

A behaviour is one search on one sorted page, an iteration of the loop per step.
`OnEqual`, `OnLess` and `OnGreater` are the three branches of the `step`
functions, `Converged` the last look when the window has one slot; `rounds` counts
the iterations, so that one which leaves the window as it was is still a step.

### SlottedPage

`page` holds the two counters, `FreeSpacePtr`, and the slots, each with the tuple
it points to and the offset of that tuple. Sizes are small numbers, counters are
numbers modulo `Word` in place of 2^32. `Insert` is `insert` with its search, its
space check, its collapse and its write; `Delete`, `CollapseCall` the methods;
`Split` is `split_and_insert` of the B-tree on this page, after which the model
follows one half or the other. A page whose slots overlap its tuples has no
meaning any more, and nothing happens on it. `push` has no caller outside tests
and is left out. Sibling and child pointers are in `BTree`.

### BTree

A step is one lock scope of the code. `op[t]` holds the label of thread `t` and
the locals of its call: the page it is at, the stack of parents from
`traverse_to_leaf`, the tuple it inserts, or a scan's index and output.

| Code | Actions |
|---|---|
| `insert_tuple`, `traverse_to_leaf` | `BeginInsert`, `Descend` |
| `insert_recurs`: attempt, split, parent | `TryInsert`, `Split`, `PopParent` |
| `get_parent` without a parent: new root | `PublishRoot` (allocate, `update_object_root`), `InitRoot` |
| `iter_scan` | `BeginScan`, `Descend`, `Position` |
| `ScanIterator::next` | `Advance` (count and right sibling), `Fetch` (the tuple), `EndScan` |

A split holds the locks of the page and of the new sibling, which nobody else
knows yet, so it is one step. A page just allocated reads as zeros, and the model
keeps that state between `PublishRoot` and `InitRoot`: such a page reads as an
inner node whose left child is page 0 and has no room. Tuples have one size here
(sizes are `SlottedPage`'s subject), so a page is full at `LeafCap` tuples or
`NodeCap` separators. `begun`, `stored` and a scan's `due` are history variables
that properties read.

A page that is asked to split may hold the key already: the refusal
`PrimaryKeyError` is only met in the half that gets the new tuple. Then the `unwrap`
panics under both locks and the tree is poisoned (`SplitPanics`, `aborted`). When the
key is the last one that stays left, the new tuple is itself the middle and goes to
the right half, which lacks it: nothing panics, and the key is in two leaves.

### BTreeOnPool

Every step of `BTree` that looks at a page waits until the call holds a `PageRef`
to it (`Get`, `GetNew`), and every reference is dropped where the code drops it
(`Drop`): the ancestors of a leaf when `traverse_to_leaf` returns, nearest first;
the former page of a scan when it moves right; the new page of a split when
`split_and_insert` returns; the pages of a climb when the whole insertion returns.
`Fail` is `NoFreeFrames`: the `unwrap` of the result ends the call, and what it
holds is dropped. No guard is held there, so nothing is poisoned. A `get_page_ref`
is one step, and the page that `new_page` allocated for a call that then fails is
not added to `pages`: nobody knows its id.

### Tuples and Serialization

A behaviour of `Serialization` is one row: its capacity is summed (`AddSize`,
`NewStream`), its fields are written one by one (`SerializeField`, with the three
errors), and the bytes, whole or cut short, travel directly, through a tuple as its
key, its value or an owned copy of the key, or are opened at a later field
(`OpenBytes`, `OpenTuple`, `OpenFrom`). Then calls read lists of types from one
stream (`Call`, `DeserializeField`), of the types that wrote it or of others. Both
streams move their position before they look at the bounds. A byte has two bits:
integers keep their number of bytes, and of UTF-8 remain an ASCII character, NUL, a
lead byte and a continuation byte.

## Runs

| Run | Instance | Question |
|---|---|---|
| `pool_serial` | 2 threads, 3 references, 2 frames, 3 pages, 2 contents, lookups not overlapping | is the pool a page store; are pins, frames and page table consistent; does it run out of frames only when all are pinned |
| `pool_overlap` | 2 threads, 1 reference each, 2 frames, 3 pages, lookups overlapping, panics and abort included | what still holds then |
| `pool_evicted` | 2 threads, 1 frame, 2 pages, lookups overlapping | violation of `PinnedStaysCached` |
| `tree_alone` | 1 thread, 6 keys, leaves of 2, one level of inner nodes | every order of insertion, with scans of every range in between: an ordered index |
| `tree_inserters` | 2 threads, 5 keys, leaves of 2, inner nodes of 1 | overlapping insertions with splits of leaves, inner nodes and roots |
| `tree_duplicates` | 2 threads, 4 keys inserted any number of times, leaves of 2, inner nodes of 1, at most 7 pages | does the insertion of a key that is there cost another key, or disorder a page |
| `tree_scan` | an inserter and a scanner, 4 keys, 3 ranges, leaves of 2, inner nodes of 1, on a pool of 3 frames | does an overlapped scan, or an insertion that fails half way, lose a key; how many pages does a call hold, and does it give them back when the pool is exhausted |
| `tree_inner_split` | 1 thread, 7 keys, inner nodes of 2 | violation of `Routed` |
| `tree_lost_separator` | 2 threads, 5 keys | violation of `Routed` |
| `search` | every sorted page of 1 to 6 slots over 5 keys, every key, every strategy | are the answers right and the bounds safe |
| `page_space` | 5 keys, tuples of 2 sizes, room for 4 or 5 | is the recorded space there; do splits work |
| `rows` | some 80 rows of one and two fields of every type and error, two keys, bytes cut anywhere, up to 2 reads | do rows survive streams and tuples; are errors kept; do bytes keep the order |

What the passing runs say:

- *Pool* (`pool_serial`). `StoreSpec`, `ReadsCurrent`: evictions, write-backs and loads are
  invisible to clients. `PinnedStaysCached`, `PinsCountRefs`: eviction never
  takes a referenced page, and the count is exact at every step of a half-done
  call. `FramesAccounted`: each frame is unused, evictable, pinned or in the
  hands of one call, exactly one of these. `ExhaustedOnlyWhenAllPinned`:
  `NoFreeFrames` is never returned early. With overlapping lookups
  (`pool_overlap`) `TableSound` and `DirtyHasPage` remain: the page table never
  misleads a lock holder, and a write-back knows its page.
- *Tree*. Alone (`tree_alone`) it implements `OrderedIndex`. With two inserters
  (`tree_inserters`) `ChainKeepsKeys` says that no key is lost from the chain of
  leaves or doubled in it, although searches may miss it, `LeftIsBefore` that left
  siblings lead back, `PagesFilled` that a split on an old verdict neither overfills
  a page nor empties a leaf, `NoPanic` that no insertion of a new key meets an `unwrap`
  or the `unreachable!()`, `CallsEnd` that nobody splits or descends forever. With keys
  that are inserted again (`tree_duplicates`) a key may be doubled; `ChainHoldsKeys` says
  that still none is lost or made up, and `PagesSorted` that each page by itself stays
  sorted, with no key twice.
  `ScanComplete` (`tree_scan`): whatever one inserter does, a scan that ends has
  yielded every key of its range stored when it began; keys move only right, and
  the scan moves right too. With two inserters it fails: a lost separator sends the
  descent too far right.
- *Tree on a pool* (`tree_scan`). `FewReferences`: a call holds at most a page per
  level and a new one, so that many frames per thread are enough. The levels are those
  of the highest tree below any page, because a root leads nowhere from its publication
  to its initialisation: counted below the published root the bound is false in that
  moment. Three frames are too few for an inserter and a scanner: calls fail, also in
  the middle of a split. `RefsReturned` says that even then every reference is given
  back, so that no frame is lost to the other thread. `ChainKeepsKeys` says that the leaf
  chain keeps all keys even so: a split whose separator was never hung loses none.
- *Page* (`page_space`). Until a tuple is deleted the space check alone prevents
  collisions (`CheckPreventsCollision`). After deletions the contiguous counter may be
  too small and is never too large. A split with these sizes makes room, and puts every
  tuple where a search for it will go.
- *Rows* (`rows`). `RoundTrip`: read by the types that wrote
  it each field gives back its value, a text without its trailing NULs, or fails if
  its bytes are not all there. `ErrorsStick`: after one read past the end all later
  ones fail. `TupleCarriesRow`: a tuple returns the row if the key is shorter than
  `Word`. `BytesKeepOrder`: the part of the range in which the bytes of integers
  compare as the integers do.

The runs that end in a violation are the subject of "Disagreements".

### Bounds

Pool: three pages over two frames make every miss after the second an eviction,
two contents tell a lost write from a kept one, and three references allow one
thread two references while the other interferes; an interference needs two
threads, and what a third would do is done by the second after its first call.
Tree: leaves of two split at the third key and inner nodes of one at the second
separator, so five keys reach a third level. `tree_alone` allows inner nodes of
eight, which six keys never fill, because a split of an inner node breaks the
tree (below). `tree_duplicates` has `MaxPages`, because a key that got into two leaves
can be doubled again without end: seven pages are a second leaf and a root, a third and
fourth leaf and a second level. Search: six slots give windows of every parity three iterations
deep; five keys leave a gap at each side and between. Page: 20 units of room hold
four or five tuples, enough for every case of `split_half`; `Word` = 64 is past
every reachable difference. Tree on a pool: three frames are fewer than an
inserter that climbs and a scanner need together on the trees that four keys can
reach. Rows: `Byte` = 4 gives a byte a top bit and one more, so that the
flipped bit, the sign and the carry differ; `Word` = 8 is passed by one of the two
keys and by the longer rows; texts end, begin and break at every place of fields of
two and three bytes; two reads show what the first leaves to the second, which may
be in the same call or the next. Every bound is a constant of the .cfg, `Byte` a
definition of `Serialization`; there are no others.

### Fairness

`FairSpec` of `BTree` has weak fairness of each thread's own steps inside a call:
the code holds no lock from one step to the next, so a thread is never disabled
by another, and the operating system schedules every runnable thread. It does not
require a thread to begin a call. `FairSpecOnPool` of `BTreeOnPool` asks the same
of the steps inside a call, those that take and drop references included: when no
frame is free the code does not wait, it fails, so again nobody is disabled by
another. The other runs need no fairness.

## Proofs

For every value of the constants that satisfies the named assumptions:

- `BufferPoolProofs`, from `PoolAssumption`, for both values of
  `OverlappingGets`: `TypeCorrect` (`TypeOK`), `TableIsSound` (`TableSound`) and
  `DirtySlotsHavePages` (`DirtyHasPage`). The inductive invariant `IInv` adds to
  these what they need: a call past its lookup has its frame and page set
  (`FieldsSet`), at most one call holds a frame's lock exclusively
  (`LockExclusive`), and a writer finds a page in its frame (`WriterFindsPage`:
  without it a write could make an empty slot dirty). There is a lemma per
  action. Panics, poisoning and abort are steps like the others.
- The second part of `BufferPoolProofs`, from `PoolAssumption` and `~OverlappingGets`:
  `PinnedIsCached`, `PinsAreExact`, `NeverPanics`, `PagesInOneFrame`,
  `FramesAreAccounted`, `ExhaustedOnlyThen`. The invariant `SInv` is added to
  `IInv`. Its parts lean on each other: what each call knows of the page table and
  the queues at its label (`CallsSound`) survives the others because a frame that a
  call took is in nobody else's hands (`TakenOnce`) and has no users
  (`TakenUnused`); that holds because queued frames have none (`Queued`, but for the
  one that a pin is about to dequeue), which follows from the pin counts (`Counts`);
  these change rightly because a page is in one frame (`SlotMapped`), because a
  lookup that missed still misses when it enters the page (`OneGetter`), and
  because no lookup panics (`Calm`), which is `CallsSound` again. `Unused` and
  `Covered` are for the frames that no call has. `ExhaustedOnlyThen` then gives a
  bijection from frames to referenced pages.
- The last part of `BufferPoolProofs`, from the same: `ReadsAreCurrent`, and `ImplementsStore`, the
  refinement of `PageStore` under the mapping of `BufferPool`. The invariant `DInv`
  says where a page's content is: on disk unless its slot is dirty (`CleanOnDisk`),
  and on disk in any case from the write-back of an eviction until the slot is
  overwritten (`WrittenBack`). `PinLock` on a pinned page, `Dequeue` and `Load` are
  `Acquire`, `UnpinLock` is `Release`, `Write` is `Update`, and every other step
  leaves what clients see as it was. That no more pages are referenced than there
  are frames is an injection from these pages to frames.
- `BTreeProofs`, from `TreeAssumption`, for any number of threads, objects and keys
  and any page capacities, with duplicate keys or without: `TypeCorrect`
  (`TypeOK`), `SplitsFill` (`PagesFilled`) and `NoKeyLost`: a key whose insertion
  returned is in a leaf (of some object: which one, and that its chain reaches it,
  is `ChainKeepsKeys`, see the next module), and a leaf holds only keys whose insertion
  began. The order of the keys is not needed for any of them. The invariant `IInv`
  says what a call may believe of the pages whose ids it holds while it holds no
  lock (`CallsOK`): pages are never freed, keep their type, and a leaf with keys is
  never emptied again (`Grows`), so it stays true under the steps of other threads
  (`CallPersists`). A call above the leaves inserts a separator whose child is
  allocated, its own key being in a leaf by then; a call that has left the first
  leaf of its object leaves keys there (`RootsFilled`), so that an empty leaf, which
  cannot be halved, is met only in an object that stored nothing. Two lemmas carry
  the splits: the half that the new tuple does not enter is not empty
  (`SplitHalfProperties`), and the two halves hold exactly the tuples of the page
  and the new one.
- `BTreeKeysProofs`, on top of `BTreeProofs`. From `TreeAssumption` alone:
  `PagesInOrder` (`PagesSorted`), `LeavesFormChains` and
  `LeftPointers` (`LeftIsBefore`). The ghost of the chains (`Ranks`) gives every leaf
  an object and a position, such that right pointers go up by one and left pointers
  go down; a split moves the positions right of it. For one object
  (`Objects = 1`): `ChainHasKeys` (`ChainHoldsKeys`), with duplicate keys or without. For one object
  and keys that are inserted once: `OneTreeKeepsKeys` (`ChainKeepsKeys`), and
  `CallsReturn` (`NoPanic`) if besides no thread scans while another inserts. Their
  invariant `KeysInv` says that no key is in two leaves, that a call for a new key
  meets it nowhere on its way, that the separators on a page and in the hands of the
  calls lead to different leaves and are those leaves' first keys, and that the
  left edge of the tree is never crossed from the right.
  The hypotheses are the code's: with two objects TLC refutes `ChainKeepsKeys` (a
  search through a root that is published and still zeroed goes to page 0, a leaf of
  the first object, and inserts there); a key that is inserted again can end up in two
  leaves (`KeysOnce` is false) or reach `unreachable!()`; and a scan beside an insertion can meet
  the `unwrap` of btree.rs:80 (see "Disagreements").
- `BTreeOrderProofs`, on top of `BTreeKeysProofs`, for one object, keys that are inserted
  once and one thread that inserts (`Alone`); scanners may be any number, the inserter
  among them. While the tree has one inner node at most (`OneLevel`): `ChainIsSorted`
  (`ChainSorted`), `SearchesRouted` (`Routed`) and `ScansComplete` (`ScanComplete`). The
  hypotheses are again the code's: `tree_inner_split` refutes `Routed` once an inner node
  is split, `tree_lost_separator` with a second inserter. `TreeStaysLow` does without
  `OneLevel` where the keys have room in one inner node, as in `tree_alone`: then no
  inner node is split and no second root is made above a leaf that has one, and all three
  hold of every behaviour (`LowTreeServes`). The invariant
  `OrderInv` says that the keys of a leaf are below the first key of the next
  (`LeavesAscend`), that every leaf but the first is hung in the root or carried by the
  insertion that split it off (`LeavesHung`), and that an insertion which is at a leaf has
  a key below the next one (`AtPlaces`): nothing but this last part, which no lock
  protects between the descent and the split, keeps the chain sorted. For scans,
  `ScansOK` says that each key a scan still owes is not to the left of its leaf
  (`Starts`) and not before its index unless it is beyond all keys of that leaf
  (`Ahead`). An inserter's step can only add a key below the next leaf or take the upper
  keys of a leaf to the next (`LeavesMove`), and neither puts an owed key behind a scan
  (`AheadStays`).
- The last part of `BTreeOrderProofs`, from the same: the refinement of `OrderedIndex`
  (`ServesAsIndex`, `IndexSpec`) and `ScansInRange` (`ScanInRange` and `ScanSorted`), from the same
  hypotheses and one more: no scan is in progress while another thread inserts
  (`ReadersApart`: without it both are false, see "Disagreements"). `LoneTreeIsIndex`
  puts no condition on the behaviour: a single thread, and no more keys than an inner
  node has room for, the case that `tree_alone` checks. In the refinement a key is in
  the set from the step that puts it in a leaf, which is `Insert` or the end of
  `SplitLeaf`, and not from the return of the call; `Accounted` says that the keys in the
  leaves are those that were stored and those of insertions that have still to hang
  their leaf. The invariant `ServesInv` adds `ExactInv`: a scan has yielded exactly the
  keys of its range that are before its position, so that what it shows is what
  `OrderedIndex` has left to yield, and the tuple it fetches is the least of these. All
  other steps of the tree are invisible to a user of the index. `ScanAssumption` says that
  `NoScan`, which stands for a scanner that does not scan, is not a scan.
- `BTreeOnPoolProofs`, on top of `BTreeOrderProofs`, from `FramesAssumption` and
  `ThreadsAssumption` besides. A step on the pool is a step of `BTree`, a change of
  references, or the failure of a call (`PoolSteps`), which changes nothing but that
  call (`Failed`); so the invariants carry over that do not rely on what the failed call
  was about to do. `FailuresKeepKeys` (`TypeOK`, `PagesFilled` and the keys) and
  `FailuresKeepChains` (`LeftIsBefore`) are for any number of threads, trees and frames;
  `FailuresKeepOneTree` (`ChainKeepsKeys`) is for one tree, keys inserted once and any
  number of inserters. `OrderInv` does not carry over: a failed inserter drops the
  separator of a leaf, which then hangs nowhere, and `Routed` is lost. What a scan needs
  of it does (`Ascends`), since the only inserter is gone (`StoppedScans`):
  `FailuresKeepScans` (`ScanComplete`, `ChainSorted`) under the hypotheses of
  `ScansComplete`, and `LowTreeOnPool` without one on the behaviour.
  `FewReferencesHold` (`FewReferences`) is for one inserter, any scanners, trees, keys,
  capacities and frames. Its invariant `OnPoolInv` gives every page a level above those
  of its children (`Graded`), and says that a call on its way down references no more
  pages than there are levels above its own, and on its way up no more than there are
  from the leaves to its own (`RefsGraded`). That there really is a path of so many
  pages is shown by a set of pages (`edge`) that each have their first child in it, one
  level below them; a root joins it when it is initialised (`Bare` until then).
- `SlottedPageProofs`, from `PageAssumption`, for any sizes of page, header, slot and
  tuples: `PageTypes` (`TypeOK`), `SpaceIsThere` (`ContiguousIsThere`), `HeaderExact`
  (`SpaceExact`: both counters are the gap until a tuple is deleted), `NothingOverlaps` (`CheckPreventsCollision`) and `SplitsPartition`
  (`SplitPartitions`). The invariant `PageInv` (theorem `PageInvariant`) adds that
  the slots are sorted (`Sorted`), that the tuples lie apart between the pointer and
  the end of the page (`Laid`), and that the bytes between them are at least the sum
  of their sizes (`HasRoom`): it is this sum that makes `collapse` and `split_half`
  succeed on a page with holes. `RebuiltIsPacked` says what rebuilding makes of the
  slots: they lie one after the other from the end of the page, and both counters say
  what is left. `SplitsMakeRoom` (`SplitMakesRoom`) needs a hypothesis, because splits
  divide by count: for some `m` no tuple takes more than `m` times the space of
  another and `m + 1` of the largest fit on a page (`Even`). The sizes of `page_space`
  are even in this sense with `m = 2`; those for which the `unwrap` of btree.rs:238
  panics are not.
- `PageSearchProofs`, from `SearchAssumption`, for pages of any length and any
  keys: `TypeCorrect` (`TypeOK`), `StaysInPage`, `SearchCorrect`, `SearchHalves`. The
  invariant is that the
  answer, if the search has not ended, still lies in the window: everything left
  of it compares as `Less` and everything right of it does not.
- `SerializationProofs`, from `RowAssumption` and `WordAssumption`, for any rows,
  calls and keys: `TypeCorrect` (`TypeOK`), `AlwaysAligned` and `AlwaysKept`
  (`FieldsAligned`, each field is written where a reader will look, and `FieldsKept`, no
  later field changes it; no run repeats these two, or `SpaceExact` above),
  `RowsComeBack` (`RoundTrip`), `TuplesCarryRows` (`TupleCarriesRow`), `BytesOrdered`
  (`BytesKeepOrder`), `StreamStaysSpoiled`, and `TupleRoundTrip` and
  `OwnedKeyKeepsSize` about every tuple (the bytes of the copy are those of
  the key after a size field that does not belong to them). The invariant `IInv` says that `offsets` are
  the partial sums of the sizes and increase up to the capacity, so that a field that
  begins at its offset ends in the buffer; `Spoiled` says that an error of the stream
  leaves the position past the end. For the round trip, `Stored` says what every byte
  of every field is once `serialize` has returned, those of a row with too few values
  included, and `InStream` that a stream which has been read by the types of the row
  stands where the next field begins; `FieldReadsAs` is then what a single field gives
  back. Under it lie the lemmas on bytes: the digits of a number add up to it
  (`Digits`, `Upper`, `Decoded`), flipping a bit twice changes nothing (`FlipTwice`),
  numbers compare as their digits do (`DigitsOrder`), and in the lower half of its
  range the bit that is flipped tells the sign of an integer (`MiddleDigit`).
  Integers have two, four or eight bytes, so none of them needs induction.

Five operators are defined by recursion over a sequence: the chain of leaves (`Chain`),
`FlattenSeq`, the rebuilt page (`Rebuilt`), the number that bytes stand for
(`FromBigEndian`) and the sum of sizes (`SumSizes`). What they compute is proved all the
same: a closed form is shown to satisfy the recursive equation, so that the `CHOOSE` of
the function definition has a value that does, and a least position at which that value
and the closed form differ is refuted (`Least`); the bytes of an integer, which are at
most eight, are compared one after the other.

Checked by TLC only: liveness (`CallsEnd`, `RefsReturned`), which is out of the prover's
reach, and two things beyond the hypotheses of the theorems. The theorems on
`ScanComplete`, `Routed` and `ChainSorted` hold while the tree has one inner node at
most; on a tree that grows past it TLC checks `ScanComplete` (`tree_scan`): there an
unlinked inner node leaves a descent too far to the left, from where the chain of leaves
leads on. And `FewReferences` is proved for one inserter, which is also what `tree_scan`
has.

## Disagreements between code and its documentation

With a run, and quoted in the `findings` of `PROJECT.json`: a frame taken as victim can
be pinned before it is evicted (`pool_evicted`); a split inner node hands up a separator
that points to the old child (`tree_inner_split`); an insertion or a new root between a
leaf's split and its separator leaves keys unreachable (`tree_lost_separator`).

The following are false of the code too. Each is stated in its module beside the
properties that hold, and TLC refutes it when it is the invariant of the configuration
named, changed as said:

| Statement | Where | Configuration | What happens |
|---|---|---|---|
| `OneFramePerPage` | `buffer_pool.rs`:220, 249 | `BufferPool_overlap` | two threads miss on one page and load it into two frames |
| `KeysOnce` | `btree.rs`:148-150 | `BTree_duplicates` | a split moves a key out of the leaf that a second insertion of it has reached; the leaf takes it once more |
| `ScanInRange` | `btree.rs`:131 | `BTree_lost_separator`, scanner `t2`, inserter `t1` | a smaller key is put in at the position of a scan, which yields it though it is below the start |
| `ScanSorted` | `btree.rs`:72 | the same | the tuples that a scan has passed move to the right half of a split, where it goes on at index 0 and meets them again |
| `ScanGoesOn` | `btree.rs`:80 | the same | a split between the two lock scopes of `next` takes the tuple away, and the `unwrap` panics |
| `TotalIsFree` | `page.rs`:413 | `SlottedPage_space` | `delete` moves `TotalFreeSpace` the wrong way |
| `NoCollision` | `page.rs`:300, 413 | `SlottedPage_space` | so far that it wraps round; an insertion then collapses a page that has no room and writes its slot over a tuple |
| `SplitMakesRoom` | `btree.rs`:238, 277 | `SlottedPage_space`, `Sizes = {1, 5}` | a split divides by count, the insertion into a half is refused, and its `unwrap` panics |
| `OwnedKeyKeepsBytes` | `tuple.rs`:28, 39 | `Serialization_rows` | an owned copy of a key has a second size field before the first |

Met while modelling, in the models, and not stated as a property:

- The old right neighbour of a split leaf keeps its left pointer (`btree.rs`:243;
  the comment at 202 says that sibling pointers are updated). Nothing reads left
  pointers; `LeftIsBefore` is what remains true.
- A new root is published before its `init` (`btree.rs`:187-188); until then
  searches of that object go to page 0, which may be another object's.
- A repeated key can reach `unreachable!()` (`btree.rs`:171), the refusal inside a split
  that ends in an `unwrap` under both locks (233-239), or, when it is the last key that
  stays left, be stored in both halves (237-239).
- `NoFreeFrames` in the middle of a split panics (`btree.rs`:165, 186, 204) after the
  halves were made and before the separator is in a parent: the key that a caller
  then retries may be stored twice, and later keys go to the wrong leaf.
- Integers are made comparable by flipping a bit of the byte in the middle and not
  of the first (`serialization.rs`:186-226): between the signs, and beyond the lower
  half of the bytes, the order of the bytes is not that of the numbers.
- A text that ends in NULs loses them; a list of fewer values than types is
  accepted, and the missing ones read back as what zeros stand for;
  `deserialize_from_start` slices past the end and panics where `next` returns an
  error. `Serializer` never returns the `BufferUnexpectedEnd` it declares.
- Sizes of keys and values above 65535 are cut (`tuple.rs`:133-134).
- `search` treats its upper bound as inclusive (`search.rs`:54 says exclusive);
  its callers pass `count - 1` and rely on it.

## Not modelled

- `DiskIO` and `bulk_insert` are `todo!()`, deletion from the tree is commented out.
- `new_object_root` is only the initial state of `BTree`, a root leaf per object: the
  code leaves the page zeroed, and whoever creates an object initialises it before
  its first use (only the tests do so).
- Of a page: its byte layout (`SlottedPage` has offsets and sizes, `BTree` items),
  `push` and `size_at`, which nothing calls, `percent_full`, which no decision
  depends on, and the printing of pages.
- `BTree` gives tuples one size, so that the panics of uneven splits are only in
  `SlottedPage`. `BTreeOnPool` takes `get_page_ref` as one step; its inner steps are
  `BufferPool`'s.
- Values of tuples other than child pointers. No row of `Serialization` reaches the
  tree: nothing in `src/` calls the serializer yet.
- Crate roots: module declarations, and a `main` that prints a line.
- There is no crash and no restart to model: nothing is persisted.
