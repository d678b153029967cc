# Verification of the generic utilities library

TLA+ models of the library in `src/`, the TLC configurations that check them on
small instances, and TLAPS proofs.  The library has no documentation of its own
beyond the header comments; they and the test programs are the source of what
the code is held to, and every definition is translated from the `.c` files.

## The system

The library is a set of containers.  Each object embeds a lock, a pointer to a
memory monitor and a pointer to statistics (macros of `lock_object.h`,
`mem_monitor_object.h`, `common.h`).  Each public function is: take the lock of
the object for reading or writing, run a `thread_unsafe_...` body, give the lock
back.  An object made without a lock is used by one thread.  Nothing is
persisted; the only processes that may die and leave others behind are those
that share memory through `SHMEM/`.

| component | state | operations | what makes it correct |
|---|---|---|---|
| read/write lock (`lock_object`) | `mtx`, `readers`, `write_pending`, `writing` | grab/release a read or a write lock, init, destroy | exclusion, an exact count, no starved writer |
| chunk manager | list of free chunks, list of groups, a free count per group | init, alloc, free, trim, destroy | no chunk handed out twice, addresses stay valid, no leak, trim gives back all it can |
| index object | sorted array, `n`, `maximum_size`, `should_not_be_modified` | init, insert, search, remove, traverse, get_all, trim, reset, destroy | sorted and without duplicates, bisection exact, within its capacity, undisturbed by callbacks |
| AVL tree | nodes with parents, balances and visit marks, root, `should_not_be_modified` | init, insert, search, remove, Morris traversal, iteration, destroy | an ordered and balanced tree, exact searches, traversals that put everything back |
| shared memory lock (`SHMEM`) | a robust recursive mutex, `readers`, `writers`, `writer_thread_id` | read/write lock, blocking and not, unlocks | exclusion, and recovery when a process dies |
| memory monitor | allocation counters, a header before each block | allocate, free, reallocate | the counters are those of the live blocks |
| list, ordered list | doubly / singly linked nodes, an end marker | add, find, remove, destroy | a sequence (sorted), no node lost |
| bit list | words of bits, a count | set, clear, first set/clear bit | a set of bits, spare bits never answered |
| dynamic array | an array between two bounds | insert, get, delete | growth in both directions into memory that is owned |
| radix tree | nodes of 16 children with a traversal counter, `should_not_be_modified` | insert, search, remove, traverse | a map without useless nodes; every datum visited with its key by a traversal without another beside it, the counters back at zero |
| buffer manager | pools of buffers with free lists, a table from sizes to pools | initialize, allocate, free, destroy | a buffer is free or has one user, for whom it is large enough; the smallest pool that fits serves |
| TLV manager | a buffer, an index, the room left, an array of triples | attach, append, parse, reset | what is appended is parsed, up to a length that a parse refuses |
| event manager | ordered lists of registrants in indexes by type, `should_not_be_modified` | register, un-register, announce, destroy | each registrant hears of an event once per registration, while the lists are not changed |
| SHMEM containers | allocator, index, bit list, AVL tree and its stack in mapped blocks | the same, over the shared memory lock | as above, for processes whose calls do not overlap |
| debug, sprintf, line counters, timer, file I/O | none that outlives a call | formatting, system calls | not modelled |

How they interact: every container calls its lock; the event manager keeps its
registrants in ordered lists in index objects; traversals and announcements call
functions of the user, which may call the same object again; objects share a
memory monitor with the parent that made them; the processes that use `SHMEM/`
share blocks and map them one by one.

What is hard: the lock is written over plain fields with one compare-and-swap;
some traversals write to the object under the *read* lock (AVL, radix tree);
callbacks run with the lock held; functions read the object before they lock it
(`chunk_free`, `index_obj_trim`, `radix_tree_traverse`); one flag stands for all
traversals that go on; bisection, rotations and trimming are multi-step
algorithms on shared structure; the shared memory lock must survive processes
that die between any two steps.  `PROJECT.json` lists these hazards at their
lines, with the properties that cover them.

## The modules

| module | what it is |
|---|---|
| `RWLock` | abstract: what the read/write lock promises |
| `LockObject` | `lock_object.c`, one access to a shared field per step |
| `LockObjectProofs` | theorems about `LockObject`, for any threads |
| `ChunkPool` | abstract: a pool of chunks that come and go in groups |
| `ChunkManager` | `chunk_manager.c` under its lock |
| `ChunkManagerProofs` | theorems about `ChunkManager` and `ChunkPool` |
| `SortedIndex` | abstract: a set of data with one for each key |
| `IndexObject`, `MCIndexObject` | `index_object.c` under `RWLock`; who calls what |
| `IndexObjectProofs` | theorems about `IndexObject` and `SortedIndex` |
| `AvlSurgery` | rotations, splicing and rebalancing, which both AVL trees share; what a balanced tree is |
| `AvlTree`, `MCAvlTree` | `avl_tree_object.c` under `RWLock`; who calls what |
| `SharedLock` | the lock of `SHMEM/shared_memory_utils.c`, with deaths |
| `SharedLockProofs` | theorems about `SharedLock` |
| `List`, `OrderedList` | `list.c`, `ordered_list.c` |
| `BitList` | `bitlist_object.c` |
| `DynamicArray` | `dynamic_array_object.c` |
| `RadixTree` | `radix_tree_object.c` |
| `TlvManager` | `tlv_manager.c` |
| `BufferManager` | `buffer_manager.c` |
| `MemMonitor` | `mem_monitor_object.c` |
| `EventManager` | `event_manager.c` |
| `ShmAllocator`, `ShmIndex`, `ShmBitList`, `ShmAvlTree` | the containers of `SHMEM/shared_memory_utils.c` |
| `ListsAndPools` | six containers of one-step functions side by side: the lists, the buffer manager, the shared memory allocator, the bit lists |
| `Containers`, `MCContainers` | these and six more, one at a time; the values of their constants |
| `DataLemmas` | lemmas about lists, sums, buffers of triples, tries, bits in words, and induction |
| `EventManagerProofs` | theorems about `EventManager` |
| `ListsAndPoolsProofs` | the inductive invariants of the six of `ListsAndPools` |
| `ContainerProofs` | theorems about `Containers`, with the invariants of the other containers |

`LockObject` implements `RWLock` (checked by TLC and proved), and `IndexObject`
and `AvlTree` take `RWLock`'s actions for their lock: three variables (`holds`,
`writer`, `barred`) in place of the spin loops.  `ChunkManager` never reads under
the lock, so one variable is its lock.

Common to the models of objects: a function is a call, the wait for the lock,
its body and the release.  `op`/`at` (or a record `call[t]`) say which function a
thread is in and where; the record's other fields are the C locals, under their
C names.  Where the body runs alone under the write lock a loop turn is a step;
where it shares a read lock, a step has at most one write that others can see.
Data that no property distinguishes (errno values, statistics, the memory
monitor, alignment) is left out.

**LockObject.** `Test`, `CasWin`, `CasLose` are `ttas`; `ReadLockCheck` to
`ReadUnlockStore` and `WriteLockMark` to `WriteUnlockStore` the bodies, in the
order of the C statements; `readers++` is a load and a store of a short that
wraps.  `holds` and `writer` are history: the locks granted and not given back.
The callers keep the header's rules: no lock while writing, no write lock while
reading, release what is held.  Memory is taken as sequentially consistent.

**ChunkManager.** The two mallocs of a new group may each fail; the address of
a freed group is reused.  `CallFree` reads the chunk's header before the lock,
as the code does.  Trim's two passes go a chunk and a group at a time.

**IndexObject.** `Bisect` is one turn of `index_find_position`; `InsertionPoint`
the computation from the last comparison.  `thread_safe` is chosen at
initialisation.  On an index without a lock the traversal's callback calls the
index again; `outer` keeps the traversal's place.  `TrimSize` reads `n` before
the lock is taken.

**AvlTree.** Left and right are one set of definitions for a side and its
other: `Rotate` is both rotations, `Rebalance` the four cases of insertion and of
removal.  `Descend` is one turn of `avl_lookup_engine`; `InsertClimb` and
`RemoveClimb` one turn of the loops towards the root; `MorrisTop`, `MorrisSeek`,
`MorrisLink` and `MorrisUnlink` the Morris traversal; `IterateTurn` the other
one.  A read of the traverser's own pointers and the write that follows are one
step: only a second traverser could tell.  A traversal may begin at any node.

**SharedLock.** Each access to the mutex and to a field is a step, and `Die`
may follow any.  `Id` and `Blocks` are what the engines receive: the two write
locks pass their last arguments in the wrong order, and the model keeps it.

**The containers of one-step functions.** Their public functions hold the
object's lock from the first statement to the last and read nothing before, so
with the lock (`lock_object.c`, whose exclusion is `LockObject`'s theorem) one call
is one atomic step, and the interest is in sequences of calls: links, counts,
markers and tables that must agree after every one.  The lock of the shared memory
containers is another one and lets several writers in (run `SharedLockWriters`):
`ShmIndex`, `ShmBitList` and `ShmAvlTree` are models of one process at a time, and
claim nothing of calls that interleave; `ShmAllocator` leaves the lock out and
lets calls overlap.  A call that is refused changes nothing
and is no step; a failed allocation is a step where it leaves something behind.
Each module keeps beside the code's fields a history of what the calls asked for
(a sequence, a set, a map), and its `Exact` says that the structure, read the way
the code reads it, is that.

- `List`, `OrderedList`: nodes are records of links; deletion in `OrderedList`
  copies the next node over the deleted one, as the code does.
- `BitList`, `ShmBitList`: a word is the set of its bits that are 1, the spare
  bits included; `Exact` asks for the answers of every query.
- `DynamicArray`: blocks of the heap with their sizes in bytes, and the array's
  pointer, which may point at a freed one.
- `RadixTree`: a node is the sequence of nibbles that leads to it.  The traversal
  is *not* one step: it tests and sets the flag before the lock and moves counters
  in the nodes under the read lock, beside other calls and other traversals.  A turn
  of its loop is one step.  A callback that traverses again finds the flag set and
  is back at once, which is no step; the models' callbacks do not try it where
  another traversal has cleared the flag.
- `TlvManager`: cells of a buffer, attached empty or with contents received; the
  parser with its bounds as they are written.
- `BufferManager`: free lists of pools; each pool's block and the table may fail
  to be allocated; a table entry that is not its own is any byte.
- `MemMonitor`: block headers that name a monitor and a size.
- `EventManager`: an announcement is a step for each callback; between two steps
  the callback may call the manager, and announce.  Differences of addresses go
  through an int.
- `ShmAllocator`: blocks in order of creation, and which of them each process has
  mapped; `call` is how far the call that a process is in has come.  Mapping what
  others created, the search of each block, marking the chunks, creating a block and
  freeing are steps of their own; two processes that both find no room create the
  same block, as the code has them do.
- `ShmIndex`: bisection and reference counts; `ShmAvlTree`: an array of nodes linked by
  index, first and last, and the stack of free nodes.

Four of them do less than one would expect, or than their comments say, and a
history variable marks where, so that the run shows the case and the property
claims what is left:

| history | set when | the property then |
|---|---|---|
| `EventManager.ordered` | registrants have been compared whose addresses an int does not order | claims nothing (`EventRegistered`, `EventToldAsRegistered`) |
| `EventManager`'s `lists`, of an announcement | a callback has announced (which clears the flag), and then a list was changed | claims nothing of that announcement (`EventToldAsRegistered`) |
| `RadixTree.alone` | (who traverses with no other beside) | `RadixTraversalComplete` is about those only, whatever ran before them |
| `TlvManager.lost` | an append wrote over triples that had been parsed | `TlvRoundTrip` counts them as lost and is about those written since |
| `ShmAllocator.overlapped` | a call began while another process was in one | claims nothing (`ShmExtentsExact`), and no call begins any more |

Without `ordered`, `lists`, `alone` and `overlapped` TLC finds the properties violated,
in 5 states (far addresses), 10 (nested announcements), 11 (two traversals) and 9 (two
calls of the allocator).

In `Containers` the initial state chooses a component (`kind`); the variables
of the others are `Off`.  Its state space is the sum of the twelve, not their
product, and each property is about one or two kinds.

## The runs

| run | instance | shows |
|---|---|---|
| `LockObject` | a reader that nests to depth 2, a writer, a thread that does both | exclusion on the fields, exact count, a writer is alone and its mark stands, no reader passes the mark, `RWLock` implemented, readers starve no writer |
| `LockObjectRecursive` | a nesting reader, a writer | **violated**: a nested read lock and a waiting writer wait for each other, though read locks "are recursive" |
| `ChunkManager` | three threads, two groups of two chunks | `AddressesStay`, `HandedOutOnce`, `CountsExact`, `NoLeak`, `TrimThorough`, `ChunkPool` implemented, calls return |
| `IndexObject` | a modifier and a reader with locks; one thread with callbacks without | sorted at every step, bisection exact, capacity, traversals undisturbed, `SortedIndex` implemented, modifications return |
| `IndexObjectTrim` | a modifier and a trimmer | **violated**: trim resizes to a size it read before the lock |
| `AvlTree` | every tree of up to 7 nodes; a searcher beside a traverser up to 4 | order, parents and balances; searches exact beside a Morris traversal; preorder; calls return |
| `AvlTreeTwoTraversals` | two Morris traversals, up to 4 nodes | **violated**: a traversal ends and has not called the user's function |
| `SharedLock` | three processes, one of which may die | readers and writers never meet, both counts exact, pending writers hold readers back, writers served |
| `SharedLockWriters` | two blocking writers | **violated**: both write at once |
| `SharedLockDeath` | a process dies with the mutex | **violated**: who recovers the mutex keeps it for ever |
| `Containers` | twelve components, one at a time | each structure is what its calls asked for; a radix traversal visits all beside other calls, if no other traverses beside it; announcements reach each registrant once per registration, unless the lists are changed under them; the allocator is exact until two calls overlap |
| `DynamicArray` | two slots, one index below and one above | **violated**: the first insertion outside leaves the array in a block that is too small or freed |

A violated property quotes what the repository says of the code; `PROJECT.json`
names the line of the code and of the quotation.  The types of the variables are
a property of their own in `LockObject` only, where they are proved; elsewhere
they are part of the invariants that need them (`CountsExact`, `Sorted`,
`WellFormed`, `WritersCounted`) and of the inductive invariants.

### Bounds

- Lock: three threads give every pair of roles: a nested reader beside a writer,
  two writers, two readers, and a thread in both roles.  The theorems cover all
  other sizes.  `MaxShort = 4` is no smaller than the read locks there can be.
  Beyond that the count goes wrong: with `MaxShort = 1` and two readers TLC finds
  `WriterExclusion` violated (the 32768th read lock of the real type).
- Chunks: two groups of two are the fewest in which a group is partly in use
  while another is freed; three threads let two wait while one holds the lock.
- Index: three keys, one with two data (an overwrite changes something), an
  initial size of 2 that grows by 1.  `INDEX_OBJ_BLOAT` (4 in `index_object.c`)
  is 1, so that an array of three elements can be trimmed.
- AVL: 7 nodes are the fewest at which removal meets a double rotation with a
  leaning middle node; 4 the fewest at which the Morris traversal seeks more than
  one node down.  `Shared` bounds the trees that are searched and traversed.
- Shared lock: one nesting, one death; `ZeroByte` (thread ids that are a multiple
  of 256) is empty in the runs.
- Containers.  Lists: four nodes, so that there are a first, a last and two inner
  ones, without a limit and with one of 3; ordered data with two of the same key.
  Bit lists: words of 3 and 2 bits, ranges below zero, across a word's end, at it
  and of a single bit.  Radix tree: nibbles of one bit; a key that is the start of
  another, and one that shares nothing with them; two traversers, who with the data
  and the processes are alike (`Alike`).  TLVs: two buffers to be filled, to the last
  cell and with a cell to spare, one received whose value runs past its end, and one
  whose last triple is refused; values that a parse accepts and one too long and one
  empty, which it refuses.  Buffers: three pools, two of two and one of one.  Monitor: two objects, three
  blocks, `MaxAllocations` 3.  Events: one type besides that of all types, three registrants with the
  same function, of whose arguments an int orders any two and not all three;
  `MaxRegistrations` 3, entries of all lists, so that a list can have all three;
  `MaxNesting` 2: an announcement within a callback of another.  Shared memory: two
  processes, each in a call at any step of the other's, until two have overlapped,
  after which those end; two blocks of four chunks, which sizes fill exactly, in part
  and not at all; an
  index of 3 nodes for 4 keys; a tree of 4 nodes for 5 keys (the surgery itself
  is run on 7 nodes in `AvlTree`); `MaxReferences` 2, so that a removal takes
  some, all or more than there are.

### Fairness

- A thread that has a lock goes on (WF of its steps): threads are not
  stopped for ever by the scheduler, and no body waits for another thread.
- `LockObject`: strong fairness of the test and the compare-and-swap.  The loops
  yield (`sched_yield`) after each failed attempt, so a thread is not timed
  against the others for ever.  The callers give locks back.
  `WriterNotStarved` lets a writer wait for another writer, among whom the lock
  keeps no order, and for a nested read request, which `LockObjectRecursive` is
  about; it says that nothing else keeps it waiting.
- `IndexObject` and `ChunkManager`: strong fairness of the write lock, which is
  what `WriterNotStarved` gives one writer; `LockRead` has only weak fairness.
  With several writers the code promises no order; for `ChunkManager`, where three
  threads compete for the write lock, strong fairness is an assumption about the
  scheduler, as in `LockObject`.
- `AvlTree`: `CallsReturn` is about calls that have the lock, so no fairness of
  the lock is assumed.  A search is exempt while Morris traversals run: TLC shows
  that an endless series of them can hold one search for ever.
- `SharedLock`: strong fairness of the mutex, of live processes only.

- `Containers`: safety only; a call is one step and there is nothing to wait for.

`CHECK_DEADLOCK FALSE` is in the configurations of `SharedLock`, where all may
have died or wait for a dead process, and of `Containers`, where a radix tree
whose traversal found no memory refuses every change and the monitor's
allocations are bounded.

## What is proved

Every theorem holds for every value of the constants that the named assumptions
allow; TLC evaluates the assumptions on the instances it runs.  `PROJECT.json`
lists the theorems beside the properties they state.  Of the properties that
passing runs check, the theorems state all safety properties but
`AvlTree`'s and `ShmKeysExact` of `Containers`.

| module | assumed | theorems |
|---|---|---|
| `LockObjectProofs` | finite sets of threads; `ReadersFit` | `TypeCorrect`, `FieldsGuarded`, `CountExact`, `OneWriterAlone`, `MarkStands`, `MarkKeepsReadersOut`, `Refinement` |
| `SharedLockProofs` | finitely many processes | `CountsTrue`, `ReadersAlone`, `PendingKeepsReadersOut`, `LivingAlone` |
| `ChunkManagerProofs` | finitely many addresses, groups of one chunk or more | `ChunksStayPut`, `OneHolder`, `TrimFreesAll`, `CountedRight`, `NothingLeaks`, `Refinement` |
| `IndexObjectProofs` | `CallsTyped`, `UnlockedAlone`, `CallbacksHeedFlag`; `OneModifier` for `RoomForAll` | `AlwaysSorted`, `BisectionSound`, `TraversalsStand`, `Refinement`, `RoomForAll` |
| `EventManagerProofs` | `ConstantsOK`; `AddressesNear` for `NearStaysOrdered` only | `Invariance`, `WhoIsRegistered`, `NearStaysOrdered`, `ToldOnce` |
| `ContainerProofs` | `ConstantsOK` of the container | `ListsKept`, `BitsKept`, `MapKept`, `TraversalsComplete`, `TriplesKept`, `BuffersKept`, `MemoryKept`, `RegistrantsKept`, `RegistrantsTold`, `ExtentsKept` |

Which of these assumptions say something of the code.  `ReadersFit`: the read
locks there can be (readers times depth) fit the short that counts them; without
it the theorems are false (see Bounds).  `UnlockedAlone`: an index without a lock
has one user, as everything without a lock.  `CallbacksHeedFlag`: callbacks of an
unlocked index do not traverse it or reset it; the flag is not made for that (see
Not modelled).  `OneModifier`: one thread at most calls the functions that change
a thread safe index; with two `IndexObjectTrim` shows the capacity violated.
`AddressesNear`: addresses are less than half the range of an int apart; then the
history `ordered` stays true, and the other theorems about events, which assume
nothing of the addresses, hold without a condition on it.
The other assumptions say what kind of values the constants are.

Each module has an inductive invariant, that it holds initially and is kept
by every step (one lemma for an action or a group of them), and derives the
properties from it.  What the invariants need beyond the properties, and why:

**LockObject** (`IInv`).  Exclusion of writers rests on a writer's path testing
`readers` and `writing` and on a reader's path testing only `write_pending`.  So
the proof needs that what a thread tested is still so when it stores
(`SectionFresh`), which holds because only one thread is past `ttas`
(`MtxExclusion`); that the flag says who writes (`WritingExact`) and the mark
covers it (`MarkCoversWriter`); that callers hold what they release
(`CallerHolds`); and which places belong to which function (`PlaceOf`).  The count
(`ReadersExact`) turns `readers <= 0` into "nobody reads"; lemmas about the set
`Grants` say how one grant or release changes its size.  The refinement follows:
the stores are the steps of `RWLock`, everything else stutters.

**SharedLock** (`IInv`).  `WritersCounted` says what both counts are at every
step, those inside an update included, and whatever process died there;
`LivingOwn` that who is between the lock of the mutex and its unlock owns it or is
dead; `TestedHolds` that what an engine tested still stands when it counts.
Nothing is assumed of who dies, or where: exclusion of readers and writers
survives every death, and what does not is `SharedLockDeath`'s.

**ChunkManager** (`IInv`).  The lock is held from a body's first statement to its
last (`LockHeld`, `PlaceOf`).  `CountOf` and `StructsOf` say of every moment which
chunks a group has free and which memory is obtained; `WhenSettled`,
`WhenTrimming`, `WhenSweeping` and `WhenDestroying` what holds of the two lists in
each phase of a function.  The key lemma is `WhollyFreeMeans`: a group whose count
equals its size has no chunk outside the manager, so trim frees no memory in use
(`AddressesStay`), although `chunk_free` reads a chunk's header before it locks.
The refinement maps each step to one of `ChunkPool` or to a stutter.

**IndexObject** (`IInv`).  `LockOf` relates the abstract lock to the places of the
threads; `Narrowed` says what bisection has excluded so far and `Found` what it
found, both of the array as it is *now*: the lock, and where there is none its
only user and the flag (`Alone`), keep it from changing; `Dead` that nobody uses
what is destroyed.  `CapInv` adds
to `CapacityHolds` who modifies (`ModifierOf`) and that the size `trim` read before
the lock still stands (`SizeStands`), which is where `OneModifier` is needed.

**EventManager** (`IInv`).  As long as the comparisons made were in order, the lists
ascend and have the registrants registered (`ListsRight`).  The comparison need not
order all registrants for that, only those in the list and the one asked for
(`Comparable`).  `AnnouncementsRight` adds of the announcements under way, one in the
callback of the other, how far each has come (`Progress`) as long as no list has
changed under it, and that one within which nothing has been announced is the
innermost and has the flag set, which is what keeps the lists as they are.

**The containers.**  `OneKind` says that a step of `Containers` is one of the
component in use, so a component's invariant is one of the whole.

- `ListInv`: the links are `Chained`, those of a sequence of nodes; every insertion
  is one in the sequence at some place and every removal one from it.
  `OrderedInv`: a sequence that ends in the marker; `PassedIs` says where the loops
  stop, and deletion, which copies the next node, removes from the sequence too.
- `BuffersInv`: each pool's free list and the buffers it has lent make up its
  buffers (`PoolExact`), and the table is that of the sizes of the pools that found
  memory, or there is none.
- `BlocksInv`: until two calls overlap, the extents handed out in each block of the
  allocator, its free list and the sizes remembered account for all its chunks
  (`BlockExact`), nobody has mapped a block that does not exist, one process at most is
  in a call, and what it knows of the blocks still holds (`Knows`): the chunks it has
  found are free when it marks them, the block it creates does not exist yet.
- `MonitorInv`: the counters are sums over the charged blocks.  How a sum changes
  with one block is proved in `DataLemmas`, by induction over finite sets.
- `TlvInv`: the triples stand at some offsets one behind the other; that the
  parser finds those, up to the first of a length that it refuses, is an induction
  too.  Of a received buffer nothing is assumed.
- `RadixInv`: the nodes form a `Trie` (with a node its parent, in each the count of
  its children), searches answer the map, and no leaf is without a datum unless
  memory ran out.  `TrieGrows` and `TriePruned` say that insertion and removal keep
  a trie one, `WayThere` that pruning stops at the first node still of use.
- `VisitInv`, on top of it: while a traversal is at a node (`Walks`), each node on the
  way there counts the child taken as its last, whole subtrees passed have zero again,
  and the calls made are those for the data of exactly the subtrees passed; the key
  kept in the one buffer begins with the path.  The flag is set from before the
  loop until after it, so nothing is inserted or removed meanwhile; outside the loop
  all counters are zero.  `WalkDown` and `WalkUp` are the two turns of the loop.
  All this is said of the traversal that has been alone since its test (`Lonely`).
  Of every other it is said that its counters account for the nodes on its way
  (`Walkers`): a counter that is not zero is above a traversal still in the loop, so
  that when all have ended the counters are zero for the next one, whatever they did
  to each other.
- `BitInv`, `ShmBitInv`: the words hold the bits asked for (`HoldsBits`, which says
  nothing of the spare ones); `FirstBitFound` is the search for the first, and a
  finite set has one ascending list, so the walk through the words is that list.

Where induction is needed it is over a set of natural numbers (`Inductive`): the set
of the sizes for which the statement holds is that of all.  Functions defined by
recursion (the sums, the parser, the flattened lists) are first shown to exist.

Only model-checked:

- all liveness, and with it the fairness and `ENABLED`, which the prover does not
  know;
- `WellFormed`, `SearchExact` and `Preordered` of `AvlTree`, and the tree's part of
  `ShmKeysExact`: rotations at any depth in trees of any size, with steps between
  them, need an invariant over trees cut open;
- the index's part of `ShmKeysExact`.  (The radix tree's theorems are about nibbles
  of one bit, as its model is; the code's have four.)

## Not modelled

See the components with status `not_modelled` or `partly` in `PROJECT.json`.

- Debug output, text formatting, clocks and files have no state a property could
  be about.  Statistics are counters that nothing reads; their increments under the
  read lock can be lost.  The test programs are read for how the library is used.
- `object_manager.c`, which the Makefile names, is not in the repository.
  `event_manager.c` is modelled as written although it calls older signatures of
  its containers.  The non-blocking mode of the lock has no caller.
- Functions that are not written (the groups of bits of `bitlist_object.c`,
  `radix_tree_destroy`), that change nothing (`index_obj_get_all`,
  `shm_indxobj_nth`), that have no caller (`MEM_MONITOR_ZREALLOC`), or that are the
  operating system's (`map_shared_memory`).
- Calls that end in the same way whatever else runs, where a state space would
  add nothing: on a thread safe index, `reset` and a callback that modifies wait for
  the lock their own thread holds, and so does a callback of a thread safe event
  manager; destroying an event manager with registrants for one type, iterating an
  empty AVL tree, and looking in a radix tree for a key past a missing low nibble,
  follow a null pointer.  The models' callers make none of these calls.
- Traversals of an index nested in their own callbacks, for which the single flag
  `should_not_be_modified` is not made: with "traverse" among `IndexObject`'s callbacks
  TLC finds `TraversalUndisturbed` violated.
- What becomes of the triples that `tlvm_reset_to_append` has parsed when one is then
  appended, which the comment at `tlv_manager.c:52-55` offers: the code leaves the write
  index at 0, so the append writes over the first of them.  `TlvManager` models it
  and counts them as lost; that they should still be found is not claimed.  Nor is it
  that a parse of an exactly full buffer, whose end type is in the very last cell,
  answers 0, which lines 100-102 say: it answers `ENOSPC`, with all triples found.
- Whether a request of `max_size` is served: where there is a table, its entry lies
  past it (`buffer_manager.c:127`), and the request may be refused with a buffer free.
- Memory that `buffer_manager_destroy` clears past its own structure: line 302 clears
  `sizeof(buffer_pool_t)` bytes from the member `block` of each pool, more than the pool
  has left, and for the last of 16 pools that is behind the structure.  What lies there
  is the caller's.
- What two calls of the shared memory allocator do to each other once they overlap,
  statement by statement: the steps of `ShmAllocator` are searches and updates.
- `first_free_chunk_index` of the shared memory allocator may pass chunks that are
  free, so that a request is refused for which there is room; `ShmExtentsExact` is
  about safety and does not ask for more.
- Deaths of processes inside the shared memory containers: the functions leave
  half of an update behind and the code has no recovery for it beyond the lock's.

## What is left

1. A theorem: the order of `ShmIndex`, by the argument of `IndexObjectProofs`.
2. The other shared memory containers step by step over `SharedLock`, with deaths.

Not planned: the rotations of the AVL trees for trees of any size, for which the
bound of 7 nodes stands.
