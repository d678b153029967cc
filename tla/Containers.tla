----------------------------- MODULE Containers -----------------------------
(***************************************************************************)
(* The containers whose functions are single steps, and the event manager  *)
(* and the radix tree with their callbacks, together: a behaviour chooses  *)
(* a component (kind) and is one of that component's module, whose         *)
(* variables it moves; those of the others are Off throughout.  Variables  *)
(* and constants have their modules' names, or longer ones where two       *)
(* modules share a name.                                                   *)
(***************************************************************************)
EXTENDS ListsAndPools

CONSTANTS
  Off,
  NTRIE_ALPHABET_SIZE, RadixKeys, Traversers,  \* RadixTree
  TlvBuffers, TlvTypes, TlvValues, MAX_TLV_VALUE_BYTES,
  Objects, Monitors, Block, BlockSizes, Header, MaxAllocations,
  EventTypes, ALL_OBJECT_TYPES, Registrants, HALF_INT,
  MaxRegistrations, MaxNesting,                \* EventManager
  IndexKeys, MaxSize, MaxReferences,           \* ShmIndex
  Nil, TreeKeys, TreeSize                      \* ShmAvlTree

VARIABLES
  kind,
  radix_flag, node_count, user_data, n_children, current, visit,
  map, starved, alone,
  buffer, idx, remaining_size, n_tlvs, tlvs, written, lost,
  mem_mon_p, bytes_used, allocations, frees, block,
  event_alive, event_flag, registrants, announcing, registered, ordered,
  index_duplicates, elements, index_references,
  tree_duplicates, root, first, last, shm_avl_nodes, free,
  tree_references

radixVars ==
  <<radix_flag, node_count, user_data, n_children, current, visit,
    map, starved, alone>>
tlvVars == <<buffer, idx, remaining_size, n_tlvs, tlvs, written, lost>>
monitorVars == <<mem_mon_p, bytes_used, allocations, frees, block>>
eventVars ==
  <<event_alive, event_flag, registrants, announcing, registered, ordered>>
indexVars == <<index_duplicates, elements, index_references>>
treeVars ==
  <<tree_duplicates, root, first, last, shm_avl_nodes, free,
    tree_references>>

-----------------------------------------------------------------------------
R == INSTANCE RadixTree WITH
       Keys <- RadixKeys, should_not_be_modified <- radix_flag

T == INSTANCE TlvManager WITH
       Buffers <- TlvBuffers, Types <- TlvTypes, Values <- TlvValues

M == INSTANCE MemMonitor WITH Sizes <- BlockSizes

E == INSTANCE EventManager WITH
       Types <- EventTypes,
       alive <- event_alive, should_not_be_modified <- event_flag

I == INSTANCE ShmIndex WITH
       Keys <- IndexKeys, duplicates_allowed <- index_duplicates,
       references <- index_references

V == INSTANCE ShmAvlTree WITH
       Keys <- TreeKeys, Size <- TreeSize,
       duplicates_allowed <- tree_duplicates, references <- tree_references

-----------------------------------------------------------------------------
Init ==
  /\ kind \in {"list", "ordered list", "bit list", "radix tree", "TLVs",
               "buffers", "memory monitor", "events", "shm allocator",
               "shm index", "shm bit list", "shm tree"}
  /\ IF kind = "list" THEN L!Init
     ELSE /\ list_alive = Off /\ list_head = Off /\ tail = Off
          /\ list_n = Off /\ n_max = Off /\ list_node = Off /\ order = Off
  /\ IF kind = "ordered list" THEN O!Init
     ELSE /\ unordered = Off /\ ordered_head = Off /\ ordered_n = Off
          /\ ordered_node = Off /\ sorted = Off
  /\ IF kind = "bit list" THEN B!Init
     ELSE /\ lowest_valid_bit = Off /\ highest_valid_bit = Off
          /\ size_in_ints = Off /\ the_bits = Off /\ bits_set_count = Off
          /\ set = Off
  /\ IF kind = "radix tree" THEN R!Init
     ELSE /\ radix_flag = Off /\ node_count = Off /\ user_data = Off
          /\ n_children = Off /\ current = Off /\ visit = Off /\ map = Off
          /\ starved = Off /\ alone = Off
  /\ IF kind = "TLVs" THEN T!Init
     ELSE /\ buffer = Off /\ idx = Off /\ remaining_size = Off
          /\ n_tlvs = Off /\ tlvs = Off /\ written = Off /\ lost = Off
  /\ IF kind = "buffers" THEN U!Init
     ELSE /\ specified_size = Off /\ pool_head = Off
          /\ size_lookup_table = Off /\ ready = Off /\ given = Off
  /\ IF kind = "memory monitor" THEN M!Init
     ELSE /\ mem_mon_p = Off /\ bytes_used = Off /\ allocations = Off
          /\ frees = Off /\ block = Off
  /\ IF kind = "events" THEN E!Init
     ELSE /\ event_alive = Off /\ event_flag = Off /\ registrants = Off
          /\ announcing = Off /\ registered = Off /\ ordered = Off
  /\ IF kind = "shm allocator" THEN A!Init
     ELSE /\ mcb = Off /\ number_of_blocks = Off /\ mapped = Off
          /\ call = Off /\ allocated = Off /\ overlapped = Off
  /\ IF kind = "shm index" THEN I!Init
     ELSE index_duplicates = Off /\ elements = Off /\ index_references = Off
  /\ IF kind = "shm bit list" THEN S!Init
     ELSE size_in_bits = Off /\ bits = Off /\ shm_n = Off /\ ones = Off
  /\ IF kind = "shm tree" THEN V!Init
     ELSE /\ tree_duplicates = Off /\ root = Off /\ first = Off /\ last = Off
          /\ shm_avl_nodes = Off /\ free = Off /\ tree_references = Off

\* What the step of a component leaves alone.
Others ==
  /\ UNCHANGED kind
  /\ kind # "list" => UNCHANGED listVars
  /\ kind # "ordered list" => UNCHANGED orderedVars
  /\ kind # "bit list" => UNCHANGED bitVars
  /\ kind # "radix tree" => UNCHANGED radixVars
  /\ kind # "TLVs" => UNCHANGED tlvVars
  /\ kind # "buffers" => UNCHANGED bufferVars
  /\ kind # "memory monitor" => UNCHANGED monitorVars
  /\ kind # "events" => UNCHANGED eventVars
  /\ kind # "shm allocator" => UNCHANGED allocatorVars
  /\ kind # "shm index" => UNCHANGED indexVars
  /\ kind # "shm bit list" => UNCHANGED shmBitVars
  /\ kind # "shm tree" => UNCHANGED treeVars

Next ==
  \/ kind = "list" /\ L!Next /\ Others
  \/ kind = "ordered list" /\ O!Next /\ Others
  \/ kind = "bit list" /\ B!Next /\ Others
  \/ kind = "radix tree" /\ R!Next /\ Others
  \/ kind = "TLVs" /\ T!Next /\ Others
  \/ kind = "buffers" /\ U!Next /\ Others
  \/ kind = "memory monitor" /\ M!Next /\ Others
  \/ kind = "events" /\ E!Next /\ Others
  \/ kind = "shm allocator" /\ A!Next /\ Others
  \/ kind = "shm index" /\ I!Next /\ Others
  \/ kind = "shm bit list" /\ S!Next /\ Others
  \/ kind = "shm tree" /\ V!Next /\ Others

vars ==
  <<kind, listVars, orderedVars, bitVars, radixVars, tlvVars,
    bufferVars, monitorVars, eventVars, allocatorVars,
    indexVars, shmBitVars, treeVars>>

Spec == Init /\ [][Next]_vars

-----------------------------------------------------------------------------
\* The links of a list, both ways, and of an ordered list up to its marker
\* are those of the sequence its calls asked for, and no node is lost.
ListsExact ==
  /\ kind = "list" => L!Exact
  /\ kind = "ordered list" => O!Exact

\* Bit lists answer every query for the set of bits asked to be 1.
BitListsExact ==
  /\ kind = "bit list" => B!Exact
  /\ kind = "shm bit list" => S!Exact

\* The radix tree is the map it was asked to be, and prunes what it can.
RadixExact == kind = "radix tree" => R!Exact

\* A traversal of the radix tree, beside searches and modifications and no
\* other traversal, calls the user's function once for each datum with its key.
RadixTraversalComplete == kind = "radix tree" => R!TraversalComplete

\* A parse finds what has been appended to a buffer of TLVs since its start was
\* last written, up to the first triple of a length that it refuses.
TlvRoundTrip == kind = "TLVs" => T!RoundTrip

\* Each buffer is free or has one user, for whom it is large enough, and the
\* smallest that fits is given: but where there is a table, a request of
\* max_size, whose entry lies past it, may be refused with a buffer free.
BuffersExact == kind = "buffers" => U!Exact

\* A monitor counts the blocks charged to it, whichever objects share it.
MemoryCounted == kind = "memory monitor" => M!Exact

\* The event manager knows who has registered for what, as long as addresses
\* have compared in order.
EventRegistered == kind = "events" => E!Registered

\* An announcement calls each registrant once for each registration that
\* matched when it began, unless a callback has changed the lists under it,
\* after one had announced, or addresses have compared out of order.
EventToldAsRegistered == kind = "events" => E!ToldAsRegistered

\* As long as no two of its calls have overlapped, the extents that the shared
\* memory allocator has handed out are disjoint, and its blocks account for
\* every chunk.
ShmExtentsExact == kind = "shm allocator" => A!Exact

\* The index and the tree in shared memory hold the keys put in, in order
\* and with their counts, and the tree's free nodes are the others.
ShmKeysExact ==
  /\ kind = "shm index" => I!Exact
  /\ kind = "shm tree" => V!Exact
=============================================================================
