---------------------------- MODULE ListsAndPools ---------------------------
(***************************************************************************)
(* The containers that are lists of their members: the linked list and the *)
(* ordered list, the buffer manager, whose pools are lists of the buffers  *)
(* that are free, the allocator in shared memory, whose blocks list their  *)
(* free chunks, and the bit lists.  Containers adds the others.            *)
(***************************************************************************)
EXTENDS Integers

CONSTANTS
  Node, Null, Data, Limits, OrderedData,       \* List, OrderedList
  PoolSizes, PoolCounts,                       \* BufferManager
  Process, MALLOC_CHUNK_SIZE, MALLOC_MAX_CHUNKS,
  MAX_HEAP_CONTROL_BLOCKS, ADMIN_SIZE, MallocSizes,
  BITS_PER_INT, Ranges,                        \* BitList
  WordBits, DesiredSizes                       \* ShmBitList

VARIABLES
  list_alive, list_head, tail, list_n, n_max, list_node, order,
  unordered, ordered_head, ordered_n, ordered_node, sorted,
  specified_size, pool_head, size_lookup_table, ready, given,
  mcb, number_of_blocks, mapped, call, allocated, overlapped,
  lowest_valid_bit, highest_valid_bit, size_in_ints, the_bits,
  bits_set_count, set,
  size_in_bits, bits, shm_n, ones

listVars == <<list_alive, list_head, tail, list_n, n_max, list_node, order>>
orderedVars == <<unordered, ordered_head, ordered_n, ordered_node, sorted>>
bufferVars == <<specified_size, pool_head, size_lookup_table, ready, given>>
allocatorVars ==
  <<mcb, number_of_blocks, mapped, call, allocated, overlapped>>
bitVars ==
  <<lowest_valid_bit, highest_valid_bit, size_in_ints, the_bits,
    bits_set_count, set>>
shmBitVars == <<size_in_bits, bits, shm_n, ones>>

-----------------------------------------------------------------------------
L == INSTANCE List WITH
       alive <- list_alive, head <- list_head, n <- list_n, node <- list_node

O == INSTANCE OrderedList WITH
       Data <- OrderedData, head <- ordered_head, n <- ordered_n,
       node <- ordered_node

U == INSTANCE BufferManager WITH
       Sizes <- PoolSizes, Counts <- PoolCounts, head <- pool_head

A == INSTANCE ShmAllocator WITH Sizes <- MallocSizes

B == INSTANCE BitList

S == INSTANCE ShmBitList WITH BITS_PER_INT <- WordBits, n <- shm_n
=============================================================================
