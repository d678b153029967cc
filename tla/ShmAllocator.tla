---------------------------- MODULE ShmAllocator ----------------------------
(***************************************************************************)
(* The allocator of SHMEM/shared_memory_utils.c: blocks of chunks in       *)
(* shared memory, created one after the other as more is asked for, and in *)
(* each process a table of where it has mapped them.  A call takes the     *)
(* allocator's write lock first and leaves it last, but that lock lets any *)
(* number of writers in (run SharedLockWriters), and here nothing reads:   *)
(* it keeps nobody out and is left out.  So a call is a step per block it  *)
(* searches and a step for each update, and those of several processes may *)
(* overlap; what they make of the blocks then is finer-grained than this.  *)
(* A process makes one call at a time.  One that cannot map a block exits. *)
(***************************************************************************)
EXTENDS Integers, SequencesExt, FiniteSetsExt

CONSTANTS
  Process,
  MALLOC_CHUNK_SIZE, MALLOC_MAX_CHUNKS, MAX_HEAP_CONTROL_BLOCKS,
  ADMIN_SIZE,     \* sizeof(free_admin_info_t)
  Sizes           \* sizes asked for, in bytes

ConstantsOK ==
  /\ {MALLOC_CHUNK_SIZE, MALLOC_MAX_CHUNKS, MAX_HEAP_CONTROL_BLOCKS,
      ADMIN_SIZE} \subseteq Nat \ {0}
  /\ ADMIN_SIZE <= MALLOC_CHUNK_SIZE
  /\ Sizes \subseteq Nat

VARIABLES
  mcb,              \* the mempool_control_blocks that exist
  number_of_blocks, \* how many have been created, as the mempool counts them
  mapped,           \* mapped[p]: local number_of_blocks of p, -1 before it attaches
  call,             \* call[p]: how far the call that p is in has come
  allocated,        \* history: the extents handed out and not freed
  overlapped        \* history: a call began while another process was in one

vars == <<mcb, number_of_blocks, mapped, call, allocated, overlapped>>

Chunks == 0..MALLOC_MAX_CHUNKS - 1
Unattached == -1

Out == [at |-> "out", howmany |-> 0, block |-> 0, start |-> 0]

Init ==
  /\ mcb = <<>> /\ number_of_blocks = 0
  /\ mapped = [p \in Process |-> Unattached]
  /\ call = [p \in Process |-> Out]
  /\ allocated = {} /\ overlapped = FALSE

\* shm_allocator_attach; the one who creates it is the first.
shm_allocator_init(p) ==
  /\ mapped[p] = Unattached
  /\ mapped' = [mapped EXCEPT ![p] = 0]
  /\ UNCHANGED <<mcb, number_of_blocks, call, allocated, overlapped>>

MAX_MALLOCABLE_SIZE == MALLOC_MAX_CHUNKS * MALLOC_CHUNK_SIZE - ADMIN_SIZE

\* mcb_init_data
NewBlock == [first_free_chunk_index |-> 0,
             free_chunks_left |-> MALLOC_MAX_CHUNKS,
             freelist |-> Chunks,
             admin |-> <<>>]

\* What mcb_malloc needs for a size that includes the administration.
ChunksFor(size) ==
  size \div MALLOC_CHUNK_SIZE + (IF size % MALLOC_CHUNK_SIZE = 0 THEN 0 ELSE 1)

\* find_consecutive_free_chunks: the first run of that many free chunks from
\* first_free_chunk_index on, none is -1.
FindConsecutive(m, howmany) ==
  LET runs == {first \in m.first_free_chunk_index..MALLOC_MAX_CHUNKS - howmany :
                 first..first + howmany - 1 \subseteq m.freelist}
  IN IF runs = {} THEN -1 ELSE Min(runs)

Serves(m, howmany) ==
  m.free_chunks_left >= howmany /\ FindConsecutive(m, howmany) >= 0

\* mcb_malloc from mark_chunks on: the administration is in the first chunk.
Malloc(m, start, howmany) ==
  [m EXCEPT !.freelist = @ \ (start..start + howmany - 1),
            !.free_chunks_left = @ - howmany,
            !.first_free_chunk_index = @ + howmany,
            !.admin = [i \in DOMAIN @ \cup {start} |->
                         IF i = start THEN howmany ELSE @[i]]]

Extent(c) == [block |-> c.block, start |-> c.start, chunks |-> c.howmany]

\* A call maps the blocks created since the last of its process, as
\* map_unmapped_mcbs does.  No call begins once two have overlapped, which
\* bounds what they go on to do to each other.
Begins(p, c) ==
  /\ mapped[p] # Unattached /\ call[p] = Out /\ ~overlapped
  /\ mapped' = [mapped EXCEPT ![p] = number_of_blocks]
  /\ call' = [call EXCEPT ![p] = c]
  /\ overlapped' = (\E q \in Process : call[q] # Out)
  /\ UNCHANGED <<mcb, number_of_blocks, allocated>>

\* shm_alloc for a legal size, which goes on to search the blocks in order.
shm_alloc(p, size) ==
  /\ 0 < size /\ size <= MAX_MALLOCABLE_SIZE
  /\ Begins(p, [at |-> "search", howmany |-> ChunksFor(size + ADMIN_SIZE),
                block |-> 1, start |-> 0])

\* mcb_malloc up to what find_consecutive_free_chunks returns.  Only in a new
\* block that another process filled meanwhile does it find none at last.
mcb_search(p) ==
  LET c == call[p]
      m == mcb[c.block]
  IN
  /\ \/ c.at = "search" /\ c.block <= mapped[p]
     \/ c.at = "new"
  /\ call' = [call EXCEPT ![p] =
                IF Serves(m, c.howmany)
                  THEN [c EXCEPT !.at = "take",
                                 !.start = FindConsecutive(m, c.howmany)]
                ELSE IF c.at = "search" THEN [c EXCEPT !.block = @ + 1]
                ELSE Out]
  /\ UNCHANGED <<mcb, number_of_blocks, mapped, allocated, overlapped>>

\* mcb_malloc from there on, and the end of shm_alloc.
mcb_take(p) ==
  LET c == call[p] IN
  /\ c.at = "take"
  /\ mcb' = [mcb EXCEPT ![c.block] = Malloc(@, c.start, c.howmany)]
  /\ allocated' = allocated \cup {Extent(c)}
  /\ call' = [call EXCEPT ![p] = Out]
  /\ UNCHANGED <<number_of_blocks, mapped, overlapped>>

\* generic_map_mcb, where no block has served and one more is allowed.  One
\* that another process has just created under the same name is cleared.
create_mcb(p) ==
  LET b == call[p].block IN
  /\ call[p].at = "search" /\ b > mapped[p] /\ b <= MAX_HEAP_CONTROL_BLOCKS
  /\ mcb' = IF b \in DOMAIN mcb THEN [mcb EXCEPT ![b] = NewBlock]
                                 ELSE Append(mcb, NewBlock)
  /\ number_of_blocks' = number_of_blocks + 1
  /\ mapped' = [mapped EXCEPT ![p] = @ + 1]
  /\ call' = [call EXCEPT ![p].at = "new"]
  /\ UNCHANGED <<allocated, overlapped>>

\* shm_alloc returns NULL: reached end of mappable blocks.
no_more_blocks(p) ==
  LET b == call[p].block IN
  /\ call[p].at = "search" /\ b > mapped[p] /\ b > MAX_HEAP_CONTROL_BLOCKS
  /\ call' = [call EXCEPT ![p] = Out]
  /\ UNCHANGED <<mcb, number_of_blocks, mapped, allocated, overlapped>>

\* shm_addr2addr, for the address of an extent some process was given.  It
\* reads the count of blocks and nothing that another call is about to write.
shm_addr2addr(p) ==
  /\ mapped[p] # Unattached /\ call[p] = Out /\ ~overlapped
  /\ allocated # {}
  /\ mapped' = [mapped EXCEPT ![p] = number_of_blocks]
  /\ UNCHANGED <<mcb, number_of_blocks, call, allocated, overlapped>>

\* Mutant: one chunk of several stays marked as used.
FreedOneLess(m, start, number_chunks) ==
  [m EXCEPT !.free_chunks_left = @ + number_chunks,
            !.freelist = @ \cup (start..start + number_chunks - 2),
            !.first_free_chunk_index = Min({@, start}),
            !.admin = Restrict(@, DOMAIN @ \ {start})]

\* The administration is cleared with the extent's memory.
Freed(m, start, number_chunks) ==
  [m EXCEPT !.free_chunks_left = @ + number_chunks,
            !.freelist = @ \cup (start..start + number_chunks - 1),
            !.first_free_chunk_index = Min({@, start}),
            !.admin = Restrict(@, DOMAIN @ \ {start})]

\* shm_free, up to what it reads of the administration.  An extent is freed
\* once.  shm_address_free is shm_addr2addr and then this.
shm_free(p, e) ==
  LET c == [at |-> "free", howmany |-> mcb[e.block].admin[e.start],
            block |-> e.block, start |-> e.start]
  IN /\ \A q \in Process : call[q] # c
     /\ Begins(p, c)

\* shm_free from there on.
mcb_free(p) ==
  LET c == call[p] IN
  /\ c.at = "free"
  /\ mcb' = [mcb EXCEPT ![c.block] = Freed(@, c.start, c.howmany)]
  /\ allocated' = allocated \ {Extent(c)}
  /\ call' = [call EXCEPT ![p] = Out]
  /\ UNCHANGED <<number_of_blocks, mapped, overlapped>>

Next ==
  \E p \in Process :
    \/ shm_allocator_init(p) \/ shm_addr2addr(p)
    \/ \E size \in Sizes : shm_alloc(p, size)
    \/ mcb_search(p) \/ mcb_take(p) \/ create_mcb(p) \/ no_more_blocks(p)
    \/ ~overlapped /\ \E e \in allocated : shm_free(p, e)
    \/ mcb_free(p)

Spec == Init /\ [][Next]_vars

-----------------------------------------------------------------------------
ChunksOf(e) == e.start..e.start + e.chunks - 1

\* As long as no call has overlapped another: the extents handed out, by
\* whichever process, lie within their blocks and share no chunk; a chunk is
\* free exactly when no extent has it; and what a block counts and remembers
\* of its extents is right.
Exact ==
  ~overlapped =>
    /\ \A e \in allocated : e.block \in DOMAIN mcb /\ ChunksOf(e) \subseteq Chunks
    /\ \A b \in DOMAIN mcb :
         LET here == {e \in allocated : e.block = b} IN
         /\ \A e, f \in here : e # f => ChunksOf(e) \cap ChunksOf(f) = {}
         /\ mcb[b].freelist = Chunks \ UNION {ChunksOf(e) : e \in here}
         /\ mcb[b].free_chunks_left = Cardinality(mcb[b].freelist)
         /\ \A e \in here : mcb[b].admin[e.start] = e.chunks
    /\ \A p \in Process : mapped[p] <= Len(mcb)
=============================================================================
