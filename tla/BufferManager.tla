--------------------------- MODULE BufferManager ----------------------------
(***************************************************************************)
(* buffer_manager.c: pools of buffers of increasing sizes, each with a     *)
(* list of its free buffers, and a table from a size to the first pool     *)
(* that has it.  One function is one step (List says why).  The blocks of  *)
(* the pools and the table may each fail to be allocated at the start: a   *)
(* pool is then left with size 0 and no buffers.                           *)
(***************************************************************************)
EXTENDS Integers, SequencesExt

CONSTANTS
  Sizes, Counts   \* the tuples given to buffer_manager_initialize, in order

num_pools == Len(Sizes)
ConstantsOK ==
  /\ Len(Counts) = num_pools /\ num_pools > 0
  /\ \A p \in 1..num_pools : /\ Counts[p] \in Nat \ {0} /\ Sizes[p] \in Nat \ {0}
                             /\ p > 1 => Sizes[p] > Sizes[p - 1]

Pools == 1..num_pools
max_size == Sizes[num_pools]
Requests == 0..max_size
Buffers(p) == {<<p, i>> : i \in 1..Counts[p]}

VARIABLES
  specified_size, head,   \* of each pool; head is the list of free buffers
  size_lookup_table,      \* without an entry where nothing was written
  ready,                  \* initialised and not destroyed
  given                   \* history: buffers handed out, <<buffer, size>>

vars == <<specified_size, head, size_lookup_table, ready, given>>

NoTable == <<>>

\* buffer_manager_lookup_table_init: up to the size of each pool in turn.
Table(sizes) ==
  LET Fits(i) == {p \in Pools : i <= sizes[p]}
  IN [i \in {i \in Requests : Fits(i) # {}} |-> Min(Fits(i))]

\* buffer_manager_initialize, when the blocks of the pools in failed and
\* perhaps the table find no memory.
Initialised(sizes, heads, table) ==
  \E failed \in SUBSET Pools :
    /\ sizes = [p \in Pools |-> IF p \in failed THEN 0 ELSE Sizes[p]]
    /\ heads = [p \in Pools |-> IF p \in failed THEN <<>>
                                ELSE [i \in 1..Counts[p] |-> <<p, i>>]]
    /\ table \in {NoTable, Table(sizes)}

Init ==
  /\ Initialised(specified_size, head, size_lookup_table)
  /\ ready = TRUE /\ given = {}

\* Where the search for a pool starts.  An entry that was not written is any
\* byte, and the table has no room for the one of max_size, which it reads
\* and writes all the same: another's byte.
Starts(size) ==
  IF size_lookup_table = NoTable THEN {1}
  ELSE IF size = max_size \/ size \notin DOMAIN size_lookup_table
       THEN 1..(num_pools + 1)
       ELSE {size_lookup_table[size]}

\* Mutant: whether the buffers are large enough is left to the table.
ServingTrustsTable(size, start) ==
  {p \in start..num_pools : head[p] # <<>>}

\* The pools from start on that can serve the request; the first one does.
Serving(size, start) ==
  {p \in start..num_pools : size <= specified_size[p] /\ head[p] # <<>>}

buffer_allocate(size) ==
  /\ ready
  /\ \E start \in Starts(size) :
       /\ Serving(size, start) # {}
       /\ LET p == Min(Serving(size, start))
          IN /\ head' = [head EXCEPT ![p] = Tail(@)]
             /\ given' = given \cup {<<Head(head[p]), size>>}
  /\ UNCHANGED <<specified_size, size_lookup_table, ready>>

\* Back to the pool its header names, by the user who has it.
buffer_free(bufp) ==
  /\ bufp \in given
  /\ LET p == bufp[1][1]
     IN head' = [head EXCEPT ![p] = <<bufp[1]>> \o @]
  /\ given' = given \ {bufp}
  /\ UNCHANGED <<specified_size, size_lookup_table, ready>>

\* The blocks are freed with the buffers still in users' hands.
buffer_manager_destroy ==
  /\ ready
  /\ ready' = FALSE
  /\ specified_size' = [p \in Pools |-> 0] /\ head' = [p \in Pools |-> <<>>]
  /\ size_lookup_table' = NoTable /\ given' = {}

buffer_manager_initialize ==
  /\ ~ready
  /\ ready' = TRUE
  /\ Initialised(specified_size', head', size_lookup_table')
  /\ UNCHANGED given

Next ==
  \/ buffer_manager_destroy \/ buffer_manager_initialize
  \/ \E size \in Requests : buffer_allocate(size)
  \/ \E bufp \in given : buffer_free(bufp)

Spec == Init /\ [][Next]_vars

-----------------------------------------------------------------------------
\* Every buffer of a pool is either in its free list, once, or with one
\* user, who asked for no more than it holds; and a request fails only when no
\* buffer that is large enough is free, and takes one of the smallest size
\* there is: but where there is a table, nothing of this is said of a request
\* of max_size, whose entry lies past the table.
Exact ==
  /\ \A p \in Pools :
       LET out == {bufp \in given : bufp[1][1] = p}
       IN /\ IsInjective(head[p])
          /\ \A bufp \in out : /\ bufp[2] <= specified_size[p]
                               /\ bufp[1] \notin ToSet(head[p])
          /\ specified_size[p] > 0 =>
               /\ ToSet(head[p]) \cup {bufp[1] : bufp \in out} = Buffers(p)
               /\ Cardinality(out) + Len(head[p]) = Counts[p]
  /\ \A size \in Requests : size # max_size \/ size_lookup_table = NoTable =>
       \A start \in Starts(size) : Serving(size, start) = Serving(size, 1)
=============================================================================
