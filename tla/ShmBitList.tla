----------------------------- MODULE ShmBitList -----------------------------
(***************************************************************************)
(* The bit list of SHMEM/shared_memory_utils.c.  A word is the set of its  *)
(* bits that are 1.  A call holds the list's lock throughout, so it is one *)
(* step; a bit that is out of range is refused and changes nothing.        *)
(***************************************************************************)
EXTENDS Integers, SequencesExt

CONSTANTS
  BITS_PER_INT,
  DesiredSizes   \* desired_size_in_bits as given to shm_bitlist_init

ConstantsOK == BITS_PER_INT \in Nat \ {0} /\ DesiredSizes \subseteq Nat

VARIABLES
  size_in_bits, bits, n,
  ones            \* history: the bits set and not cleared since

vars == <<size_in_bits, bits, n, ones>>

\* INTS_FOR_BITS: one int more than the whole ones.
size_in_ints == size_in_bits \div BITS_PER_INT + 1

\* shm_bitlist_init
Init ==
  /\ size_in_bits \in DesiredSizes
  /\ bits = [i \in 0..size_in_ints - 1 |-> {}]
  /\ n = 0
  /\ ones = {}

InRange(b) == 0 <= b /\ b < size_in_bits

get_bit_value(b) == (b % BITS_PER_INT) \in bits[b \div BITS_PER_INT]

shm_bitlist_set_bit(b) ==
  /\ InRange(b)
  /\ bits' = [bits EXCEPT ![b \div BITS_PER_INT] = @ \cup {b % BITS_PER_INT}]
  /\ n' = IF get_bit_value(b) THEN n ELSE n + 1
  /\ ones' = ones \cup {b}
  /\ UNCHANGED size_in_bits

\* Mutant: the bit is cleared and not counted.
ClearKeepsCount(b) ==
  /\ InRange(b)
  /\ bits' = [bits EXCEPT ![b \div BITS_PER_INT] = @ \ {b % BITS_PER_INT}]
  /\ ones' = ones \ {b}
  /\ UNCHANGED <<size_in_bits, n>>

shm_bitlist_clear_bit(b) ==
  /\ InRange(b)
  /\ bits' = [bits EXCEPT ![b \div BITS_PER_INT] = @ \ {b % BITS_PER_INT}]
  /\ n' = IF get_bit_value(b) THEN n - 1 ELSE n
  /\ ones' = ones \ {b}
  /\ UNCHANGED size_in_bits

shm_bitlist_reset ==
  /\ bits' = [i \in DOMAIN bits |-> {}]
  /\ n' = 0
  /\ ones' = {}
  /\ UNCHANGED size_in_bits

\* The bits of a word from the lowest up, as ffs takes them out of value.
Ascending(S) ==
  CHOOSE s \in [1..Cardinality(S) -> S] :
    \A i, j \in 1..Cardinality(S) : i < j => s[i] < s[j]

\* shm_bitlist_collect_ones, asked for howmany > 0: the walk stops after as
\* many as were asked for, and after n.
shm_bitlist_collect_ones(howmany) ==
  LET ofWord == [i \in 1..size_in_ints |->
                   LET positions == Ascending(bits[i - 1])
                   IN [j \in DOMAIN positions |->
                         (i - 1) * BITS_PER_INT + positions[j]]]
      walk == FlattenSeq(ofWord)
  IN IF n <= 0 THEN <<>>
     ELSE SubSeq(walk, 1, Min({howmany, n, Len(walk)}))

Next ==
  \/ shm_bitlist_reset
  \/ \E b \in -1..size_in_bits :
       shm_bitlist_set_bit(b) \/ shm_bitlist_clear_bit(b)

Spec == Init /\ [][Next]_vars

-----------------------------------------------------------------------------
\* Each bit reads as it was last written, and however many are asked for the
\* collection gives the lowest that are set, in order, and as many as there
\* are: n, which cuts it short, has to be right for that.
Exact ==
  /\ \A b \in 0..size_in_bits - 1 : get_bit_value(b) <=> b \in ones
  /\ n = Cardinality(ones)
  /\ \A howmany \in 1..size_in_bits :
       shm_bitlist_collect_ones(howmany) =
         SubSeq(Ascending(ones), 1, Min({howmany, Cardinality(ones)}))
=============================================================================
