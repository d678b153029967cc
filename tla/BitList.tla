------------------------------ MODULE BitList -------------------------------
(***************************************************************************)
(* bitlist_object.c: bits numbered from lowest_valid_bit on, kept in words *)
(* of BITS_PER_INT bits with one or two words to spare.  One function is   *)
(* one step (List says why); a word is the set of its bits that are 1.     *)
(***************************************************************************)
EXTENDS Integers, FiniteSetsExt

CONSTANTS
  BITS_PER_INT,
  Ranges       \* <<lowest_valid_bit, highest_valid_bit>> as given to init

ConstantsOK ==
  /\ BITS_PER_INT \in Nat \ {0}
  /\ \A b \in Ranges : b[1] \in Int /\ b[2] \in Int /\ b[1] <= b[2]

VARIABLES
  lowest_valid_bit, highest_valid_bit, size_in_ints,
  the_bits, bits_set_count,
  set       \* history: the bits asked to be 1

bounds == <<lowest_valid_bit, highest_valid_bit, size_in_ints>>
vars == <<bounds, the_bits, bits_set_count, set>>

ALL_ONES == 0..(BITS_PER_INT - 1)
Valid == lowest_valid_bit..highest_valid_bit

\* bitlist_init: every bit of every word is 1, or none.
Fill(b, ones) ==
  /\ lowest_valid_bit = b[1] /\ highest_valid_bit = b[2]
  /\ size_in_ints = (b[2] - b[1] + 1) \div BITS_PER_INT + 2
  /\ the_bits = [i \in 0..(size_in_ints - 1) |-> IF ones THEN ALL_ONES ELSE {}]
  /\ bits_set_count = IF ones THEN b[2] - b[1] + 1 ELSE 0
  /\ set = IF ones THEN Valid ELSE {}

Init == \E b \in Ranges, ones \in BOOLEAN : Fill(b, ones)

\* bit_number >> BITS_TO_INT_SHIFT, and MODULO(bit_number), of bit b.
Word(b) == (b - lowest_valid_bit) \div BITS_PER_INT
Bit(b) == (b - lowest_valid_bit) % BITS_PER_INT

\* thread_unsafe_bitlist_get, within the bounds.
Get(b) == Bit(b) \in the_bits[Word(b)]

\* Mutant: a bit that is already 1 is counted again.
SetCountsAgain(b) ==
  /\ b \in Valid
  /\ the_bits' = [the_bits EXCEPT ![Word(b)] = @ \cup {Bit(b)}]
  /\ bits_set_count' = bits_set_count + 1
  /\ set' = set \cup {b}
  /\ UNCHANGED bounds

bitlist_set(b) ==
  /\ b \in Valid
  /\ the_bits' = [the_bits EXCEPT ![Word(b)] = @ \cup {Bit(b)}]
  /\ bits_set_count' = bits_set_count + (IF Get(b) THEN 0 ELSE 1)
  /\ set' = set \cup {b}
  /\ UNCHANGED bounds

bitlist_clear(b) ==
  /\ b \in Valid
  /\ the_bits' = [the_bits EXCEPT ![Word(b)] = @ \ {Bit(b)}]
  /\ bits_set_count' = bits_set_count - (IF Get(b) THEN 1 ELSE 0)
  /\ set' = set \ {b}
  /\ UNCHANGED bounds

\* bitlist_first_set_bit and bitlist_first_clear_bit: the lowest word that
\* has one, and the lowest in it; {} stands for ENODATA, which is also the
\* answer when the lowest is one of the spare bits.
FirstOf(has) ==
  LET words == {i \in 0..(size_in_ints - 1) : has[i] # {}}
      i == Min(words)
      first == Min(has[i]) + i * BITS_PER_INT + lowest_valid_bit
  IN IF words = {} \/ first > highest_valid_bit THEN {} ELSE {first}

bitlist_first_set_bit == FirstOf(the_bits)
bitlist_first_clear_bit ==
  FirstOf([i \in 0..(size_in_ints - 1) |-> ALL_ONES \ the_bits[i]])

Next == \E b \in Valid : bitlist_set(b) \/ bitlist_clear(b)

Spec == Init /\ [][Next]_vars

-----------------------------------------------------------------------------
\* What min is of the bits in S, and none of an empty set.
Lowest(S) == IF S = {} THEN {} ELSE {Min(S)}

\* Every query answers for the set of bits asked for: each single bit, the
\* count, and the first one set and the first one clear, in whatever word
\* and however many spare bits follow.
Exact ==
  /\ \A b \in Valid : Get(b) <=> b \in set
  /\ bits_set_count = Cardinality(set)
  /\ bitlist_first_set_bit = Lowest(set)
  /\ bitlist_first_clear_bit = Lowest(Valid \ set)
=============================================================================
