---------------------------- MODULE DynamicArray ----------------------------
(***************************************************************************)
(* dynamic_array_object.c: an array of pointers indexed from lowest to     *)
(* highest, which grows in both directions to where something is inserted. *)
(* One function is one step (List says why).  The heap is modelled, since  *)
(* growing is a question of which block is freed and how large the other   *)
(* one is.                                                                 *)
(***************************************************************************)
EXTENDS Integers, TLC

CONSTANTS
  Block,          \* addresses MEM_MONITOR_ZALLOC may return
  Null,
  Data,           \* user pointers
  Reach,          \* bound: how far the callers' indexes go beyond the array's
  InitialSize,    \* initial_size given to dynamic_array_init
  PointerSize     \* sizeof(void*)

VARIABLES
  lowest, highest, elements,   \* fields of dynamic_array_t
  heap,                        \* the allocated blocks and their bytes
  cell                         \* what was last stored at each index

Indexes == -Reach..(InitialSize - 1 + Reach)

vars == <<lowest, highest, elements, heap, cell>>

\* dynamic_array_init, with memory and a legal size.
Init ==
  /\ lowest = 0 /\ highest = InitialSize - 1
  /\ elements \in Block
  /\ heap = elements :> InitialSize * PointerSize
  /\ cell = [i \in 0..(InitialSize - 1) |-> Null]

\* The new block has a byte, not a pointer, for each of its elements.
With(new, size) == heap @@ (new :> size)
Without(b, h) == [a \in DOMAIN h \ {b} |-> h[a]]

\* dynamic_array_grow_negative: elements already names the new block when
\* it is freed.
GrowNegative(new, index) ==
  /\ new \notin DOMAIN heap
  /\ elements' = new /\ lowest' = index
  /\ heap' = Without(elements', With(new, highest - index + 1))
  /\ UNCHANGED highest

GrowPositive(new, index) ==
  /\ new \notin DOMAIN heap
  /\ elements' = new /\ highest' = index
  /\ heap' = Without(elements, With(new, index - lowest + 1))
  /\ UNCHANGED lowest

\* Both fill the indexes they add with zeros and copy the others.
dynamic_array_insert(index, d) ==
  /\ IF index < lowest THEN \E new \in Block : GrowNegative(new, index)
     ELSE IF index > highest THEN \E new \in Block : GrowPositive(new, index)
     ELSE UNCHANGED <<lowest, highest, elements, heap>>
  /\ cell' = [i \in lowest'..highest' |->
                IF i = index THEN d ELSE IF i \in DOMAIN cell THEN cell[i] ELSE Null]

dynamic_array_delete(index) ==
  /\ index \in lowest..highest
  /\ cell' = [cell EXCEPT ![index] = Null]
  /\ UNCHANGED <<lowest, highest, elements, heap>>

Next == \E i \in Indexes :
          \/ dynamic_array_delete(i)
          \/ \E d \in Data : dynamic_array_insert(i, d)

Spec == Init /\ [][Next]_vars

-----------------------------------------------------------------------------
\* dynamic_array_object.h:36, "the array adjusts to the specified indexes and
\* enlarges itself": what it reads and writes is a block that it has, with
\* room for every index.
ElementsOwned ==
  /\ elements \in DOMAIN heap
  /\ heap[elements] >= (highest - lowest + 1) * PointerSize
=============================================================================
