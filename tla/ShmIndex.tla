------------------------------ MODULE ShmIndex ------------------------------
(***************************************************************************)
(* The index object of SHMEM/shared_memory_utils.c: a sorted array of data *)
(* with a reference count each, found by binary search.  A call holds the  *)
(* index's lock throughout, so it is one step; one that fails (not there,  *)
(* no room) changes nothing and is none.  A datum is its key.              *)
(***************************************************************************)
EXTENDS Integers, SequencesExt

CONSTANTS
  Keys,
  MaxSize,         \* max_size as given to shm_indxobj_init
  MaxReferences    \* bound: references to a key

ConstantsOK == Keys \subseteq Int /\ MaxSize \in Nat

VARIABLES
  duplicates_allowed,
  elements,      \* the first n nodes: data and refcount
  references     \* history: how often each key is in the index

vars == <<duplicates_allowed, elements, references>>

None == [k \in Keys |-> 0]

\* shm_indxobj_init
Init ==
  /\ duplicates_allowed \in BOOLEAN
  /\ elements = <<>>
  /\ references = None

\* The binary search from 0 on: where it ends and how the key compares there.
\* The nodes are numbered from 0, as in the code.
Elem(i) == elements[i + 1]

Search(k) ==
  LET between[lo \in 0..Len(elements), hi \in -1..Len(elements) - 1] ==
        LET mid == (lo + hi) \div 2
            data == Elem(mid).data
        IN CASE k = data -> [found |-> TRUE, at |-> mid]
             [] k > data /\ mid < hi -> between[mid + 1, hi]
             [] k < data /\ lo < mid -> between[lo, mid - 1]
             [] k > data /\ mid >= hi -> [found |-> FALSE, at |-> mid + 1]
             [] k < data /\ lo >= mid -> [found |-> FALSE, at |-> mid]
  IN IF elements = <<>> THEN [found |-> FALSE, at |-> 0]
     ELSE between[0, Len(elements) - 1]

\* Mutant: the key goes behind the node where the search ended.
InsertBehind(k) ==
  LET found == Search(k)
      new == [data |-> k, refcount |-> 1]
  IN
  /\ ~found.found /\ Len(elements) < MaxSize
  /\ elements' = InsertAt(elements, Min({found.at + 2, Len(elements) + 1}), new)
  /\ references' = [references EXCEPT ![k] = 1]
  /\ UNCHANGED duplicates_allowed

\* shm_indxobj_insert of a key that is not there.
InsertNew(k) ==
  LET found == Search(k)
      new == [data |-> k, refcount |-> 1]
  IN
  /\ ~found.found /\ Len(elements) < MaxSize
  /\ elements' = InsertAt(elements, found.at + 1, new)
  /\ references' = [references EXCEPT ![k] = 1]
  /\ UNCHANGED duplicates_allowed

\* shm_indxobj_insert of a key that is, which counts where it is allowed.
InsertAgain(k) ==
  LET found == Search(k) IN
  /\ found.found /\ duplicates_allowed
  /\ references[k] < MaxReferences
  /\ elements' = [elements EXCEPT ![found.at + 1].refcount = @ + 1]
  /\ references' = [references EXCEPT ![k] = @ + 1]
  /\ UNCHANGED duplicates_allowed

\* shm_indxobj_remove: the node goes with the last reference.
shm_indxobj_remove(k, how_many_to_remove) ==
  LET found == Search(k)
      count == Elem(found.at).refcount
      removed == Min({count, how_many_to_remove})
  IN
  /\ found.found
  /\ elements' = IF removed < count
                 THEN [elements EXCEPT ![found.at + 1].refcount = @ - removed]
                 ELSE RemoveAt(elements, found.at + 1)
  /\ references' = [references EXCEPT ![k] = Max({0, @ - how_many_to_remove})]
  /\ UNCHANGED duplicates_allowed

\* Takes the last key out, with all references to it.
shm_indxobj_end_pop ==
  /\ elements # <<>>
  /\ elements' = Front(elements)
  /\ references' = [references EXCEPT
       ![Max({k \in Keys : references[k] > 0})] = 0]
  /\ UNCHANGED duplicates_allowed

shm_indxobj_reset ==
  /\ elements' = <<>>
  /\ references' = None
  /\ UNCHANGED duplicates_allowed

Next ==
  \/ shm_indxobj_end_pop \/ shm_indxobj_reset
  \/ \E k \in Keys : \/ InsertNew(k) \/ InsertAgain(k)
                     \/ \E many \in 1..MaxReferences :
                          shm_indxobj_remove(k, many)

Spec == Init /\ [][Next]_vars

-----------------------------------------------------------------------------
\* The nodes are the keys that are referred to, in order and each once, with
\* the right counts, so that a search finds exactly these keys.
Exact ==
  /\ \A i, j \in DOMAIN elements :
       i < j => elements[i].data < elements[j].data
  /\ \A k \in Keys :
       LET found == Search(k) IN
       /\ found.found <=> references[k] > 0
       /\ found.found => Elem(found.at) =
                           [data |-> k, refcount |-> references[k]]
  /\ Len(elements) <= MaxSize
=============================================================================
