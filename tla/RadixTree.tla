----------------------------- MODULE RadixTree ------------------------------
(***************************************************************************)
(* radix_tree_object.c: a trie of nibbles.  A key is a sequence of bytes,  *)
(* a byte its low and its high nibble, a node the nibbles that lead to it; *)
(* the root is <<>>.  Searches and modifications run under the lock and    *)
(* are one step (List says why).  The traversal writes its counter into    *)
(* the nodes under the read lock, and it tests and sets                    *)
(* should_not_be_modified before it takes that lock: it goes step by step, *)
(* beside searches, the other threads' modifications and, since two can    *)
(* pass the test before either sets the flag, other traversals, though     *)
(* its comment has those kept out.  They share the counters and lead each  *)
(* other astray: what a traversal calls is recorded, and claimed, where no *)
(* other has run beside it (alone).                                        *)
(*                                                                         *)
(* radix_tree_node_find follows a null pointer when the low nibble of a    *)
(* byte has no node (its comment says "this wont happen"), so a key is     *)
(* looked for only where that does not happen (Followed).                  *)
(***************************************************************************)
EXTENDS Integers, SequencesExt

CONSTANTS
  NTRIE_ALPHABET_SIZE,
  Keys,          \* what the callers store under: nibbles, an even number
  Data,          \* user pointers
  Null,
  Traversers     \* threads that traverse

\* A nibble of one bit, keys of whole bytes, and no null pointer stored.
ConstantsOK ==
  /\ NTRIE_ALPHABET_SIZE = 2
  /\ \A k \in Keys : k \in Seq({0, 1}) /\ Len(k) > 0 /\ Len(k) % 2 = 0
  /\ Null \notin Data

VARIABLES
  should_not_be_modified, node_count,   \* fields of radix_tree_t
  user_data, n_children, current,       \* of the nodes that are allocated
  visit,     \* visit[t]: where thread t's traversal is, and its locals
  map,       \* history: what is stored under each key
  starved,   \* history: an insertion ran out of memory
  alone      \* history: who traverses, since its test, with no other

tree == <<node_count, user_data, n_children>>
vars == <<should_not_be_modified, tree, current, visit, map, starved, alone>>

Nodes == DOMAIN user_data
Away == [at |-> "out", node |-> <<>>, key |-> <<>>, failed |-> FALSE, seen |-> <<>>]

\* radix_tree_init leaves the flag as the memory was.
Init ==
  /\ should_not_be_modified \in BOOLEAN /\ node_count = 0
  /\ user_data = [x \in {<<>>} |-> Null]
  /\ n_children = [x \in {<<>>} |-> 0] /\ current = [x \in {<<>>} |-> 0]
  /\ visit = [t \in Traversers |-> Away]
  /\ map = [k \in Keys |-> Null]
  /\ starved = FALSE /\ alone = {}

\* The read lock is held from the first to the last turn of a traversal.
NoReader == \A t \in Traversers : visit[t].at # "loop"
MayModify == NoReader /\ ~should_not_be_modified

Parent(x) == Front(x)

\* radix_tree_node_find meets no null pointer but the one it looks for.
Followed(key) ==
  \A i \in 1..Len(key) :
    i % 2 = 1 /\ SubSeq(key, 1, i - 1) \in Nodes => SubSeq(key, 1, i) \in Nodes

\* thread_unsafe_radix_tree_search: Null stands for ENODATA.
Search(key) == IF key \in Nodes THEN user_data[key] ELSE Null

\* radix_tree_node_insert as far as node x: the missing nodes on the way
\* are made, and d is the datum of x if it has none.
Grow(x, d) ==
  LET added == Prefixes(x) \ Nodes
      nodes == Nodes \cup added
  IN /\ node_count' = node_count + Cardinality(added)
     /\ user_data' = [y \in nodes |->
          IF y \in Nodes /\ user_data[y] # Null THEN user_data[y]
          ELSE IF y = x THEN d ELSE Null]
     /\ n_children' = [y \in nodes |->
          (IF y \in Nodes THEN n_children[y] ELSE 0)
            + Cardinality({z \in added : Parent(z) = y})]
     /\ current' = [y \in nodes |-> IF y \in Nodes THEN current[y] ELSE 0]

\* A datum that is there already is returned and stays.
radix_tree_insert(key, d) ==
  /\ MayModify
  /\ Grow(key, d)
  /\ map' = [map EXCEPT ![key] = IF @ = Null THEN d ELSE @]
  /\ UNCHANGED <<should_not_be_modified, visit, starved, alone>>

\* ENOMEM at a node past x: what was made up to there stays.
InsertNoMemory(key, x) ==
  /\ MayModify
  /\ x \in Prefixes(key) \ {key} /\ Nodes \cap Prefixes(key) \subseteq Prefixes(x)
  /\ Grow(x, Null)
  /\ starved' = TRUE
  /\ UNCHANGED <<should_not_be_modified, visit, map, alone>>

\* Mutant: a node with children is freed under them.
UnusedIgnoresChildren(key) ==
  {x \in Prefixes(key) \ {<<>>} :
     \A y \in Prefixes(key) \ {key} : Len(y) >= Len(x) => user_data[y] = Null}

\* radix_tree_remove_node: from the node upwards, what has neither a datum
\* nor a child left is freed.
Unused(key) ==
  {x \in Prefixes(key) \ {<<>>} :
     \A y \in Prefixes(key) : Len(y) >= Len(x) =>
        IF y = key THEN n_children[y] = 0
                   ELSE user_data[y] = Null /\ n_children[y] = 1}

radix_tree_remove(key) ==
  /\ MayModify /\ Followed(key)
  /\ Search(key) # Null
  /\ LET freed == Unused(key)
         nodes == Nodes \ freed
     IN /\ node_count' = node_count - Cardinality(freed)
        /\ user_data' = [y \in nodes |-> IF y = key THEN Null ELSE user_data[y]]
        /\ n_children' = [y \in nodes |->
             n_children[y] - Cardinality({z \in freed : Parent(z) = y})]
        /\ current' = Restrict(current, nodes)
  /\ map' = [map EXCEPT ![key] = Null]
  /\ UNCHANGED <<should_not_be_modified, visit, starved, alone>>

-----------------------------------------------------------------------------
\* radix_tree_traverse
Goto(t, place) == visit' = [visit EXCEPT ![t].at = place]

TraverseTest(t) ==
  /\ visit[t].at = "out"
  /\ ~should_not_be_modified
  /\ Goto(t, "tested")
  /\ alone' = {u \in {t} : \A s \in Traversers : visit[s].at = "out"}
  /\ UNCHANGED <<should_not_be_modified, tree, current, map, starved>>

TraverseSet(t) ==
  /\ visit[t].at = "tested"
  /\ should_not_be_modified' = TRUE
  /\ Goto(t, "set")
  /\ UNCHANGED <<tree, current, map, starved, alone>>

\* No memory for the key: the flag stays.
TraverseNoMemory(t) ==
  /\ visit[t].at = "set"
  /\ Goto(t, "out")
  /\ alone' = alone \ {t}
  /\ UNCHANGED <<should_not_be_modified, tree, current, map, starved>>

TraverseLock(t) ==
  /\ visit[t].at = "set"
  /\ visit' = [visit EXCEPT ![t] = [Away EXCEPT !.at = "loop"]]
  /\ current' = [current EXCEPT ![<<>>] = 0]
  /\ UNCHANGED <<should_not_be_modified, tree, map, starved, alone>>

\* Mutant: the low nibble does not clear the high one before it.
KeyWithOldBits(key, x) ==
  LET index == Len(x)
  IN IF index = 0 THEN key
     ELSE [i \in 1..Max({Len(key), index}) |->
             IF i = index THEN IF i \in DOMAIN key THEN Max({key[i], Last(x)})
                                                   ELSE Last(x)
             ELSE key[i]]

\* The nibble of node x goes into its byte of the key, the high one by |=,
\* which on a single bit is the larger.
KeyWith(key, x) ==
  LET index == Len(x)
  IN IF index = 0 THEN key
     ELSE IF index % 2 = 1
          THEN [i \in 1..Max({Len(key), index + 1}) |->
                  IF i = index THEN Last(x) ELSE IF i = index + 1 THEN 0 ELSE key[i]]
          ELSE [key EXCEPT ![index] = Max({@, Last(x)})]

TraverseDown(t) ==
  LET x == visit[t].node
      child == Append(x, current[x])
  IN /\ visit[t].at = "loop"
     /\ current[x] < NTRIE_ALPHABET_SIZE
     /\ visit' = [visit EXCEPT ![t].key = KeyWith(@, x),
                               ![t].node = IF child \in Nodes THEN child ELSE x]
     /\ current' = [current EXCEPT ![x] = @ + 1]
     /\ UNCHANGED <<should_not_be_modified, tree, map, starved, alone>>

\* A node is done: its datum is passed to the user's function, unless that
\* has failed before, and the counter is put back.
TraverseUp(t) ==
  LET x == visit[t].node
      called == user_data[x] # Null /\ ~visit[t].failed
  IN /\ visit[t].at = "loop"
     /\ current[x] >= NTRIE_ALPHABET_SIZE
     /\ \E failed \in BOOLEAN :
          /\ failed => called
          /\ visit' = [visit EXCEPT
               ![t].failed = @ \/ failed,
               ![t].seen = IF called /\ t \in alone
                  THEN Append(@, <<SubSeq(visit[t].key, 1, Len(x)), user_data[x]>>)
                  ELSE @,
               ![t].node = IF x = <<>> THEN x ELSE Parent(x),
               ![t].at = IF x = <<>> THEN "unlocked" ELSE @]
     /\ current' = [current EXCEPT ![x] = 0]
     /\ UNCHANGED <<should_not_be_modified, tree, map, starved, alone>>

TraverseClear(t) ==
  /\ visit[t].at = "unlocked"
  /\ should_not_be_modified' = FALSE
  /\ visit' = [visit EXCEPT ![t] = Away]
  /\ alone' = alone \ {t}
  /\ UNCHANGED <<tree, current, map, starved>>

Next ==
  \/ \E k \in Keys : \/ radix_tree_remove(k)
                     \/ \E d \in Data : radix_tree_insert(k, d)
                     \/ \E x \in Prefixes(k) : InsertNoMemory(k, x)
  \/ \E t \in Traversers :
       \/ TraverseTest(t) \/ TraverseSet(t) \/ TraverseNoMemory(t)
       \/ TraverseLock(t) \/ TraverseDown(t) \/ TraverseUp(t) \/ TraverseClear(t)

Spec == Init /\ [][Next]_vars

-----------------------------------------------------------------------------
\* Every search that does not meet the null pointer answers for what was
\* stored; the counts are those of the tree, and no node is useless: each
\* leads to a datum, unless memory ran out.
Exact ==
  /\ \A k \in Keys : Followed(k) => Search(k) = map[k]
  /\ node_count = Cardinality(Nodes) - 1
  /\ \A x \in Nodes :
       /\ n_children[x] = Cardinality({y \in Nodes : y # <<>> /\ Parent(y) = x})
       /\ x # <<>> => Parent(x) \in Nodes
       /\ x # <<>> /\ n_children[x] = 0 /\ ~starved => user_data[x] # Null

\* A traversal that ends, and beside which no other has run, has called the
\* user's function once for each datum with the key it is stored under, or up
\* to the call that failed; and the counters of all nodes are back at zero for
\* the next one, whatever traversals beside each other did before.
TraversalComplete ==
  \A t \in alone : visit[t].at = "unlocked" =>
    /\ IsInjective(visit[t].seen)
    /\ LET stored == {<<k, map[k]>> : k \in {k \in Keys : map[k] # Null}}
       IN IF visit[t].failed THEN ToSet(visit[t].seen) \subseteq stored
                             ELSE ToSet(visit[t].seen) = stored
    /\ \A x \in Nodes : current[x] = 0
=============================================================================
