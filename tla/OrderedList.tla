---------------------------- MODULE OrderedList -----------------------------
(***************************************************************************)
(* ordered_list.c: a singly linked list sorted by the user's comparer and  *)
(* ended by a marker node with no next and no datum.  As in List one       *)
(* function is one step, and a failing one is none.  A datum is            *)
(* <<key, tag>>: the comparer looks at the key alone.  No datum is NULL,   *)
(* which not_endof_ordered_list would take for the end.                    *)
(*                                                                         *)
(* A list filled by thread_unsafe_ordered_list_add_to_head has no order;   *)
(* its comment allows it where nothing is searched, so such a list         *)
(* (unordered) is only added to, deleted from by node, and destroyed.      *)
(***************************************************************************)
EXTENDS Integers, SequencesExt

CONSTANTS
  Node,   \* addresses ordered_list_new_node may get
  Null,
  Data    \* pairs of a key and a tag

ConstantsOK ==
  /\ \A d \in Data : d[1] \in Int
  /\ IsFiniteSet(Node) /\ Null \notin Node \cup Data

VARIABLES
  unordered,   \* how the caller uses this list
  head, n,     \* fields of ordered_list_t; head is Null once destroyed
  node,        \* the allocated nodes: next and user_data
  sorted       \* history: the data in the order the header promises

vars == <<unordered, head, n, node, sorted>>

Marker == [next |-> Null, user_data |-> Null]

\* The nodes with a new one at x.
NewNode(x, fields) ==
  [y \in DOMAIN node \cup {x} |-> IF y = x THEN fields ELSE node[y]]

\* ordered_list_init, with memory for the marker.
Init ==
  /\ unordered \in BOOLEAN
  /\ n = 0 /\ sorted = <<>>
  /\ head \in Node
  /\ node = [x \in {head} |-> Marker]

ordered_list_init ==
  /\ head = Null
  /\ unordered' \in BOOLEAN
  /\ n' = 0 /\ sorted' = <<>>
  /\ head' \in Node
  /\ node' = NewNode(head', Marker)

Key(d) == d[1]

\* not_endof_ordered_list
NotEnd(x) == x # Null /\ node[x].next # Null /\ node[x].user_data # Null

\* The chain from the head, with the marker; Null past the end.
Walk ==
  LET at[i \in 0..Cardinality(Node)] ==
        IF i = 0 THEN head
        ELSE IF at[i - 1] = Null THEN Null ELSE node[at[i - 1]].next
  IN at

\* How many nodes the loops pass before they stop at one whose key is not
\* smaller than d's, or at the marker.
Passed(d) ==
  Min({i \in DOMAIN Walk :
         NotEnd(Walk[i]) => Key(node[Walk[i]].user_data) >= Key(d)})

\* thread_unsafe_ordered_list_search finds the node where it stopped.
Found(d) ==
  LET x == Walk[Passed(d)]
  IN NotEnd(x) /\ Key(node[x].user_data) = Key(d)

\* The new node x goes between the last one passed (prev) and the next.
Link(x, d) ==
  LET p == Passed(d)
      fields(next) == [next |-> next, user_data |-> d]
  IN IF p > 0
     THEN LET prev == Walk[p - 1]
          IN /\ node' = [NewNode(x, fields(node[prev].next)) EXCEPT ![prev].next = x]
             /\ UNCHANGED head
     ELSE /\ node' = NewNode(x, fields(head))
          /\ head' = x

\* Where the header puts d: before the first that is not smaller.
SortedPlace(d) ==
  1 + Cardinality({i \in DOMAIN sorted : Key(sorted[i]) < Key(d)})

ordered_list_add(x, d) ==
  /\ head # Null /\ ~unordered /\ x \notin DOMAIN node
  /\ Link(x, d)
  /\ n' = n + 1
  /\ sorted' = InsertAt(sorted, SortedPlace(d), d)
  /\ UNCHANGED unordered

\* Refused with EEXIST where the search finds one.
ordered_list_add_once(x, d) ==
  /\ ~Found(d)
  /\ ordered_list_add(x, d)

thread_unsafe_ordered_list_add_to_head(x, d) ==
  /\ head # Null /\ unordered /\ x \notin DOMAIN node
  /\ node' = NewNode(x, [next |-> head, user_data |-> d])
  /\ head' = x
  /\ n' = n + 1
  /\ sorted' = <<d>> \o sorted
  /\ UNCHANGED unordered

\* Mutant: only what user_data was is copied, not the link.
NodeDeleteKeepsLink(x) ==
  LET to_free == node[x].next
  IN node' = Restrict([node EXCEPT ![x].user_data = node[to_free].user_data],
                      DOMAIN node \ {to_free})

\* thread_unsafe_ordered_list_node_delete: the next node is copied onto this
\* one and freed in its place.
NodeDelete(x) ==
  LET to_free == node[x].next
  IN node' = Restrict([node EXCEPT ![x] = node[to_free]],
                      DOMAIN node \ {to_free})

\* Deletion of the node at place i of the chain, the marker excepted.
DeleteAt(i) ==
  /\ NotEnd(Walk[i])
  /\ NodeDelete(Walk[i])
  /\ n' = n - 1
  /\ UNCHANGED <<unordered, head>>

ordered_list_delete_node(i) ==
  /\ DeleteAt(i)
  /\ sorted' = RemoveAt(sorted, i + 1)

ordered_list_delete(d) ==
  /\ head # Null /\ ~unordered
  /\ Found(d)
  /\ DeleteAt(Passed(d))
  /\ sorted' = RemoveAt(sorted, SortedPlace(d))

\* The deletions at the head leave the marker, which is freed too.
ordered_list_destroy ==
  /\ head # Null
  /\ node' = Restrict(node, DOMAIN node \ {Walk[i] : i \in DOMAIN Walk})
  /\ head' = Null /\ n' = 0 /\ sorted' = <<>>
  /\ UNCHANGED unordered

Next ==
  \/ ordered_list_init \/ ordered_list_destroy
  \/ \E i \in 0..n : ordered_list_delete_node(i)
  \/ \E d \in Data : ordered_list_delete(d)
  \/ \E x \in Node, d \in Data :
       \/ ordered_list_add(x, d) \/ ordered_list_add_once(x, d)
       \/ thread_unsafe_ordered_list_add_to_head(x, d)

Spec == Init /\ [][Next]_vars

-----------------------------------------------------------------------------
\* The chain holds the promised data in their order and then the marker;
\* exactly its nodes are allocated; n counts them without the marker; and
\* unless the caller gave the order up, the order is that of the keys.
Exact ==
  /\ n = Len(sorted)
  /\ ~unordered =>
       \A i, j \in DOMAIN sorted : i < j => Key(sorted[i]) <= Key(sorted[j])
  /\ head # Null =>
       /\ \A i \in DOMAIN sorted : node[Walk[i - 1]].user_data = sorted[i]
       /\ node[Walk[n]] = Marker
  /\ DOMAIN node = {Walk[i] : i \in DOMAIN Walk} \ {Null}
=============================================================================
