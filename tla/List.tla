-------------------------------- MODULE List --------------------------------
(***************************************************************************)
(* list.c: a doubly linked list.  Every public function runs under the     *)
(* list's lock from its first to its last statement, so one function is    *)
(* one step; one that fails (full, no memory, a null node) changes nothing *)
(* and is no step.  A node handed to the list is a node of the list: "the  *)
(* function does NOT check this" (list.h:122).                             *)
(***************************************************************************)
EXTENDS Integers, SequencesExt

CONSTANTS
  Node,      \* addresses list_new_node may get
  Null,
  Data,      \* user pointers
  Limits     \* n_max as given to list_init, 0 for no limit

\* Assumed of the constants, as in the other containers' modules.
ConstantsOK == Limits \subseteq Nat /\ IsFiniteSet(Node) /\ Null \notin Node

VARIABLES
  alive,                   \* initialised and not destroyed
  head, tail, n, n_max,    \* fields of list_t
  node,                    \* the allocated nodes and their fields
  order                    \* history: the nodes in the order asked for

vars == <<alive, head, tail, n, n_max, node, order>>

Init ==
  /\ alive = TRUE
  /\ head = Null /\ tail = Null /\ n = 0
  /\ n_max \in Limits
  /\ node = <<>>
  /\ order = <<>>

Full == n_max > 0 /\ n >= n_max

\* list_new_node, for node x and datum d: both links are null.
NewNode(x, d) ==
  [y \in DOMAIN node \cup {x} |->
     IF y = x THEN [next |-> Null, prev |-> Null, data |-> d] ELSE node[y]]

\* Every insertion: there is room, and memory for node x.
Adds(x) ==
  /\ alive /\ ~Full
  /\ x \notin DOMAIN node
  /\ n' = n + 1
  /\ UNCHANGED <<alive, n_max>>

\* Where in the order node y is.
PlaceOf(y) == CHOOSE i \in DOMAIN order : order[i] = y

PrependNode(x, nodes) ==
  IF n <= 0
  THEN /\ head' = x /\ tail' = x
       /\ node' = nodes
  ELSE /\ node' = [nodes EXCEPT ![x].next = head, ![head].prev = x]
       /\ head' = x
       /\ UNCHANGED tail

AppendNode(x, nodes) ==
  IF n <= 0
  THEN /\ head' = x /\ tail' = x
       /\ node' = nodes
  ELSE /\ node' = [nodes EXCEPT ![x].prev = tail, ![tail].next = x]
       /\ tail' = x
       /\ UNCHANGED head

list_prepend_data(x, d) ==
  /\ Adds(x)
  /\ PrependNode(x, NewNode(x, d))
  /\ order' = <<x>> \o order

list_append_data(x, d) ==
  /\ Adds(x)
  /\ AppendNode(x, NewNode(x, d))
  /\ order' = Append(order, x)

\* Mutant: the node that follows keeps pointing back past the new one.
InsertAfterOneWay(y, x, d) ==
  /\ Adds(x) /\ y \in DOMAIN node
  /\ LET nodes == NewNode(x, d)
         after == nodes[y].next
     IN IF after = Null
        THEN AppendNode(x, nodes)
        ELSE /\ node' = [nodes EXCEPT ![x].next = after, ![x].prev = y,
                                      ![y].next = x]
             /\ UNCHANGED <<head, tail>>
  /\ order' = InsertAt(order, PlaceOf(y) + 1, x)

list_insert_data_after_node(y, x, d) ==
  /\ Adds(x) /\ y \in DOMAIN node
  /\ LET nodes == NewNode(x, d)
         after == nodes[y].next
     IN IF after = Null
        THEN AppendNode(x, nodes)
        ELSE /\ node' = [nodes EXCEPT ![after].prev = x,
                                      ![x].next = after, ![x].prev = y,
                                      ![y].next = x]
             /\ UNCHANGED <<head, tail>>
  /\ order' = InsertAt(order, PlaceOf(y) + 1, x)

list_insert_data_before_node(y, x, d) ==
  /\ Adds(x) /\ y \in DOMAIN node
  /\ LET nodes == NewNode(x, d)
         before == nodes[y].prev
     IN IF before = Null
        THEN PrependNode(x, nodes)
        ELSE /\ node' = [nodes EXCEPT ![x].next = y, ![before].next = x,
                                      ![x].prev = before, ![y].prev = x]
             /\ UNCHANGED <<head, tail>>
  /\ order' = InsertAt(order, PlaceOf(y), x)

\* thread_unsafe_list_remove_node: the neighbours, or the ends where there
\* is none, take over what pointed at x; x is freed.
RemoveNode(x) ==
  LET after == node[x].next
      before == node[x].prev
      rest == Restrict(node, DOMAIN node \ {x})
  IN /\ head' = IF before = Null THEN after ELSE head
     /\ tail' = IF after = Null THEN before ELSE tail
     /\ node' = [y \in DOMAIN rest |->
                   [rest[y] EXCEPT !.next = IF y = before THEN after ELSE @,
                                   !.prev = IF y = after THEN before ELSE @]]
     /\ n' = n - 1
     /\ UNCHANGED <<alive, n_max>>

list_remove_node(x) ==
  /\ alive /\ x \in DOMAIN node
  /\ RemoveNode(x)
  /\ order' = RemoveAt(order, PlaceOf(x))

\* The i-th node (from 0) of a walk from the head, Null past the end.
Walk ==
  LET at[i \in 0..Cardinality(Node)] ==
        IF i = 0 THEN head
        ELSE IF at[i - 1] = Null THEN Null ELSE node[at[i - 1]].next
  IN at

\* thread_unsafe_list_find_data_node: the first node of the walk with d.
FindDataNode(d) ==
  LET hits == {i \in DOMAIN Walk : Walk[i] # Null /\ node[Walk[i]].data = d}
  IN IF hits = {} THEN Null ELSE Walk[Min(hits)]

list_remove_data(d) ==
  /\ alive
  /\ FindDataNode(d) # Null
  /\ RemoveNode(FindDataNode(d))
  /\ order' = RemoveAt(order, Min({i \in DOMAIN order : node[order[i]].data = d}))

\* The walk frees each node; the structure is cleared.
list_destroy ==
  /\ alive
  /\ alive' = FALSE
  /\ node' = Restrict(node, DOMAIN node \ {Walk[i] : i \in DOMAIN Walk})
  /\ head' = Null /\ tail' = Null /\ n' = 0 /\ n_max' = 0
  /\ order' = <<>>

list_init ==
  /\ ~alive
  /\ alive' = TRUE
  /\ n_max' \in Limits
  /\ UNCHANGED <<head, tail, n, node, order>>

Next ==
  \/ list_init \/ list_destroy
  \/ \E x \in Node : list_remove_node(x)
  \/ \E d \in Data : list_remove_data(d)
  \/ \E x \in Node, d \in Data :
       \/ list_prepend_data(x, d) \/ list_append_data(x, d)
       \/ \E y \in Node : \/ list_insert_data_after_node(y, x, d)
                          \/ list_insert_data_before_node(y, x, d)

Spec == Init /\ [][Next]_vars

-----------------------------------------------------------------------------
\* The node at place i of the order asked for, Null before it and after it.
Place(i) == IF i \in DOMAIN order THEN order[i] ELSE Null

\* Both directions of the chain, its two ends and the count are those of
\* the order the calls asked for, exactly its nodes are allocated, and
\* the limit holds.
Exact ==
  /\ n = Len(order) /\ (n_max > 0 => n <= n_max)
  /\ head = Place(1) /\ tail = Place(n)
  /\ DOMAIN node = ToSet(order)
  /\ \A i \in DOMAIN order : /\ node[order[i]].next = Place(i + 1)
                             /\ node[order[i]].prev = Place(i - 1)
=============================================================================
