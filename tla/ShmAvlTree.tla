----------------------------- MODULE ShmAvlTree -----------------------------
(***************************************************************************)
(* The AVL tree of SHMEM/shared_memory_utils.c: an array of nodes that     *)
(* link each other by their indexes, which mean the same in every process, *)
(* and a stack of the free ones behind it.  A call holds the tree's lock   *)
(* throughout, so it is one step; one that fails (not there, no node left) *)
(* changes nothing and is none.  The surgery is that of avl_tree_object.c. *)
(* A datum is its key.                                                     *)
(***************************************************************************)
EXTENDS AvlSurgery

CONSTANTS
  Keys,
  Size,            \* size as given to shm_avl_tree_init
  MaxReferences    \* bound: references to a key

ConstantsOK == Keys \subseteq Nat /\ Size \in Nat /\ Nil = -1

VARIABLES
  duplicates_allowed,
  root, first, last,   \* indexes of nodes
  shm_avl_nodes,
  free,                \* the stack of free nodes, its top last
  references           \* history: how often each key is in the tree

vars == <<duplicates_allowed, root, first, last, shm_avl_nodes, free,
          references>>

Indexes == 0..Size - 1
count == Size - Len(free)

NewNode(key) == [left |-> Nil, right |-> Nil, parent |-> Nil, balance |-> 0,
                 data |-> key, refcount |-> 1]

\* shm_avl_tree_init and the stack's: 0 is on top.  The nodes, first and last
\* hold what the memory held.
Init ==
  /\ duplicates_allowed \in BOOLEAN
  /\ root = Nil /\ first = Nil /\ last = Nil
  /\ shm_avl_nodes = [i \in Indexes |-> NewNode(0)]
  /\ free = [i \in 1..Size |-> Size - i]
  /\ references = [k \in Keys |-> 0]

T0 == [root |-> root, node |-> shm_avl_nodes]
Put(T) == root' = T.root /\ shm_avl_nodes' = T.node

Side(key, k) == IF key < shm_avl_nodes[k].data THEN "left" ELSE "right"

\* do_lookup: the nodes from the root down to the one with the key, or to the
\* one where it would be hung.
Path(key) ==
  LET from[k \in Indexes \cup {Nil}] ==
        IF k = Nil THEN <<>>
        ELSE IF shm_avl_nodes[k].data = key THEN <<k>>
        ELSE <<k>> \o from[shm_avl_nodes[k][Side(key, k)]]
  IN from[root]

Found(key) ==
  LET path == Path(key)
  IN path # <<>> /\ shm_avl_nodes[Last(path)].data = key

\* The last node of the path that leans, or the root: the nodes from there on
\* change their balance when one is hung below, those above do not.
Leaning(path) ==
  LET lean == {i \in DOMAIN path : shm_avl_nodes[path[i]].balance # 0}
  IN IF lean = {} THEN 1 ELSE Max(lean)

\* shm_avl_tree_insert of node x, found nowhere, below a path that is not
\* empty: it is hung, the balances change up to the unbalanced node, and that
\* one is rebalanced.
Hang(x, key, path) ==
  LET top == Leaning(path)
      unbalanced == path[top]
      parent == Last(path)
      told == [k \in Indexes |->
        IF k \in ToSet(SubSeq(path, top, Len(path)))
        THEN [shm_avl_nodes[k] EXCEPT !.balance = @ + Sign(Side(key, k))]
        ELSE shm_avl_nodes[k]]
      hung == [root |-> root,
               node |-> [told EXCEPT
                 ![x] = [NewNode(key) EXCEPT !.parent = parent],
                 ![parent][Side(key, parent)] = x]]
  IN CASE hung.node[unbalanced].balance = 2 ->
            Rebalance(hung, unbalanced, "right")
       [] hung.node[unbalanced].balance = -2 ->
            Rebalance(hung, unbalanced, "left")
       [] OTHER -> hung

\* new_shm_avl_node pops the stack.
InsertNode(key) ==
  LET x == Last(free)
      path == Path(key)
      parent == Last(path)
  IN
  /\ ~Found(key) /\ free # <<>>
  /\ free' = Front(free)
  /\ references' = [references EXCEPT ![key] = 1]
  /\ \/ /\ path = <<>>
        /\ Put([root |-> x, node |-> [shm_avl_nodes EXCEPT ![x] = NewNode(key)]])
        /\ first' = x /\ last' = x
     \/ /\ path # <<>>
        /\ Put(Hang(x, key, path))
        /\ first' = IF Side(key, parent) = "left" /\ parent = first
                    THEN x ELSE first
        /\ last' = IF Side(key, parent) = "right" /\ parent = last
                   THEN x ELSE last
  /\ UNCHANGED duplicates_allowed

\* shm_avl_tree_insert of a key that is there, where that counts.
InsertAgain(key) ==
  /\ Found(key) /\ duplicates_allowed
  /\ references[key] < MaxReferences
  /\ shm_avl_nodes' = [shm_avl_nodes EXCEPT ![Last(Path(key))].refcount = @ + 1]
  /\ references' = [references EXCEPT ![key] = @ + 1]
  /\ UNCHANGED <<duplicates_allowed, root, first, last, free>>

\* avltree_next for side = "right", avltree_prev for "left".
Neighbour(k, side) ==
  LET up[x \in Indexes] ==
        LET p == shm_avl_nodes[x].parent
        IN IF p = Nil \/ SideOf(T0, x, p) # side THEN p ELSE up[p]
  IN IF shm_avl_nodes[k][side] # Nil
     THEN Outermost(T0, shm_avl_nodes[k][side], Other(side))
     ELSE up[k]

\* The node leaves the tree, and those above are told until one is level.
\* Nothing reads a free node: it is kept blank.
TakeOut(k) ==
  LET Tell(told, i) == IF told.parent = Nil THEN told
                       ELSE Shallower(told.tree, told.parent, told.side)
      out == FoldLeft(Tell, Splice(T0, k), [i \in 1..Size |-> i])
  IN [out.tree EXCEPT !.node[k] = NewNode(0)]

\* Mutant: the node is not given back to the stack.
RemoveLeaks(key) ==
  LET k == Last(Path(key)) IN
  /\ Found(key)
  /\ Put(TakeOut(k))
  /\ first' = IF k = first THEN Neighbour(k, "right") ELSE first
  /\ last' = IF k = last THEN Neighbour(k, "left") ELSE last
  /\ references' = [references EXCEPT ![key] = 0]
  /\ UNCHANGED <<duplicates_allowed, free>>

\* shm_avl_tree_remove of the last references to a key; free_shm_avl_node
\* pushes the node.
RemoveNode(key) ==
  LET k == Last(Path(key)) IN
  /\ Found(key)
  /\ Put(TakeOut(k))
  /\ first' = IF k = first THEN Neighbour(k, "right") ELSE first
  /\ last' = IF k = last THEN Neighbour(k, "left") ELSE last
  /\ free' = Append(free, k)
  /\ references' = [references EXCEPT ![key] = 0]
  /\ UNCHANGED duplicates_allowed

shm_avl_tree_remove(key, howmany) ==
  LET k == Last(Path(key)) IN
  /\ Found(key)
  /\ \/ shm_avl_nodes[k].refcount <= howmany /\ RemoveNode(key)
     \/ /\ shm_avl_nodes[k].refcount > howmany
        /\ shm_avl_nodes' = [shm_avl_nodes EXCEPT ![k].refcount = @ - howmany]
        /\ references' = [references EXCEPT ![key] = @ - howmany]
        /\ UNCHANGED <<duplicates_allowed, root, first, last, free>>

Next ==
  \E key \in Keys :
    \/ InsertNode(key) \/ InsertAgain(key)
    \/ \E howmany \in 1..MaxReferences : shm_avl_tree_remove(key, howmany)

Spec == Init /\ [][Next]_vars

-----------------------------------------------------------------------------
\* Every node is in the tree or in the stack, once; the tree holds the keys
\* referred to, in order, balanced and with their counts; first and last are
\* its ends; and so a search finds exactly what was put in.
Exact ==
  LET used == Indexes \ ToSet(free)
      all == InOrder(T0, used)
  IN
  /\ IsInjective(free)
  /\ ToSet(all) = used /\ IsInjective(all)
  /\ \A i \in 1..Len(all) - 1 :
       shm_avl_nodes[all[i]].data < shm_avl_nodes[all[i + 1]].data
  /\ Balanced(T0, used)
  /\ used # {} => first = all[1] /\ last = Last(all)
  /\ \A key \in Keys :
       /\ Found(key) <=> references[key] > 0
       /\ Found(key) => shm_avl_nodes[Last(Path(key))].refcount = references[key]
=============================================================================
