------------------------------ MODULE AvlTree -------------------------------
(***************************************************************************)
(* avl_tree_object.c: a balanced tree of nodes that know their parents,    *)
(* under the read/write lock of RWLock.  Insert, remove and destroy change *)
(* it under the write lock.  The two traversals hold the read lock and yet *)
(* write: avl_tree_morris_traverse rewrites right pointers as it goes and  *)
(* puts them back, avl_tree_iterate marks the nodes it has been to.        *)
(*                                                                         *)
(* Each turn of a loop is a step, with at most one write to the tree while *)
(* others may read it.  A node is named by its key and Nil is NULL; what a *)
(* step does to the links is in AvlSurgery.                                *)
(***************************************************************************)
EXTENDS AvlSurgery

CONSTANTS
  Threads,
  Calls,      \* Calls[t]: the functions thread t calls
  Keys,       \* keys of the user's data
  Shared      \* the keys of the trees that are searched and traversed

ASSUME KeysPositive == Keys \subseteq Nat \ {Nil}
ASSUME SharedAreKeys == Shared \subseteq Keys

VARIABLES
  root_node, node,         \* the tree: node[k] is the structure of node k
  nodes,                   \* the nodes allocated; n counts them
  should_not_be_modified,
  holds, writer, barred,   \* its lock, as in RWLock
  call                     \* call[t]: the function t is in and its locals

tree == <<root_node, node, nodes>>
lockvars == <<holds, writer, barred>>
vars == <<tree, should_not_be_modified, lockvars, call>>

Lock == INSTANCE RWLock

Traversals == {"morris_traverse", "iterate"}
ReadOps == {"search"} \cup Traversals
WriteOps == {"insert", "remove", "destroy"}
Ops == ReadOps \cup WriteOps

\* new_avl_node; an unallocated node is kept like this too.
Fresh == [left |-> Nil, right |-> Nil, parent |-> Nil, balance |-> 0,
          left_visited |-> FALSE, right_visited |-> FALSE]

Idle == [op |-> "none", at |-> "out", key |-> Nil,
         node |-> Nil, parent |-> Nil, unbalanced |-> Nil, side |-> "right",
         root |-> Nil, start |-> Nil, failed |-> FALSE, seen |-> <<>>]

In(t, f, place) == call[t].op = f /\ call[t].at = place
Goto(t, place) == call' = [call EXCEPT ![t].at = place]

Init ==
  /\ root_node = Nil /\ node = [k \in Keys |-> Fresh] /\ nodes = {}
  /\ should_not_be_modified = FALSE
  /\ Lock!AbsInit
  /\ call = [t \in Threads |-> Idle]

-----------------------------------------------------------------------------
(***************************************************************************)
(* Calls and the lock.  Destroy is called by the last user.  An iteration  *)
(* of an empty tree follows a null pointer (line 570): none is begun.      *)
(* Searches and traversals are called of trees within Shared only.         *)
(***************************************************************************)
InUse == nodes \cup ({call[u].key : u \in Threads} \ {Nil})

Call(t, f) ==
  /\ call[t].op = "none"
  /\ f \in Calls[t]
  /\ \A u \in Threads : /\ call[u].op # "destroy"
                        /\ f = "destroy" => call[u].op = "none"
  /\ f \in ReadOps => InUse \subseteq Shared
  /\ call' = [call EXCEPT ![t] = [Idle EXCEPT !.op = f, !.at = "lock"]]
  /\ UNCHANGED <<tree, should_not_be_modified, lockvars>>

Announce(t) ==
  /\ ~barred
  /\ call[t].at = "lock" /\ call[t].op \in WriteOps
  /\ Lock!Bar
  /\ UNCHANGED <<tree, should_not_be_modified, call>>

LockRead(t) ==
  /\ call[t].at = "lock" /\ call[t].op \in ReadOps
  /\ call[t].op = "iterate" => root_node # Nil
  /\ Lock!GrantRead(t)
  /\ Goto(t, "start")
  /\ UNCHANGED <<tree, should_not_be_modified>>

LockWrite(t) ==
  /\ call[t].at = "lock" /\ call[t].op \in WriteOps
  /\ Lock!GrantWrite(t)
  /\ Goto(t, "start")
  /\ UNCHANGED <<tree, should_not_be_modified>>

Unlock(t) ==
  /\ call[t].at = "unlock"
  /\ IF call[t].op \in ReadOps THEN Lock!DropRead(t) ELSE Lock!DropWrite(t)
  /\ call' = [call EXCEPT ![t] = Idle]
  /\ UNCHANGED <<tree, should_not_be_modified>>

-----------------------------------------------------------------------------
\* avl_lookup_engine, for search, insert and remove of the data with key k.
Start(t, k) ==
  /\ call[t].at = "start" /\ call[t].op \in {"search", "insert", "remove"}
  /\ k \in Shared \/ \A u \in Threads \ {t} : call[u].op = "none"
  /\ call' = [call EXCEPT
       ![t].at = IF should_not_be_modified /\ call[t].op # "search"
                 THEN "unlock" ELSE "find",
       ![t].key = k, ![t].node = root_node, ![t].unbalanced = root_node]
  /\ UNCHANGED <<tree, should_not_be_modified, lockvars>>

\* Mutant: there is no way to the right.
DescendLeft(t) ==
  /\ call[t].at = "find" /\ call[t].node # Nil
  /\ LET c == call[t] IN
     call' = [call EXCEPT ![t] =
       IF c.key = c.node THEN [c EXCEPT !.at = "found"]
       ELSE IF c.key > c.node THEN [c EXCEPT !.side = "right"]
       ELSE [c EXCEPT !.parent = c.node, !.side = "left",
                      !.node = node[c.node].left]]
  /\ UNCHANGED <<tree, should_not_be_modified, lockvars>>

Descend(t) ==
  /\ call[t].at = "find" /\ call[t].node # Nil
  /\ LET c == call[t]
         side == IF c.key < c.node THEN "left" ELSE "right"
         here == [c EXCEPT !.unbalanced =
                    IF node[c.node].balance # 0 THEN c.node ELSE @]
     IN call' = [call EXCEPT ![t] =
          IF c.key = c.node THEN [here EXCEPT !.at = "found"]
          ELSE [here EXCEPT !.parent = c.node, !.side = side,
                            !.node = node[c.node][side]]]
  /\ UNCHANGED <<tree, should_not_be_modified, lockvars>>

Bottom(t) ==
  /\ call[t].at = "find" /\ call[t].node = Nil
  /\ Goto(t, "missing")
  /\ UNCHANGED <<tree, should_not_be_modified, lockvars>>

SearchEnd(t) ==
  /\ call[t].op = "search" /\ call[t].at \in {"found", "missing"}
  /\ Goto(t, "unlock")
  /\ UNCHANGED <<tree, should_not_be_modified, lockvars>>

\* Insert finds the key and may overwrite the data; remove finds none.
NothingToDo(t) ==
  /\ In(t, "insert", "found") \/ In(t, "remove", "missing")
  /\ Goto(t, "unlock")
  /\ UNCHANGED <<tree, should_not_be_modified, lockvars>>

-----------------------------------------------------------------------------
Tree == [root |-> root_node, node |-> node]
Put(T) == root_node' = T.root /\ node' = T.node

-----------------------------------------------------------------------------
\* thread_unsafe_avl_tree_insert, once the key is not found.
InsertFails(t) ==
  /\ In(t, "insert", "missing")
  /\ Goto(t, "unlock")
  /\ UNCHANGED <<tree, should_not_be_modified, lockvars>>

InsertNode(t) ==
  /\ In(t, "insert", "missing")
  /\ LET c == call[t] IN
     /\ nodes' = nodes \cup {c.key}
     /\ IF c.parent = Nil
        THEN /\ root_node' = c.key
             /\ UNCHANGED node
             /\ Goto(t, "unlock")
        ELSE /\ node' = [node EXCEPT ![c.key].parent = c.parent,
                                     ![c.parent][c.side] = c.key]
             /\ call' = [call EXCEPT ![t].at = "climb", ![t].node = c.key]
             /\ UNCHANGED root_node
  /\ UNCHANGED <<should_not_be_modified, lockvars>>

\* One turn of the loop that tells the ancestors up to the unbalanced one.
InsertClimb(t) ==
  /\ In(t, "insert", "climb")
  /\ LET c == call[t] IN
     /\ node' = [node EXCEPT ![c.parent].balance =
                   @ + Sign(SideOf(Tree, c.node, c.parent))]
     /\ call' = [call EXCEPT ![t] =
          IF c.parent = c.unbalanced THEN [c EXCEPT !.at = "rebalance"]
          ELSE [c EXCEPT !.node = c.parent, !.parent = node[c.parent].parent]]
  /\ UNCHANGED <<root_node, nodes, should_not_be_modified, lockvars>>

InsertRebalance(t) ==
  /\ In(t, "insert", "rebalance")
  /\ LET u == call[t].unbalanced IN
     IF node[u].balance \in {-2, 2}
     THEN Put(Rebalance(Tree, u, IF node[u].balance = 2 THEN "right" ELSE "left"))
     ELSE UNCHANGED <<root_node, node>>
  /\ Goto(t, "unlock")
  /\ UNCHANGED <<nodes, should_not_be_modified, lockvars>>

-----------------------------------------------------------------------------
(***************************************************************************)
(* thread_unsafe_avl_tree_remove, once the node is found: it is taken out, *)
(* and what has become shallower is told to the nodes above.               *)
(***************************************************************************)
RemoveSplice(t) ==
  /\ In(t, "remove", "found")
  /\ LET out == Splice(Tree, call[t].key) IN
     /\ Put(out.tree)
     /\ call' = [call EXCEPT ![t].at = "shrink", ![t].parent = out.parent,
                             ![t].side = out.side]
  /\ UNCHANGED <<nodes, should_not_be_modified, lockvars>>

\* One turn of the loop: the node p has become shallower on a side.
RemoveClimb(t) ==
  /\ In(t, "remove", "shrink") /\ call[t].parent # Nil
  /\ LET up == Shallower(Tree, call[t].parent, call[t].side) IN
     /\ Put(up.tree)
     /\ call' = [call EXCEPT ![t].parent = up.parent, ![t].side = up.side]
  /\ UNCHANGED <<nodes, should_not_be_modified, lockvars>>

\* END_OF_DELETE
RemoveFree(t) ==
  /\ In(t, "remove", "shrink") /\ call[t].parent = Nil
  /\ nodes' = nodes \ {call[t].key}
  /\ node' = [node EXCEPT ![call[t].key] = Fresh]
  /\ Goto(t, "unlock")
  /\ UNCHANGED <<root_node, should_not_be_modified, lockvars>>

-----------------------------------------------------------------------------
\* Both traversals begin at the root, or at a node the caller knows.
TraverseStart(t, k) ==
  /\ call[t].at = "start" /\ call[t].op \in Traversals
  /\ call' = [call EXCEPT ![t].at = "top", ![t].root = k, ![t].node = k,
                          ![t].start = k]
  /\ should_not_be_modified' = TRUE
  /\ UNCHANGED <<tree, lockvars>>

\* The user's function at node k; after it has failed it is not called.
Visit(c, k) ==
  IF c.failed THEN {c}
  ELSE {[c EXCEPT !.seen = Append(@, k), !.failed = f] : f \in BOOLEAN}

\* thread_unsafe_avl_tree_morris_traverse
MorrisTop(t) ==
  /\ In(t, "morris_traverse", "top") /\ call[t].root # Nil
  /\ LET r == call[t].root IN
     \/ /\ node[r].left = Nil
        /\ \E c \in Visit(call[t], r) :
             call' = [call EXCEPT ![t] = [c EXCEPT !.root = node[r].right]]
     \/ /\ node[r].left # Nil
        /\ call' = [call EXCEPT ![t].at = "seek", ![t].node = node[r].left]
  /\ UNCHANGED <<tree, should_not_be_modified, lockvars>>

MorrisSeek(t) ==
  /\ In(t, "morris_traverse", "seek")
  /\ node[call[t].node].right \notin {Nil, call[t].root}
  /\ call' = [call EXCEPT ![t].node = node[@].right]
  /\ UNCHANGED <<tree, should_not_be_modified, lockvars>>

\* Mutant: the left child of root gets root as its right child.
MorrisLinkTooSoon(t) ==
  /\ In(t, "morris_traverse", "seek")
  /\ node[call[t].node].right # call[t].root
  /\ LET r == call[t].root IN
     /\ node' = [node EXCEPT ![call[t].node].right = r]
     /\ \E c \in Visit(call[t], r) :
          call' = [call EXCEPT ![t] =
            [c EXCEPT !.at = "top", !.root = node[r].left]]
  /\ UNCHANGED <<root_node, nodes, should_not_be_modified, lockvars>>

\* The node before root in order gets root as its right child ...
MorrisLink(t) ==
  /\ In(t, "morris_traverse", "seek")
  /\ node[call[t].node].right = Nil
  /\ LET r == call[t].root IN
     /\ node' = [node EXCEPT ![call[t].node].right = r]
     /\ \E c \in Visit(call[t], r) :
          call' = [call EXCEPT ![t] =
            [c EXCEPT !.at = "top", !.root = node[r].left]]
  /\ UNCHANGED <<root_node, nodes, should_not_be_modified, lockvars>>

\* ... and loses it when the traversal comes back over it.
MorrisUnlink(t) ==
  /\ In(t, "morris_traverse", "seek")
  /\ node[call[t].node].right = call[t].root
  /\ node' = [node EXCEPT ![call[t].node].right = Nil]
  /\ call' = [call EXCEPT ![t].at = "top", ![t].root = node[@].right]
  /\ UNCHANGED <<root_node, nodes, should_not_be_modified, lockvars>>

\* Mutant: the user's function is called after the left subtree.
IterateInOrder(t) ==
  /\ In(t, "iterate", "top") /\ call[t].root # Nil
  /\ LET k == call[t].node
         m == node[k]
     IN \/ /\ ~m.left_visited /\ ~m.right_visited
           /\ node' = [node EXCEPT ![k].left_visited = TRUE]
           /\ call' = [call EXCEPT ![t].node = IF m.left = Nil THEN k ELSE m.left]
        \/ /\ m.left_visited /\ ~m.right_visited
           /\ node' = [node EXCEPT ![k].right_visited = TRUE]
           /\ \E c \in Visit(call[t], k) : call' = [call EXCEPT ![t] =
                [c EXCEPT !.node = IF m.right = Nil THEN k ELSE m.right]]
        \/ /\ m.left_visited /\ m.right_visited
           /\ node' = [node EXCEPT ![k].left_visited = FALSE,
                                   ![k].right_visited = FALSE]
           /\ call' = [call EXCEPT
                ![t].node = m.parent,
                ![t].root = IF k = call[t].root THEN Nil ELSE @]
  /\ UNCHANGED <<root_node, nodes, should_not_be_modified, lockvars>>

\* thread_unsafe_avl_tree_iterate.  A node marked on the right alone is an
\* error that is reported, for ever.
IterateTurn(t) ==
  /\ In(t, "iterate", "top") /\ call[t].root # Nil
  /\ LET k == call[t].node
         m == node[k]
     IN \/ /\ ~m.left_visited /\ ~m.right_visited
           /\ node' = [node EXCEPT ![k].left_visited = TRUE]
           /\ \E c \in Visit(call[t], k) : call' = [call EXCEPT ![t] =
                [c EXCEPT !.node = IF m.left = Nil THEN k ELSE m.left]]
        \/ /\ m.left_visited /\ ~m.right_visited
           /\ node' = [node EXCEPT ![k].right_visited = TRUE]
           /\ call' = [call EXCEPT ![t].node =
                         IF m.right = Nil THEN k ELSE m.right]
        \/ /\ m.left_visited /\ m.right_visited
           /\ node' = [node EXCEPT ![k].left_visited = FALSE,
                                   ![k].right_visited = FALSE]
           /\ call' = [call EXCEPT
                ![t].node = m.parent,
                ![t].root = IF k = call[t].root THEN Nil ELSE @]
  /\ UNCHANGED <<root_node, nodes, should_not_be_modified, lockvars>>

TraverseEnd(t) ==
  /\ call[t].op \in Traversals /\ call[t].at = "top" /\ call[t].root = Nil
  /\ should_not_be_modified' = FALSE
  /\ Goto(t, "unlock")
  /\ UNCHANGED <<tree, lockvars>>

-----------------------------------------------------------------------------
\* avl_tree_destroy: thread_unsafe_iterative_destroy frees from the leaves
\* up; the structure is zeroed with its lock, and initialised again.
DestroyStart(t) ==
  /\ In(t, "destroy", "start")
  /\ should_not_be_modified' = TRUE
  /\ call' = [call EXCEPT ![t].at = "burn", ![t].node = root_node]
  /\ UNCHANGED <<tree, lockvars>>

DestroyTurn(t) ==
  /\ In(t, "destroy", "burn") /\ call[t].node # Nil
  /\ LET k == call[t].node
         m == node[k]
         Cut(side) == /\ node' = [node EXCEPT ![k][side] = Nil]
                      /\ call' = [call EXCEPT ![t].node = m[side]]
                      /\ UNCHANGED nodes
     IN \/ m.left # Nil /\ Cut("left")
        \/ m.left = Nil /\ m.right # Nil /\ Cut("right")
        \/ /\ m.left = Nil /\ m.right = Nil
           /\ nodes' = nodes \ {k}
           /\ node' = [node EXCEPT ![k] = Fresh]
           /\ call' = [call EXCEPT ![t].node = m.parent]
  /\ UNCHANGED <<root_node, should_not_be_modified, lockvars>>

DestroyEnd(t) ==
  /\ In(t, "destroy", "burn") /\ call[t].node = Nil
  /\ root_node' = Nil /\ should_not_be_modified' = FALSE
  /\ writer' = {} /\ barred' = FALSE
  /\ call' = [call EXCEPT ![t] = Idle]
  /\ UNCHANGED <<node, nodes, holds>>

Step(t) ==
  \/ \E k \in Keys : Start(t, k)
  \/ Descend(t) \/ Bottom(t) \/ SearchEnd(t) \/ NothingToDo(t)
  \/ InsertFails(t) \/ InsertNode(t) \/ InsertClimb(t) \/ InsertRebalance(t)
  \/ RemoveSplice(t) \/ RemoveClimb(t) \/ RemoveFree(t)
  \/ \E k \in nodes \cup {root_node} : TraverseStart(t, k)
  \/ MorrisTop(t) \/ MorrisSeek(t) \/ MorrisLink(t) \/ MorrisUnlink(t)
  \/ IterateTurn(t) \/ TraverseEnd(t)
  \/ DestroyStart(t) \/ DestroyTurn(t) \/ DestroyEnd(t)
  \/ Unlock(t) \/ Announce(t)

Next == \E t \in Threads :
  \/ \E f \in Ops : Call(t, f)
  \/ LockRead(t) \/ LockWrite(t)
  \/ Step(t)

Spec == Init /\ [][Next]_vars

\* A call that has the lock goes on.
FairSpec == Spec /\ \A t \in Threads : WF_vars(Step(t))

-----------------------------------------------------------------------------
TypeOK ==
  /\ root_node \in Keys \cup {Nil}
  /\ node \in [Keys -> [left : Keys \cup {Nil}, right : Keys \cup {Nil},
                        parent : Keys \cup {Nil}, balance : -2..2,
                        left_visited : BOOLEAN, right_visited : BOOLEAN]]
  /\ nodes \subseteq Keys
  /\ should_not_be_modified \in BOOLEAN
  /\ holds \in [Threads -> {0, 1}] /\ writer \subseteq Threads
  /\ \A t \in Threads : call[t].op \in Ops \cup {"none"}

\* The subtree at k in preorder, down to as many levels as there are nodes.
Top == Cardinality(nodes)
PreOrder[d \in 0..Top, k \in Keys \cup {Nil}] ==
  IF k = Nil \/ d = 0 THEN <<>>
  ELSE <<k>> \o PreOrder[d - 1, node[k].left] \o PreOrder[d - 1, node[k].right]

Between(t) == call[t].op \in Traversals /\ call[t].at \in {"top", "seek"}
Quiet == writer = {} /\ \A t \in Threads : ~Between(t)

\* Every variable has its type; and when nobody changes the tree and no
\* traversal is under way, its nodes in order are the allocated nodes, sorted;
\* every child knows its parent; each balance is the difference of the heights
\* and at most one; no mark is left.
WellFormed ==
  /\ TypeOK
  /\ Quiet =>
       /\ Sorted(Tree, nodes)
       /\ Balanced(Tree, nodes)
       /\ \A k \in nodes : ~node[k].left_visited /\ ~node[k].right_visited

\* A search that shares the tree with a Morris traversal, whose links may
\* lead it back up, still answers for the keys the tree holds.
SearchExact ==
  \A t \in Threads :
    /\ In(t, "search", "found") => call[t].key \in nodes
    /\ In(t, "search", "missing") => call[t].key \notin nodes

\* A traversal has called the user's function once for every node below the
\* one it began at, in preorder, up to the call that failed if one did.
Preordered ==
  \A t \in Threads :
    call[t].op \in Traversals /\ call[t].at = "unlock" =>
      IF call[t].failed
      THEN IsPrefix(call[t].seen, PreOrder[Top, call[t].start])
      ELSE call[t].seen = PreOrder[Top, call[t].start]

Running(t) == call[t].at \notin {"out", "lock"}
Morris == \E t \in Threads : Running(t) /\ call[t].op = "morris_traverse"

\* Every call that has the lock returns; a search, which Morris links lead
\* round and round, returns unless there are Morris traversals for ever.
CallsReturn ==
  \A t \in Threads :
    Running(t) ~> (call[t].op = "none" \/ (call[t].op = "search" /\ Morris))

\* A traversal of the whole tree, whose function never fails, has called it
\* for every node: "we keep on calling it for every node (user data) in the
\* tree" (:500-501).
EveryNodeVisited ==
  \A t \in Threads :
    /\ call[t].op \in Traversals /\ call[t].at = "unlock"
    /\ ~call[t].failed /\ call[t].start = root_node
    => nodes \subseteq ToSet(call[t].seen)
=============================================================================
