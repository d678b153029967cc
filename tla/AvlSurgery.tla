----------------------------- MODULE AvlSurgery -----------------------------
(***************************************************************************)
(* What avl_tree_object.c and the tree of SHMEM/shared_memory_utils.c do   *)
(* alike to a tree T = [root, node]: node[k] is a record with the fields   *)
(* left, right, parent and balance, and links are names of nodes or Nil.   *)
(* What left and right share is written once, for a side, "left" or        *)
(* "right", and its other.                                                 *)
(***************************************************************************)
EXTENDS Integers, SequencesExt

CONSTANTS Nil   \* a null link

Other(side) == IF side = "left" THEN "right" ELSE "left"
Sign(side) == IF side = "left" THEN -1 ELSE 1
SideOf(T, k, p) == IF T.node[p].left = k THEN "left" ELSE "right"

\* Hang q where p hangs.
Replace(T, p, q) ==
  LET g == T.node[p].parent IN
  IF g = Nil THEN [T EXCEPT !.root = q]
  ELSE [T EXCEPT !.node[g][SideOf(T, p, g)] = q]

SetParent(T, k, p) == IF k = Nil THEN T ELSE [T EXCEPT !.node[k].parent = p]

\* rotate_left for side = "left", rotate_right for "right".
Rotate(T, p, side) ==
  LET q == T.node[p][Other(side)]
      moved == T.node[q][side]
      hung == Replace(T, p, q)
  IN SetParent([hung EXCEPT !.node[q].parent = T.node[p].parent,
                            !.node[p].parent = q,
                            !.node[p][Other(side)] = moved,
                            !.node[q][side] = p], moved, p)

SetBalance(T, k, b) == [T EXCEPT !.node[k].balance = b]

\* Mutant: the double rotation leaves the lifted node's balance as it was.
RebalanceForgets(T, p, side) ==
  LET child == T.node[p][side]
      lifted == T.node[child][Other(side)]
      s == Sign(side)
      b == T.node[lifted].balance
  IN IF T.node[child].balance = s
     THEN Rotate(SetBalance(SetBalance(T, p, 0), child, 0), p, Other(side))
     ELSE LET even == SetBalance(SetBalance(T, p, IF b = s THEN -s ELSE 0),
                                 child, IF b = -s THEN s ELSE 0)
          IN Rotate(Rotate(even, child, side), p, Other(side))

\* The node p is two deeper on a side, and its child there leans one way.
Rebalance(T, p, side) ==
  LET child == T.node[p][side]
      lifted == T.node[child][Other(side)]
      s == Sign(side)
      b == T.node[lifted].balance
  IN IF T.node[child].balance = s
     THEN Rotate(SetBalance(SetBalance(T, p, 0), child, 0), p, Other(side))
     ELSE LET even == SetBalance(SetBalance(SetBalance(T,
                                   p, IF b = s THEN -s ELSE 0),
                                   child, IF b = -s THEN s ELSE 0),
                                   lifted, 0)
          IN Rotate(Rotate(even, child, side), p, Other(side))

\* get_first of the subtree at k for side = "left", get_last for "right".
Outermost(T, k, side) ==
  LET end[x \in DOMAIN T.node] ==
        IF T.node[x][side] = Nil THEN x ELSE end[T.node[x][side]]
  IN end[k]

\* Node k is taken out: one child or none moves up, or the least node of the
\* right subtree takes its place.  What has become shallower is told by the
\* parent it hangs from and its side there.
Splice(T, k) ==
  LET gone == T.node[k]
      next == IF gone.left = Nil THEN gone.right
              ELSE IF gone.right = Nil THEN gone.left
              ELSE Outermost(T, gone.right, "left")
      hung == Replace(T, k, next)
      \* next in the place of k, its left subtree and its parent
      placed == [hung EXCEPT !.node[next].balance = gone.balance,
                             !.node[next].left = gone.left,
                             !.node[gone.left].parent = next,
                             !.node[next].parent = gone.parent]
      up == T.node[next].parent
      tail == T.node[next].right
  IN IF gone.left = Nil \/ gone.right = Nil
     THEN [tree |-> SetParent(hung, next, gone.parent), parent |-> gone.parent,
           side |-> IF gone.parent = Nil THEN "right"
                    ELSE SideOf(T, k, gone.parent)]
     ELSE IF next = gone.right
     THEN [tree |-> placed, parent |-> next, side |-> "right"]
     ELSE [tree |-> SetParent([placed EXCEPT !.node[up].left = tail,
                                             !.node[next].right = gone.right,
                                             !.node[gone.right].parent = next],
                              tail, up),
           parent |-> up, side |-> "left"]

\* One turn of the loop that ends a removal: node p has become shallower on
\* a side.  The subtree at p is then as deep as before (level), or its parent
\* is told in turn.
Shallower(T, p, side) ==
  LET heavy == Other(side)
      s == Sign(heavy)
      b == T.node[p].balance + s
      child == T.node[p][heavy]
      g == T.node[p].parent
      level == b # 0 /\ (b = s \/ T.node[child].balance = 0)
  IN [tree |-> CASE b \in {0, s} -> SetBalance(T, p, b)
                 [] b = 2 * s /\ T.node[child].balance = 0 ->
                      Rotate(SetBalance(SetBalance(T, p, s), child, -s), p, side)
                 [] OTHER -> Rebalance(T, p, heavy),
      parent |-> IF level THEN Nil ELSE g,
      side |-> IF g = Nil THEN "right" ELSE SideOf(T, p, g)]

-----------------------------------------------------------------------------
(***************************************************************************)
(* What a tree is to be, whose allocated nodes are the given ones.  The    *)
(* links are followed down to as many levels as there are nodes, should    *)
(* they run in a circle.                                                   *)
(***************************************************************************)
InOrder(T, nodes) ==
  LET walk[d \in 0..Cardinality(nodes), k \in DOMAIN T.node \cup {Nil}] ==
        IF k = Nil \/ d = 0 THEN <<>>
        ELSE walk[d - 1, T.node[k].left] \o <<k>> \o walk[d - 1, T.node[k].right]
  IN walk[Cardinality(nodes), T.root]

\* Its nodes in order are the allocated ones, sorted by their names.
Sorted(T, nodes) ==
  LET all == InOrder(T, nodes) IN
  /\ ToSet(all) = nodes
  /\ \A i \in 1..(Len(all) - 1) : all[i] < all[i + 1]

\* Every child knows its parent; each balance is the difference of the
\* heights and at most one.
Balanced(T, nodes) ==
  LET height[d \in 0..Cardinality(nodes), k \in DOMAIN T.node \cup {Nil}] ==
        IF k = Nil \/ d = 0 THEN 0
        ELSE 1 + Max({height[d - 1, T.node[k].left],
                      height[d - 1, T.node[k].right]})
      Height(k) == height[Cardinality(nodes), k]
  IN /\ T.root # Nil => T.node[T.root].parent = Nil
     /\ \A k \in nodes :
          LET m == T.node[k] IN
          /\ \A side \in {"left", "right"} :
               m[side] # Nil => T.node[m[side]].parent = k
          /\ m.balance = Height(m.right) - Height(m.left)
          /\ m.balance \in -1..1
=============================================================================
