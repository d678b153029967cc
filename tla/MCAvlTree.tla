----------------------------- MODULE MCAvlTree ------------------------------
(* AvlTree for TLC: who calls what.                                        *)
EXTENDS AvlTree

CONSTANTS
  changer,   \* a thread that modifies and searches
  walker     \* one that traverses

Together ==
  changer :> {"insert", "remove", "destroy", "search"} @@ walker :> Traversals
TwoTraversals ==
  changer :> {"insert", "morris_traverse"} @@ walker :> {"morris_traverse"}
=============================================================================
