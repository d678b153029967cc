--------------------------- MODULE MCIndexObject ----------------------------
(***************************************************************************)
(* IndexObject for TLC: who calls what of a thread safe index and of one   *)
(* that is not, which a single thread uses, and a small set of data.       *)
(***************************************************************************)
EXTENDS IndexObject

CONSTANTS w, r   \* a thread that modifies the index, one that reads it

\* The calls of a thread safe index, and those of w on one that is not.
Users(safe, unsafe) ==
  (TRUE :> safe) @@ (FALSE :> (w :> unsafe @@ r :> {}))

\* One modifier and one reader; alone, every function.
ModifierAndReader ==
  Users(w :> {"insert", "remove", "trim", "traverse"} @@ r :> {"search", "traverse"}, Ops)
ModifierAndTrimmer == Users(w :> {"insert", "remove"} @@ r :> {"trim"}, {})

\* Callbacks that call back, where nothing locks.
Callbacks ==
  (TRUE :> {}) @@ (FALSE :> {"insert", "remove", "search", "trim"})
NoCallbacks == [m \in BOOLEAN |-> {}]

\* Two data share the key 2, so that an overwrite changes something.
ThreeKeys == {<<1, 0>>, <<2, 0>>, <<2, 1>>, <<3, 0>>}
=============================================================================
