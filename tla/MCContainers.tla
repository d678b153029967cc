---------------------------- MODULE MCContainers ----------------------------
(***************************************************************************)
(* Containers for TLC: the constants that a configuration cannot write.    *)
(***************************************************************************)
EXTENDS Containers, TLC

ASSUME ContainersConstants ==
  /\ L!ConstantsOK /\ O!ConstantsOK /\ B!ConstantsOK /\ R!ConstantsOK
  /\ T!ConstantsOK /\ U!ConstantsOK /\ M!ConstantsOK /\ E!ConstantsOK
  /\ A!ConstantsOK /\ I!ConstantsOK /\ S!ConstantsOK /\ V!ConstantsOK

\* Two of the data have the same key.
TwoKeys == {<<1, 1>>, <<2, 1>>, <<2, 2>>}

\* Below zero, across a word's end, at it, and a single bit.
BitRanges == {<<-2, 2>>, <<5, 10>>, <<1, 1>>}

\* A key that is the start of another, and two that differ in each nibble.
KeysOfBytes == {<<0, 1>>, <<1, 0>>, <<0, 1, 1, 0>>}

\* Two sizes to be filled, and two received: a triple that runs past the end,
\* and three triples, the last of which a parse refuses.
EmptyAndReceived ==
  {[i \in 1..7 |-> 0], [i \in 1..8 |-> 0],
   <<1, 1, 5, 2, 2, 6>>, <<1, 1, 5, 2, 1, 6, 1, 0, -1>>}

\* Short enough for a parse, and not.
ValuesOfAllLengths == {<<>>, <<5>>, <<6, 1>>, <<6, 1, 7>>}
ThreePools == <<1, 3, 4>>
TwoTwoOne == <<2, 2, 1>>

\* The same function with three arguments: an int of HALF_INT 4 orders any two
\* of them and not all three.
FarApart == {<<2, 0>>, <<2, 3>>, <<2, 6>>}

MinusOne == -1

\* No two data, traversers or processes are treated differently.
Alike == Permutations(Data) \cup Permutations(Traversers) \cup Permutations(Process)
=============================================================================
