---------------------------- MODULE SortedIndex -----------------------------
(***************************************************************************)
(* What index_object.h promises of an index: a set of data with one datum  *)
(* for each key, changed by one whole insertion, overwrite, removal or     *)
(* reset at a time.  A datum is <<key, tag>>.                              *)
(***************************************************************************)
EXTENDS Naturals

CONSTANT Data
VARIABLE content

SameKey(d) == {e \in content : e[1] = d[1]}

Put(d) ==
  /\ SameKey(d) = {}
  /\ content' = content \cup {d}

Replace(d) ==
  /\ SameKey(d) # {}
  /\ content' = (content \ SameKey(d)) \cup {d}

Delete(d) ==
  /\ SameKey(d) # {}
  /\ content' = content \ SameKey(d)

Empty == content' = {}

IndexNext == Empty \/ \E d \in Data : Put(d) \/ Replace(d) \/ Delete(d)

IndexSpec == content = {} /\ [][IndexNext]_content
=============================================================================
