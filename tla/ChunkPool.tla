----------------------------- MODULE ChunkPool ------------------------------
(***************************************************************************)
(* What chunk_manager.h promises: a chunk handed out is nobody else's and  *)
(* its address stays valid until it is given back; groups of chunks come   *)
(* from the system and go back to it, never one with a chunk in use.       *)
(***************************************************************************)
EXTENDS Naturals

CONSTANTS Group,     \* addresses the system can give a group of chunks
          PerGroup   \* chunks_per_group

VARIABLES inuse,     \* chunks in the users' hands
          mapped     \* groups obtained from the system

poolvars == <<inuse, mapped>>

PoolInit == inuse = {} /\ mapped = {}

Grow(g) ==
  /\ g \notin mapped
  /\ mapped' = mapped \cup {g}
  /\ UNCHANGED inuse

Take(g, i) ==
  /\ g \in mapped
  /\ <<g, i>> \notin inuse
  /\ inuse' = inuse \cup {<<g, i>>}
  /\ UNCHANGED mapped

Give(g, i) ==
  /\ <<g, i>> \in inuse
  /\ inuse' = inuse \ {<<g, i>>}
  /\ UNCHANGED mapped

Shrink(g) ==
  /\ g \in mapped
  /\ \A i \in 1..PerGroup : <<g, i>> \notin inuse
  /\ mapped' = mapped \ {g}
  /\ UNCHANGED inuse

PoolNext ==
  \E g \in Group :
    \/ Grow(g) \/ Shrink(g)
    \/ \E i \in 1..PerGroup : Take(g, i) \/ Give(g, i)

PoolSpec == PoolInit /\ [][PoolNext]_poolvars
=============================================================================
