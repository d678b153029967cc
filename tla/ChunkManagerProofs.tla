------------------------- MODULE ChunkManagerProofs -------------------------
(***************************************************************************)
(* For every set of threads, finite set of addresses and size of a group:  *)
(* chunk_manager.c hands each chunk to one user, keeps the memory of what  *)
(* is out, counts exactly, leaks nothing, and implements ChunkPool.        *)
(***************************************************************************)
EXTENDS ChunkManager, DataLemmas, FiniteSetTheorems

\* The chunks outside the manager, and the others of a group.
Out == inuse \cup InFlight
Avail(g) == {i \in 1..PerGroup : <<g, i>> \notin Out}
ChunksOf(G) == G \X (1..PerGroup)

\* The lock is held from the first statement of a body to the unlock.
LockHeld ==
  \A t \in Threads : at[t] \in {"body", "block", "groups", "unlock"} <=> lock = t

\* Which function a thread can be in at each place, and with which argument.
PlaceOf ==
  \A t \in Threads :
    /\ at[t] = "out" <=> op[t] = "none"
    /\ at[t] = "block" => op[t] = "alloc" /\ arg[t] \in Group
    /\ at[t] = "groups" => op[t] = "trim"
    /\ at[t] = "unlock" => op[t] # "destroy"
    /\ Returning(t) => arg[t] \in Chunk

\* Who destroys the manager is its only user.
DestroyAlone ==
  \A t \in Threads : op[t] = "destroy" =>
    inuse = {} /\ \A u \in Threads \ {t} : op[u] = "none"

\* The count of a group is the number of its chunks that are not out.
CountOf == \A g \in blocks : n_grp_free[g] = Cardinality(Avail(g))

\* A group has both of its mallocs, but for the one that is being made.
StructsOf ==
  /\ \A t \in Threads : at[t] = "block" =>
       arg[t] \notin blocks /\ structs = blocks \cup {arg[t]}
  /\ (\A t \in Threads : at[t] # "block") => structs = blocks

\* No loop of trim or destroy has the lists in its hands.
Settled ==
  \A t \in Threads :
    ~In(t, "trim", "body") /\ ~In(t, "trim", "groups") /\ ~In(t, "destroy", "body")

\* Then every chunk of the groups is on the free list or out.
WhenSettled ==
  Settled =>
    /\ IsInjective(groups)
    /\ blocks = ToSet(groups)
    /\ ToSet(free_chunks_list) \cup Out = ChunksOf(ToSet(groups))

\* First pass of trim: what is neither on a list nor out has been dropped;
\* it belongs to wholly free groups, of which nothing has been kept.
Kept == ToSet(free_chunks_list) \cup ToSet(rest) \cup Out
WhenTrimming ==
  \A t \in Threads : In(t, "trim", "body") =>
    /\ rest \in Seq(Chunk) /\ IsInjective(rest)
    /\ ToSet(rest) \cap (ToSet(free_chunks_list) \cup Out) = {}
    /\ IsInjective(groups)
    /\ blocks = ToSet(groups)
    /\ Kept \subseteq ChunksOf(ToSet(groups))
    /\ \A c \in ToSet(free_chunks_list) : ~WhollyFree(c[1])
    /\ \A c \in ChunksOf(ToSet(groups)) \ Kept : WhollyFree(c[1])
    /\ dropped = Cardinality(ChunksOf(ToSet(groups)) \ Kept)
    /\ freed = 0

\* Second pass: the groups kept so far are not wholly free, and the chunks of
\* all that are not are free or out.
WhenSweeping ==
  \A t \in Threads : In(t, "trim", "groups") =>
    /\ rest \in Seq(Group) /\ IsInjective(rest)
    /\ IsInjective(groups)
    /\ ToSet(rest) \cap ToSet(groups) = {}
    /\ blocks = ToSet(groups) \cup ToSet(rest)
    /\ \A g \in ToSet(groups) : ~WhollyFree(g)
    /\ ToSet(free_chunks_list) \cup Out = ChunksOf({g \in blocks : ~WhollyFree(g)})
    /\ dropped
         = PerGroup * (freed + Cardinality({g \in ToSet(rest) : WhollyFree(g)}))

\* Destroy: what is still to be freed.
WhenDestroying ==
  \A t \in Threads : In(t, "destroy", "body") =>
    rest \in Seq(Group) /\ IsInjective(rest) /\ blocks = ToSet(rest)

\* The inductive invariant.
IInv ==
  /\ TypeOK
  /\ LockHeld /\ PlaceOf /\ DestroyAlone
  /\ AddressesStay
  /\ HandedOutOnce
  /\ CountOf /\ StructsOf
  /\ WhenSettled /\ WhenTrimming /\ WhenSweeping /\ WhenDestroying
  /\ TrimThorough

-----------------------------------------------------------------------------
(***************************************************************************)
(* Facts about the chunks that are out and the counts.                     *)
(***************************************************************************)

\* What is out are chunks, and a thread that gives one back has it out.
LEMMA OutTyped ==
  ASSUME TypeOK, PlaceOf
  PROVE  /\ Out \subseteq Chunk
         /\ \A t \in Threads : Returning(t) => arg[t] \in Out
BY DEF TypeOK, PlaceOf, Out, InFlight

\* A step that starts and ends no chunk_free and touches no user's chunk.
LEMMA OutKept ==
  ASSUME inuse' = inuse,
         \A t \in Threads :
           /\ Returning(t)' = Returning(t)
           /\ Returning(t) => arg'[t] = arg[t]
  PROVE  InFlight' = InFlight /\ Out' = Out
BY DEF InFlight, Out

\* The chunks of a group can be counted.
LEMMA AvailFinite ==
  ASSUME NEW g
  PROVE  /\ IsFiniteSet(Avail(g))
         /\ Cardinality(Avail(g)) \in 0..PerGroup
         /\ Cardinality(Avail(g)) = PerGroup => Avail(g) = 1..PerGroup
         /\ Cardinality(1..PerGroup) = PerGroup /\ IsFiniteSet(1..PerGroup)
<1>1. IsFiniteSet(1..PerGroup) /\ Cardinality(1..PerGroup) = PerGroup
  BY PerGroupPositive, FS_Interval
<1>2. Avail(g) \subseteq 1..PerGroup
  BY DEF Avail
<1>3. QED
  BY <1>1, <1>2, PerGroupPositive, FS_Subset, FS_CardinalityType

\* The count tells whether a group may be freed: nothing of it is out.
LEMMA WhollyFreeMeans ==
  ASSUME TypeOK, PlaceOf, CountOf, NEW g \in blocks
  PROVE  WhollyFree(g) <=> \A c \in Out : c[1] # g
<1>1. n_grp_free[g] = Cardinality(Avail(g))
  BY DEF CountOf
<1>2. ASSUME WhollyFree(g), NEW c \in Out, c[1] = g
      PROVE  FALSE
  <2>1. Avail(g) = 1..PerGroup
    BY <1>1, <1>2, AvailFinite, PerGroupPositive DEF WhollyFree
  <2>2. c = <<g, c[2]>> /\ c[2] \in 1..PerGroup
    BY <1>2, OutTyped DEF Chunk
  <2>3. QED
    BY <1>2, <2>1, <2>2 DEF Avail
<1>3. ASSUME \A c \in Out : c[1] # g
      PROVE  WhollyFree(g)
  <2>1. Avail(g) = 1..PerGroup
    BY <1>3 DEF Avail
  <2>2. QED
    BY <1>1, <2>1, AvailFinite, PerGroupPositive DEF WhollyFree
<1>4. QED
  BY <1>2, <1>3

\* A chunk that goes out leaves one less, one that comes back one more.
LEMMA AvailLoses ==
  ASSUME NEW g, NEW i \in 1..PerGroup, <<g, i>> \notin Out,
         Out' = Out \cup {<<g, i>>}
  PROVE  /\ Cardinality(Avail(g)) > 0
         /\ Cardinality(Avail(g)') = Cardinality(Avail(g)) - 1
         /\ \A h : h # g => Avail(h)' = Avail(h)
<1>1. Avail(g)' = Avail(g) \ {i} /\ i \in Avail(g)
  BY DEF Avail
<1>2. Cardinality(Avail(g)) # 0
  BY <1>1, AvailFinite, FS_EmptySet
<1>3. \A h : h # g => Avail(h)' = Avail(h)
  BY DEF Avail
<1>4. Cardinality(Avail(g) \ {i}) = Cardinality(Avail(g)) - 1
  BY <1>1, AvailFinite, FS_RemoveElement
<1>5. Cardinality(Avail(g)) \in 0..PerGroup
  BY AvailFinite
<1>6. QED
  BY <1>1, <1>2, <1>3, <1>4, <1>5

LEMMA AvailGains ==
  ASSUME NEW g, NEW i \in 1..PerGroup, <<g, i>> \in Out,
         Out' = Out \ {<<g, i>>}
  PROVE  /\ Cardinality(Avail(g)) < PerGroup
         /\ Cardinality(Avail(g)') = Cardinality(Avail(g)) + 1
         /\ \A h : h # g => Avail(h)' = Avail(h)
<1>1. Avail(g)' = Avail(g) \cup {i} /\ i \notin Avail(g)
  BY DEF Avail
<1>2. Cardinality(Avail(g)) # PerGroup
  BY <1>1, AvailFinite
<1>3. \A h : h # g => Avail(h)' = Avail(h)
  BY DEF Avail
<1>4. Cardinality(Avail(g) \cup {i}) = Cardinality(Avail(g)) + 1
  BY <1>1, AvailFinite, FS_AddElement
<1>5. Cardinality(Avail(g)) \in 0..PerGroup
  BY AvailFinite
<1>6. QED
  BY <1>1, <1>2, <1>3, <1>4, <1>5, PerGroupPositive

\* The sets of groups and of their chunks are finite.
LEMMA ChunksFinite ==
  ASSUME NEW G \in SUBSET Group
  PROVE  /\ IsFiniteSet(G) /\ Cardinality(G) \in Nat
         /\ IsFiniteSet(ChunksOf(G))
         /\ Cardinality(ChunksOf(G)) = Cardinality(G) * PerGroup
         /\ \A C \in SUBSET ChunksOf(G) : IsFiniteSet(C) /\ Cardinality(C) \in Nat
<1>1. IsFiniteSet(G) /\ Cardinality(G) \in Nat
  BY GroupFinite, FS_Subset, FS_CardinalityType
<1>2. IsFiniteSet(1..PerGroup) /\ Cardinality(1..PerGroup) = PerGroup
  BY PerGroupPositive, FS_Interval
<1>3. /\ IsFiniteSet(ChunksOf(G))
      /\ Cardinality(ChunksOf(G)) = Cardinality(G) * PerGroup
  BY <1>1, <1>2, FS_Product DEF ChunksOf
<1>4. QED
  BY <1>1, <1>3, FS_Subset, FS_CardinalityType

-----------------------------------------------------------------------------
(***************************************************************************)
(* The invariant is inductive: the calls and the lock.                     *)
(***************************************************************************)

LEMMA InitInv == Init => IInv
<1> SUFFICES ASSUME Init PROVE IInv
  OBVIOUS
<1>1. Out = {} /\ InFlight = {}
  BY DEF Init, Out, InFlight, Returning
<1>2. TypeOK
  <2>1. 0 \in 0..PerGroup
    BY PerGroupPositive
  <2>2. QED
    BY <2>1 DEF Init, TypeOK
<1>3. ToSet(free_chunks_list) = {} /\ ToSet(groups) = {}
  BY ElementsOfEmpty DEF Init
<1>4. WhenSettled
  BY <1>1, <1>3, ElementsOfEmpty DEF Init, WhenSettled, ChunksOf
<1>5. HandedOutOnce
  BY <1>1, <1>3, ElementsOfEmpty DEF Init, HandedOutOnce, Returning
<1>6. AddressesStay
  BY <1>1 DEF Init, AddressesStay, Out
<1>7. QED
  BY <1>2, <1>4, <1>5, <1>6, NoThreadIsNone DEF Init, IInv, LockHeld, PlaceOf,
    DestroyAlone, CountOf, StructsOf, WhenTrimming, WhenSweeping,
    WhenDestroying, TrimThorough, In, Returning

\* A step that touches neither the lists nor what is out, and neither starts
\* nor ends a loop of trim or destroy.
LEMMA PhasesKept ==
  ASSUME CountOf, AddressesStay,
         WhenSettled, WhenTrimming, WhenSweeping, WhenDestroying,
         UNCHANGED <<lists, memory, loop>>, Out' = Out,
         \A t \in Threads :
           /\ In(t, "trim", "body")' = In(t, "trim", "body")
           /\ In(t, "trim", "groups")' = In(t, "trim", "groups")
           /\ In(t, "destroy", "body")' = In(t, "destroy", "body")
  PROVE  /\ CountOf' /\ AddressesStay'
         /\ WhenSettled' /\ WhenTrimming' /\ WhenSweeping' /\ WhenDestroying'
<1>1. UNCHANGED <<free_chunks_list, groups, n_grp_free, structs, blocks, rest,
                  dropped, freed>>
  BY DEF lists, memory, loop
<1>2. CountOf'
  BY <1>1 DEF CountOf, Avail
<1>3. AddressesStay'
  BY <1>1 DEF AddressesStay, Out
<1>4. WhenSettled'
  BY <1>1 DEF WhenSettled, Settled
<1>5. Kept' = Kept /\ \A g : WhollyFree(g)' = WhollyFree(g)
  BY <1>1 DEF Kept, WhollyFree
<1>6. WhenTrimming'
  BY <1>1, <1>5 DEF WhenTrimming
<1>7. WhenSweeping'
  BY <1>1, <1>5 DEF WhenSweeping
<1>8. WhenDestroying'
  BY <1>1 DEF WhenDestroying
<1>9. QED
  BY <1>2, <1>3, <1>4, <1>6, <1>7, <1>8

\* A call: chunk_free takes a chunk from the user, and no one else has it.
LEMMA CallInv ==
  ASSUME IInv, NEW t \in Threads,
         \/ CallAlloc(t) \/ CallTrim(t) \/ CallDestroy(t)
         \/ \E c \in Chunk : CallFree(t, c)
  PROVE  IInv'
<1> USE DEF IInv
<1>1. PICK f \in {"alloc", "trim", "destroy", "free"} :
        /\ Call(t, f)
        /\ f = "destroy" => inuse = {} /\ \A u \in Threads : op[u] = "none"
        /\ f # "free" => UNCHANGED <<inuse, arg>>
        /\ f = "free" => /\ arg[t]' \in inuse /\ inuse' = inuse \ {arg[t]'}
                         /\ arg' = [arg EXCEPT ![t] = arg[t]']
  <2>1. arg \in [Threads -> Chunk \cup Group \cup {None}]
    BY DEF TypeOK
  <2>2. QED
    BY <2>1 DEF CallAlloc, CallTrim, CallDestroy, CallFree
<1>2. /\ op[t] = "none" /\ at[t] = "out" /\ ~Returning(t)
      /\ op' = [op EXCEPT ![t] = f] /\ at' = [at EXCEPT ![t] = "lock"]
      /\ UNCHANGED <<lists, memory, lock, loop>>
      /\ \A u \in Threads : op[u] # "destroy"
  BY <1>1 DEF Call, Goto, PlaceOf, Returning
<1>3. /\ op \in [Threads -> {"none", "alloc", "free", "trim", "destroy"}]
      /\ at \in [Threads -> {"out", "lock", "body", "block", "groups", "unlock"}]
      /\ arg \in [Threads -> Chunk \cup Group \cup {None}]
      /\ inuse \subseteq Chunk
  BY DEF TypeOK
<1>4. TypeOK'
  BY <1>1, <1>2, <1>3 DEF TypeOK, lists, memory, loop
<1>5. \A u \in Threads :
        /\ Returning(u)' <=> Returning(u) \/ (u = t /\ f = "free")
        /\ Returning(u) => u # t /\ arg'[u] = arg[u]
  BY <1>1, <1>2, <1>3 DEF Returning
<1>6. InFlight' = IF f = "free" THEN InFlight \cup {arg[t]'} ELSE InFlight
  BY <1>1, <1>5 DEF InFlight
<1>7. Out' = Out
  BY <1>1, <1>6 DEF Out
<1>8. HandedOutOnce'
  <2>1. ToSet(free_chunks_list) \cap (inuse \cup InFlight)' = {}
    BY <1>7 DEF HandedOutOnce, Out
  <2>2. (inuse \cap InFlight)' = {}
    BY <1>1, <1>6 DEF HandedOutOnce
  <2>3. ASSUME NEW u \in Threads, NEW v \in Threads,
               (Returning(u) /\ Returning(v) /\ arg[u] = arg[v])'
        PROVE  u = v
    <3>1. CASE Returning(u) /\ Returning(v)
      BY <1>5, <2>3, <3>1 DEF HandedOutOnce
    <3>2. ASSUME NEW x \in Threads, Returning(x), f = "free", arg[t]' = arg'[x]
          PROVE  FALSE
      <4>1. arg[t]' = arg[x] /\ arg[t]' \in inuse
        BY <1>1, <1>5, <3>2
      <4>2. arg[x] \in InFlight
        BY <3>2 DEF InFlight
      <4>3. QED
        BY <4>1, <4>2 DEF HandedOutOnce
    <3>3. QED
      BY <1>5, <2>3, <3>1, <3>2
  <2>4. QED
    BY <1>2, <2>1, <2>2, <2>3 DEF HandedOutOnce, lists
<1>9. \A u \in Threads :
        /\ In(u, "trim", "body")' = In(u, "trim", "body")
        /\ In(u, "trim", "groups")' = In(u, "trim", "groups")
        /\ In(u, "trim", "unlock")' = In(u, "trim", "unlock")
        /\ In(u, "destroy", "body")' = In(u, "destroy", "body")
        /\ (at[u] = "block")' = (at[u] = "block")
        /\ at[u] = "block" => arg'[u] = arg[u]
  BY <1>1, <1>2, <1>3 DEF In
<1>10. /\ CountOf' /\ AddressesStay'
       /\ WhenSettled' /\ WhenTrimming' /\ WhenSweeping' /\ WhenDestroying'
  BY <1>2, <1>7, <1>9, PhasesKept
<1>11. LockHeld' /\ PlaceOf'
  BY <1>1, <1>2, <1>3, <1>5 DEF LockHeld, PlaceOf
<1>12. DestroyAlone'
  BY <1>1, <1>2, <1>3 DEF DestroyAlone
<1>13. StructsOf'
  BY <1>2, <1>9 DEF StructsOf, memory
<1>14. TrimThorough'
  BY <1>2, <1>9 DEF TrimThorough, WhollyFree, lists, memory, loop
<1>15. QED
  BY <1>4, <1>8, <1>10, <1>11, <1>12, <1>13, <1>14

\* With the lock free, or in a body without a loop, nothing is in pieces.
LEMMA OthersOut ==
  ASSUME IInv, NEW t \in Threads, lock = t \/ lock = NoThread
  PROVE  \A u \in Threads \ {t} : at[u] \in {"out", "lock"}
BY NoThreadIsNone DEF IInv, LockHeld, TypeOK

\* The lock is taken; trim and destroy take the list they consume.
LEMMA AcquireInv ==
  ASSUME IInv, NEW t \in Threads, Acquire(t)
  PROVE  IInv'
<1> USE DEF IInv
<1>1. /\ at[t] = "lock" /\ lock = NoThread /\ lock' = t
      /\ at' = [at EXCEPT ![t] = "body"]
      /\ dropped' = 0 /\ freed' = 0
      /\ UNCHANGED <<groups, n_grp_free, memory, inuse, op, arg>>
      /\ \A u \in Threads \ {t} : at[u] \in {"out", "lock"}
  BY OthersOut DEF Acquire, Goto
<1>2. /\ op \in [Threads -> {"none", "alloc", "free", "trim", "destroy"}]
      /\ at \in [Threads -> {"out", "lock", "body", "block", "groups", "unlock"}]
      /\ free_chunks_list \in Seq(Chunk) /\ groups \in Seq(Group)
      /\ op[t] \in {"alloc", "free", "trim", "destroy"}
  BY <1>1 DEF TypeOK, PlaceOf
<1>3. Settled
  BY <1>1 DEF Settled, In
<1>4. /\ op[t] = "trim" => rest' = free_chunks_list /\ free_chunks_list' = <<>>
      /\ op[t] = "destroy" => rest' = groups
      /\ op[t] \notin {"trim", "destroy"} => rest' = <<>>
      /\ op[t] # "trim" => free_chunks_list' = free_chunks_list
  BY <1>2 DEF Acquire
<1>5. Out' = Out /\ InFlight' = InFlight
  <2>1. \A u \in Threads : Returning(u)' = Returning(u)
    BY <1>1, <1>2 DEF Returning
  <2>2. QED
    BY <1>1, <2>1, OutKept
<1>6. TypeOK'
  BY <1>1, <1>2, <1>4, EmptySeq DEF TypeOK, memory
<1>7. LockHeld' /\ PlaceOf' /\ DestroyAlone'
  BY <1>1, <1>2, NoThreadIsNone DEF LockHeld, PlaceOf, DestroyAlone, Returning
<1>8. AddressesStay' /\ CountOf'
  BY <1>1, <1>5 DEF AddressesStay, CountOf, Avail, Out, memory
<1>9. HandedOutOnce'
  <2>1. \A u \in Threads : Returning(u)' = Returning(u)
    BY <1>1, <1>2 DEF Returning
  <2>2. IsInjective(free_chunks_list') /\
        ToSet(free_chunks_list') \cap (inuse \cup InFlight)' = {}
    BY <1>1, <1>4, <1>5, ElementsOfEmpty DEF HandedOutOnce
  <2>3. QED
    BY <1>1, <1>5, <2>1, <2>2 DEF HandedOutOnce
<1>10. StructsOf'
  BY <1>1, <1>2 DEF StructsOf, memory
<1>11. /\ IsInjective(groups) /\ blocks = ToSet(groups)
       /\ ToSet(free_chunks_list) \cup Out = ChunksOf(ToSet(groups))
  BY <1>3 DEF WhenSettled
<1>12. WhenSettled'
  <2> SUFFICES ASSUME Settled' PROVE WhenSettled'
    BY DEF WhenSettled
  <2>1. op[t] # "trim"
    BY <1>1, <1>2 DEF Settled, In
  <2>2. QED
    BY <1>1, <1>4, <1>5, <1>11, <2>1 DEF WhenSettled, memory
<1>13. WhenTrimming'
  <2>1. SUFFICES ASSUME op[t] = "trim"
                 PROVE  WhenTrimming'
    BY <1>1, <1>2 DEF WhenTrimming, In
  <2>2. rest' \in Seq(Chunk) /\ IsInjective(rest')
    BY <1>2, <1>4, <2>1 DEF HandedOutOnce
  <2>3. ToSet(free_chunks_list') = {}
    BY <1>4, <2>1, ElementsOfEmpty
  <2>4. Kept' = ChunksOf(ToSet(groups))
    BY <1>4, <1>5, <1>11, <2>1, <2>3 DEF Kept
  <2>5. (ChunksOf(ToSet(groups)) \ Kept)' = {}
    BY <1>1, <2>4 DEF ChunksOf
  <2>6. ToSet(rest') \cap (ToSet(free_chunks_list') \cup Out') = {}
    BY <1>4, <1>5, <2>1, <2>3 DEF HandedOutOnce, Out
  <2>7. QED
    BY <1>1, <1>11, <2>2, <2>3, <2>4, <2>5, <2>6, FS_EmptySet
      DEF WhenTrimming, memory
<1>14. WhenSweeping' /\ TrimThorough'
  BY <1>1, <1>2 DEF WhenSweeping, TrimThorough, In
<1>15. WhenDestroying'
  BY <1>1, <1>2, <1>4, <1>11 DEF WhenDestroying, In, memory
<1>16. QED
  BY <1>6, <1>7, <1>8, <1>9, <1>10, <1>12, <1>13, <1>14, <1>15

\* A function returns, or gives up for want of memory for a structure.
LEMMA ReleaseInv ==
  ASSUME IInv, NEW t \in Threads, Release(t) \/ StructFails(t)
  PROVE  IInv'
<1> USE DEF IInv
<1>1. /\ UNCHANGED <<lists, memory, inuse, loop>>
      /\ lock = t /\ lock' \in {t, NoThread}
      /\ \A u \in Threads \ {t} : at[u] \in {"out", "lock"}
      /\ op[t] # "destroy" /\ (op[t] = "alloc" \/ at[t] = "unlock")
      /\ at[t] # "block" /\ at[t] # "groups"
  <2>1. lock = t
    BY DEF Release, StructFails, In, LockHeld
  <2>2. QED
    BY <2>1, OthersOut DEF Release, StructFails, In, PlaceOf
<1>2. /\ op \in [Threads -> {"none", "alloc", "free", "trim", "destroy"}]
      /\ at \in [Threads -> {"out", "lock", "body", "block", "groups", "unlock"}]
      /\ arg \in [Threads -> Chunk \cup Group \cup {None}]
  BY DEF TypeOK
<1>3. /\ \A u \in Threads \ {t} : op'[u] = op[u] /\ at'[u] = at[u] /\ arg'[u] = arg[u]
      /\ \/ op'[t] = "none" /\ at'[t] = "out" /\ lock' = NoThread
         \/ op'[t] = "alloc" /\ at'[t] = "unlock" /\ lock' = t
      /\ op' \in [Threads -> {"none", "alloc", "free", "trim", "destroy"}]
      /\ at' \in [Threads -> {"out", "lock", "body", "block", "groups", "unlock"}]
      /\ arg' \in [Threads -> Chunk \cup Group \cup {None}]
  BY <1>1, <1>2 DEF Release, StructFails, Goto, In
<1>4. \A u \in Threads :
        /\ Returning(u)' = Returning(u) /\ (Returning(u) => arg'[u] = arg[u])
        /\ In(u, "trim", "body")' = In(u, "trim", "body")
        /\ In(u, "trim", "groups")' = In(u, "trim", "groups")
        /\ In(u, "destroy", "body")' = In(u, "destroy", "body")
        /\ ~In(u, "trim", "unlock")'
        /\ at[u] # "block" /\ at'[u] # "block"
  BY <1>1, <1>3 DEF Returning, In
<1>5. InFlight' = InFlight /\ Out' = Out
  BY <1>1, <1>4, OutKept
<1>6. TypeOK'
  BY <1>1, <1>3 DEF TypeOK, lists, memory, loop
<1>7. LockHeld' /\ PlaceOf' /\ DestroyAlone'
  BY <1>1, <1>3, <1>4, NoThreadIsNone DEF LockHeld, PlaceOf, DestroyAlone
<1>8. HandedOutOnce'
  BY <1>1, <1>4, <1>5 DEF HandedOutOnce, lists
<1>9. /\ CountOf' /\ AddressesStay'
      /\ WhenSettled' /\ WhenTrimming' /\ WhenSweeping' /\ WhenDestroying'
  BY <1>1, <1>4, <1>5, PhasesKept
<1>10. StructsOf' /\ TrimThorough'
  BY <1>1, <1>4 DEF StructsOf, TrimThorough, memory
<1>11. QED
  BY <1>6, <1>7, <1>8, <1>9, <1>10

-----------------------------------------------------------------------------
(***************************************************************************)
(* The bodies of chunk_alloc and chunk_free.  Their thread has the lock,   *)
(* so no loop is running and the lists are whole.                          *)
(***************************************************************************)

\* What a step of alloc or free keeps, whatever it does to the lists.
LEMMA AllocFreeFrame ==
  ASSUME IInv, NEW t \in Threads, op[t] \in {"alloc", "free"},
         NEW place \in {"body", "block", "unlock"},
         at[t] \in {"body", "block"}, at' = [at EXCEPT ![t] = place],
         UNCHANGED <<op, lock>>
  PROVE  /\ lock = t /\ \A u \in Threads \ {t} : at[u] \in {"out", "lock"}
         /\ Settled /\ Settled' /\ LockHeld'
         /\ WhenTrimming' /\ WhenSweeping' /\ WhenDestroying' /\ TrimThorough'
         /\ \A u \in Threads : op[u] # "destroy"
         /\ \A u \in Threads \ {t} : Returning(u)' = Returning(u)
         /\ IsInjective(groups) /\ blocks = ToSet(groups)
         /\ ToSet(free_chunks_list) \cup Out = ChunksOf(ToSet(groups))
<1>1. at \in [Threads -> {"out", "lock", "body", "block", "groups", "unlock"}]
  BY DEF IInv, TypeOK
<1>2. lock = t /\ \A u \in Threads \ {t} : at[u] \in {"out", "lock"}
  BY OthersOut DEF IInv, LockHeld
<1>3. Settled /\ Settled'
  BY <1>1, <1>2 DEF Settled, In
<1>4. LockHeld'
  BY <1>1, <1>2 DEF IInv, LockHeld
<1>5. WhenTrimming' /\ WhenSweeping' /\ WhenDestroying' /\ TrimThorough'
  BY <1>1, <1>2 DEF WhenTrimming, WhenSweeping, WhenDestroying, TrimThorough, In
<1>6. \A u \in Threads : op[u] # "destroy"
  BY DEF IInv, DestroyAlone
<1>7. \A u \in Threads \ {t} : Returning(u)' = Returning(u)
  BY <1>1 DEF Returning
<1>8. QED
  BY <1>2, <1>3, <1>4, <1>5, <1>6, <1>7 DEF IInv, WhenSettled

\* The head of the free list goes out; it was no one's.
LEMMA AllocPopInv ==
  ASSUME IInv, NEW t \in Threads, AllocPop(t)
  PROVE  IInv'
<1> USE DEF IInv
<1>1. free_chunks_list # <<>> /\ free_chunks_list \in Seq(Chunk)
  BY DEF AllocPop, TypeOK
<1>2. PICK g \in Group, i \in 1..PerGroup : Head(free_chunks_list) = <<g, i>>
  BY <1>1, ElementsOfTail DEF Chunk
<1> DEFINE c == <<g, i>>
<1>3. /\ op[t] = "alloc" /\ at[t] = "body"
      /\ free_chunks_list' = Tail(free_chunks_list)
      /\ n_grp_free' = [n_grp_free EXCEPT ![g] = @ - 1]
      /\ inuse' = inuse \cup {c}
      /\ at' = [at EXCEPT ![t] = "unlock"]
      /\ UNCHANGED <<groups, structs, blocks, lock, op, arg, rest, dropped, freed>>
  <2>1. Head(free_chunks_list)[1] = g
    BY <1>2
  <2>2. n_grp_free' = [n_grp_free EXCEPT ![g] = @ - 1]
    BY <2>1 DEF AllocPop
  <2>3. QED
    BY <1>2, <2>2 DEF AllocPop, In, Goto, memory, loop
<1>4. /\ LockHeld' /\ Settled'
      /\ WhenTrimming' /\ WhenSweeping' /\ WhenDestroying' /\ TrimThorough'
      /\ \A u \in Threads : op[u] # "destroy"
      /\ \A u \in Threads \ {t} : Returning(u)' = Returning(u)
      /\ IsInjective(groups) /\ blocks = ToSet(groups)
      /\ ToSet(free_chunks_list) \cup Out = ChunksOf(ToSet(groups))
      /\ \A u \in Threads \ {t} : at[u] \in {"out", "lock"}
  BY <1>3, AllocFreeFrame
<1>5. /\ c \in Chunk /\ Tail(free_chunks_list) \in Seq(Chunk)
      /\ c \in ToSet(free_chunks_list)
      /\ ToSet(free_chunks_list) = {c} \cup ToSet(Tail(free_chunks_list))
      /\ IsInjective(Tail(free_chunks_list))
      /\ c \notin ToSet(Tail(free_chunks_list))
  BY <1>1, <1>2, ElementsOfTail, SMTT(30) DEF HandedOutOnce
<1>6. c \notin inuse /\ c \notin InFlight /\ c \notin Out
  BY <1>5 DEF HandedOutOnce, Out
<1>7. \A u \in Threads : Returning(u)' = Returning(u) /\ arg'[u] = arg[u]
  BY <1>3, <1>4 DEF Returning, TypeOK
<1>8. InFlight' = InFlight /\ Out' = Out \cup {c}
  BY <1>3, <1>7 DEF InFlight, Out
<1>9. g \in blocks
  BY <1>4, <1>5 DEF ChunksOf
<1>10. /\ Cardinality(Avail(g)) > 0
       /\ Cardinality(Avail(g)') = Cardinality(Avail(g)) - 1
       /\ \A h : h # g => Avail(h)' = Avail(h)
  BY <1>6, <1>8, AvailLoses
<1>11. /\ n_grp_free \in [Group -> 0..PerGroup] /\ blocks \subseteq Group
       /\ n_grp_free[g] = Cardinality(Avail(g))
  BY <1>9 DEF TypeOK, CountOf
<1>12. TypeOK'
  <2>1. n_grp_free' \in [Group -> 0..PerGroup]
    BY <1>3, <1>10, <1>11, PerGroupPositive
  <2>2. QED
    BY <1>3, <1>5, <2>1 DEF TypeOK
<1>13. PlaceOf' /\ DestroyAlone'
  BY <1>3, <1>4, <1>7 DEF PlaceOf, DestroyAlone, TypeOK
<1>14. AddressesStay'
  BY <1>3, <1>8, <1>9 DEF AddressesStay, Out
<1>15. HandedOutOnce'
  BY <1>3, <1>5, <1>6, <1>7, <1>8 DEF HandedOutOnce, Out
<1>16. CountOf'
  <2>1. ASSUME NEW h \in blocks
        PROVE  n_grp_free'[h] = Cardinality(Avail(h)')
    <3>1. CASE h = g
      BY <1>3, <1>10, <1>11, <3>1
    <3>2. CASE h # g
      BY <1>3, <1>10, <1>11, <3>2 DEF CountOf
    <3>3. QED
      BY <3>1, <3>2
  <2>2. QED
    BY <1>3, <2>1 DEF CountOf
<1>17. StructsOf'
  BY <1>3, <1>4 DEF StructsOf, TypeOK
<1>18. WhenSettled'
  BY <1>3, <1>4, <1>5, <1>8 DEF WhenSettled
<1>19. QED
  BY <1>4, <1>12, <1>13, <1>14, <1>15, <1>16, <1>17, <1>18

\* The structure of a new group is there, or is given back for want of a block.
LEMMA StructInv ==
  ASSUME IInv, NEW t \in Threads,
         BlockFails(t) \/ \E g \in Group : GetStruct(t, g)
  PROVE  IInv'
<1> USE DEF IInv
<1>1. PICK place \in {"block", "unlock"} :
        /\ op[t] = "alloc" /\ at[t] \in {"body", "block"}
        /\ at' = [at EXCEPT ![t] = place]
        /\ UNCHANGED <<lists, blocks, inuse, lock, op, loop>>
        /\ place = "block" =>
             \E g \in Group : /\ g \notin structs /\ structs' = structs \cup {g}
                              /\ arg' = [arg EXCEPT ![t] = g]
                              /\ at[t] = "body"
        /\ place = "unlock" =>
             structs' = structs \ {arg[t]} /\ arg' = arg /\ at[t] = "block"
  BY DEF BlockFails, GetStruct, In, Goto
<1>2. /\ LockHeld' /\ Settled'
      /\ WhenTrimming' /\ WhenSweeping' /\ WhenDestroying' /\ TrimThorough'
      /\ \A u \in Threads : op[u] # "destroy"
      /\ \A u \in Threads \ {t} : Returning(u)' = Returning(u)
      /\ IsInjective(groups) /\ blocks = ToSet(groups)
      /\ ToSet(free_chunks_list) \cup Out = ChunksOf(ToSet(groups))
      /\ \A u \in Threads \ {t} : at[u] \in {"out", "lock"}
  BY <1>1, AllocFreeFrame
<1>3. /\ arg \in [Threads -> Chunk \cup Group \cup {None}]
      /\ structs \subseteq Group /\ blocks \subseteq structs
      /\ op \in [Threads -> {"none", "alloc", "free", "trim", "destroy"}]
      /\ at \in [Threads -> {"out", "lock", "body", "block", "groups", "unlock"}]
  BY DEF TypeOK
<1>4. \A u \in Threads :
        Returning(u)' = Returning(u) /\ (Returning(u) => arg'[u] = arg[u])
  BY <1>1, <1>2, <1>3 DEF Returning
<1>5. InFlight' = InFlight /\ Out' = Out
  BY <1>1, <1>4, OutKept
<1>6. StructsOf'
  <2>1. CASE place = "block"
    <3>1. structs = blocks
      BY <1>1, <1>2, <2>1 DEF StructsOf
    <3>2. QED
      BY <1>1, <1>2, <1>3, <2>1, <3>1 DEF StructsOf
  <2>2. CASE place = "unlock"
    <3>1. arg[t] \notin blocks /\ structs = blocks \cup {arg[t]}
      BY <1>1, <2>2 DEF StructsOf
    <3>2. QED
      BY <1>1, <1>2, <1>3, <2>2, <3>1 DEF StructsOf
  <2>3. QED
    BY <2>1, <2>2
<1>7. TypeOK'
  <2>1. blocks' \subseteq structs' /\ structs' \subseteq Group
    <3>1. CASE place = "block"
      BY <1>1, <1>3, <3>1
    <3>2. CASE place = "unlock"
      BY <1>1, <1>3, <3>2 DEF StructsOf
    <3>3. QED
      BY <3>1, <3>2
  <2>2. arg' \in [Threads -> Chunk \cup Group \cup {None}]
    BY <1>1, <1>3
  <2>3. at' \in [Threads -> {"out", "lock", "body", "block", "groups", "unlock"}]
    BY <1>1, <1>3
  <2>4. QED
    BY <1>1, <2>1, <2>2, <2>3 DEF TypeOK, lists, loop
<1>8. PlaceOf' /\ DestroyAlone'
  BY <1>1, <1>2, <1>3, <1>4 DEF PlaceOf, DestroyAlone
<1>9. AddressesStay' /\ CountOf' /\ WhenSettled'
  BY <1>1, <1>2, <1>5 DEF AddressesStay, CountOf, Avail, Out, WhenSettled, lists
<1>10. HandedOutOnce'
  BY <1>1, <1>4, <1>5 DEF HandedOutOnce, lists
<1>11. QED
  BY <1>2, <1>6, <1>7, <1>8, <1>9, <1>10

\* A new group is cut into its chunks, each of them once.
LEMMA PartitionOf ==
  ASSUME NEW g \in Group
  PROVE  /\ Partition(g) \in Seq(Chunk)
         /\ IsInjective(Partition(g))
         /\ ToSet(Partition(g)) = ChunksOf({g})
<1>1. \A i \in 1..PerGroup : PerGroup + 1 - i \in 1..PerGroup
  BY PerGroupPositive
<1>2. /\ DOMAIN Partition(g) = 1..PerGroup
      /\ \A i \in 1..PerGroup : Partition(g)[i] = <<g, PerGroup + 1 - i>>
  BY DEF Partition
<1>3. Partition(g) \in Seq(Chunk)
  <2>1. \A i \in 1..PerGroup : <<g, PerGroup + 1 - i>> \in Chunk
    BY <1>1 DEF Chunk
  <2>2. PerGroup \in Nat
    BY PerGroupPositive
  <2>3. QED
    BY <2>1, <2>2, IsASeq DEF Partition
<1>4. IsInjective(Partition(g))
  BY <1>2, PerGroupPositive DEF IsInjective
<1>5. ASSUME NEW i \in 1..PerGroup
      PROVE  <<g, i>> \in ToSet(Partition(g))
  <2>1. /\ PerGroup + 1 - i \in 1..PerGroup
        /\ Partition(g)[PerGroup + 1 - i] = <<g, i>>
    BY <1>1, <1>2, PerGroupPositive
  <2>2. QED
    BY <1>2, <2>1 DEF ToSet
<1>6. ToSet(Partition(g)) \subseteq ChunksOf({g})
  <2>1. ASSUME NEW i \in 1..PerGroup
        PROVE  Partition(g)[i] \in ChunksOf({g})
    <3>1. <<g, PerGroup + 1 - i>> \in ChunksOf({g})
      BY <1>1, Zenon DEF ChunksOf
    <3>2. QED
      BY <1>2, <3>1
  <2>2. QED
    BY <1>2, <2>1 DEF ToSet
<1>7. QED
  BY <1>3, <1>4, <1>5, <1>6 DEF ChunksOf

\* A new group joins the lists: nothing of it is out.
LEMMA GetBlockInv ==
  ASSUME IInv, NEW t \in Threads, GetBlock(t)
  PROVE  IInv'
<1> USE DEF IInv
<1>1. PICK g \in Group : arg[t] = g
  BY DEF GetBlock, In, PlaceOf
<1>2. /\ op[t] = "alloc" /\ at[t] = "block"
      /\ blocks' = blocks \cup {g}
      /\ free_chunks_list' = Partition(g) \o free_chunks_list
      /\ n_grp_free' = [n_grp_free EXCEPT ![g] = PerGroup]
      /\ groups' = <<g>> \o groups
      /\ at' = [at EXCEPT ![t] = "body"]
      /\ UNCHANGED <<structs, inuse, lock, op, arg, rest, dropped, freed>>
  BY <1>1 DEF GetBlock, In, Goto, loop
<1>3. /\ LockHeld' /\ Settled'
      /\ WhenTrimming' /\ WhenSweeping' /\ WhenDestroying' /\ TrimThorough'
      /\ \A u \in Threads : op[u] # "destroy"
      /\ \A u \in Threads \ {t} : Returning(u)' = Returning(u)
      /\ IsInjective(groups) /\ blocks = ToSet(groups)
      /\ ToSet(free_chunks_list) \cup Out = ChunksOf(ToSet(groups))
      /\ \A u \in Threads \ {t} : at[u] \in {"out", "lock"}
  BY <1>2, AllocFreeFrame
<1>4. g \notin blocks /\ structs = blocks \cup {g}
  BY <1>1, <1>2 DEF StructsOf
<1>5. \A u \in Threads : Returning(u)' = Returning(u) /\ arg'[u] = arg[u]
  BY <1>2, <1>3 DEF Returning, TypeOK
<1>6. InFlight' = InFlight /\ Out' = Out
  BY <1>2, <1>5 DEF InFlight, Out
<1>7. /\ free_chunks_list \in Seq(Chunk) /\ groups \in Seq(Group)
      /\ n_grp_free \in [Group -> 0..PerGroup] /\ blocks \subseteq Group
  BY DEF TypeOK
<1>8. /\ groups' \in Seq(Group) /\ IsInjective(groups')
      /\ ToSet(groups') = blocks'
  BY <1>2, <1>3, <1>4, <1>7, ElementsOfPush
<1>9. ToSet(Partition(g)) \cap ToSet(free_chunks_list) = {}
  BY <1>3, <1>4, PartitionOf DEF ChunksOf
<1>10. /\ free_chunks_list' \in Seq(Chunk) /\ IsInjective(free_chunks_list')
       /\ ToSet(free_chunks_list') = ChunksOf({g}) \cup ToSet(free_chunks_list)
  <2>1. /\ Partition(g) \in Seq(Chunk) /\ IsInjective(Partition(g))
        /\ ToSet(Partition(g)) = ChunksOf({g})
    BY PartitionOf
  <2>2. IsInjective(free_chunks_list)
    BY DEF HandedOutOnce
  <2> DEFINE new == Partition(g)
  <2> HIDE DEF new
  <2>3. new \in Seq(Chunk) /\ free_chunks_list \in Seq(Chunk)
    BY <1>7, <2>1 DEF new
  <2>4. /\ new \o free_chunks_list \in Seq(Chunk)
        /\ ToSet(new \o free_chunks_list)
             = ToSet(new) \cup ToSet(free_chunks_list)
        /\ IsInjective(new) /\ IsInjective(free_chunks_list)
           /\ ToSet(new) \cap ToSet(free_chunks_list) = {}
              => IsInjective(new \o free_chunks_list)
    BY <2>3, ElementsOfConcat
  <2>5. QED
    BY <1>2, <1>9, <2>1, <2>2, <2>4 DEF new
<1>11. \A c \in Out : c[1] # g
  BY <1>4 DEF AddressesStay, Out
<1>12. TypeOK'
  <2>1. n_grp_free' \in [Group -> 0..PerGroup]
    BY <1>2, <1>7, PerGroupPositive
  <2>2. QED
    BY <1>2, <1>4, <1>8, <1>10, <2>1 DEF TypeOK
<1>13. PlaceOf' /\ DestroyAlone'
  BY <1>2, <1>3, <1>5 DEF PlaceOf, DestroyAlone, TypeOK
<1>14. AddressesStay'
  BY <1>2, <1>6 DEF AddressesStay, Out
<1>15. HandedOutOnce'
  <2>1. ToSet(free_chunks_list') \cap Out = {}
    BY <1>10, <1>11 DEF HandedOutOnce, Out, ChunksOf
  <2>2. QED
    BY <1>2, <1>5, <1>6, <1>10, <2>1 DEF HandedOutOnce, Out
<1>16. CountOf'
  <2>1. Avail(g) = 1..PerGroup
    BY <1>11 DEF Avail
  <2>2. Avail(g)' = Avail(g) /\ \A h : Avail(h)' = Avail(h)
    BY <1>6 DEF Avail
  <2>3. ASSUME NEW h \in blocks'
        PROVE  n_grp_free'[h] = Cardinality(Avail(h)')
    <3>1. CASE h = g
      BY <1>2, <1>7, <2>1, <2>2, <3>1, AvailFinite
    <3>2. CASE h # g
      BY <1>2, <1>7, <2>2, <2>3, <3>2 DEF CountOf
    <3>3. QED
      BY <3>1, <3>2
  <2>4. QED
    BY <2>3 DEF CountOf
<1>17. StructsOf'
  BY <1>2, <1>3, <1>4 DEF StructsOf, TypeOK
<1>18. WhenSettled'
  <2>1. ChunksOf(blocks') = ChunksOf({g}) \cup ChunksOf(blocks)
    BY <1>2 DEF ChunksOf
  <2>2. QED
    BY <1>3, <1>6, <1>8, <1>10, <2>1 DEF WhenSettled
<1>19. QED
  BY <1>3, <1>12, <1>13, <1>14, <1>15, <1>16, <1>17, <1>18

\* A chunk comes back: no other thread was giving it back.
LEMMA FreePushInv ==
  ASSUME IInv, NEW t \in Threads, FreePush(t)
  PROVE  IInv'
<1> USE DEF IInv
<1>1. Returning(t) /\ arg[t] \in Chunk /\ arg[t] \in InFlight
  BY DEF FreePush, In, Returning, PlaceOf, InFlight
<1>2. PICK g \in Group, i \in 1..PerGroup : arg[t] = <<g, i>>
  BY <1>1 DEF Chunk
<1> DEFINE c == <<g, i>>
<1>3. /\ op[t] = "free" /\ at[t] = "body"
      /\ free_chunks_list' = <<c>> \o free_chunks_list
      /\ n_grp_free' = [n_grp_free EXCEPT ![g] = @ + 1]
      /\ at' = [at EXCEPT ![t] = "unlock"]
      /\ UNCHANGED <<groups, structs, blocks, inuse, lock, op, arg, rest,
                     dropped, freed>>
  <2>1. arg[t][1] = g
    BY <1>2
  <2>2. n_grp_free' = [n_grp_free EXCEPT ![g] = @ + 1]
    BY <2>1 DEF FreePush
  <2>3. QED
    BY <1>2, <2>2 DEF FreePush, In, Goto, memory, loop
<1>4. /\ LockHeld' /\ Settled'
      /\ WhenTrimming' /\ WhenSweeping' /\ WhenDestroying' /\ TrimThorough'
      /\ \A u \in Threads : op[u] # "destroy"
      /\ \A u \in Threads \ {t} : Returning(u)' = Returning(u)
      /\ IsInjective(groups) /\ blocks = ToSet(groups)
      /\ ToSet(free_chunks_list) \cup Out = ChunksOf(ToSet(groups))
      /\ \A u \in Threads \ {t} : at[u] \in {"out", "lock"}
  BY <1>3, AllocFreeFrame
<1>5. at \in [Threads -> {"out", "lock", "body", "block", "groups", "unlock"}]
  BY DEF TypeOK
<1>6. \A u \in Threads : Returning(u)' <=> Returning(u) /\ u # t
  BY <1>3, <1>4, <1>5 DEF Returning
<1>7. InFlight' = InFlight \ {c}
  BY <1>1, <1>2, <1>3, <1>6 DEF InFlight, HandedOutOnce
<1>8. c \in Out /\ c \notin inuse /\ Out' = Out \ {c}
  BY <1>1, <1>2, <1>3, <1>7 DEF HandedOutOnce, Out
<1>9. g \in blocks
  BY <1>8 DEF AddressesStay, Out
<1>10. /\ Cardinality(Avail(g)) < PerGroup
       /\ Cardinality(Avail(g)') = Cardinality(Avail(g)) + 1
       /\ \A h : h # g => Avail(h)' = Avail(h)
  BY <1>8, AvailGains
<1>11. /\ n_grp_free \in [Group -> 0..PerGroup] /\ blocks \subseteq Group
       /\ n_grp_free[g] = Cardinality(Avail(g))
  BY <1>9 DEF TypeOK, CountOf
<1>12. /\ free_chunks_list' \in Seq(Chunk) /\ IsInjective(free_chunks_list')
       /\ ToSet(free_chunks_list') = {c} \cup ToSet(free_chunks_list)
  <2>1. free_chunks_list \in Seq(Chunk) /\ c \in Chunk
    BY <1>1, <1>2 DEF TypeOK
  <2>2. IsInjective(free_chunks_list) /\ c \notin ToSet(free_chunks_list)
    BY <1>8 DEF HandedOutOnce, Out
  <2>3. QED
    BY <1>3, <2>1, <2>2, ElementsOfPush
<1>13. TypeOK'
  <2>1. n_grp_free' \in [Group -> 0..PerGroup]
    BY <1>3, <1>10, <1>11, PerGroupPositive
  <2>2. QED
    BY <1>3, <1>12, <2>1 DEF TypeOK
<1>14. PlaceOf' /\ DestroyAlone'
  BY <1>3, <1>4, <1>5, <1>6 DEF PlaceOf, DestroyAlone
<1>15. AddressesStay'
  BY <1>3, <1>8 DEF AddressesStay, Out
<1>16. HandedOutOnce'
  BY <1>3, <1>6, <1>7, <1>8, <1>12 DEF HandedOutOnce, Out
<1>17. CountOf'
  <2>1. ASSUME NEW h \in blocks
        PROVE  n_grp_free'[h] = Cardinality(Avail(h)')
    <3>1. CASE h = g
      BY <1>3, <1>10, <1>11, <3>1
    <3>2. CASE h # g
      BY <1>3, <1>10, <1>11, <3>2 DEF CountOf
    <3>3. QED
      BY <3>1, <3>2
  <2>2. QED
    BY <1>3, <2>1 DEF CountOf
<1>18. StructsOf'
  BY <1>3, <1>4, <1>5 DEF StructsOf
<1>19. WhenSettled'
  BY <1>3, <1>4, <1>8, <1>12 DEF WhenSettled
<1>20. QED
  BY <1>4, <1>13, <1>14, <1>15, <1>16, <1>17, <1>18, <1>19

-----------------------------------------------------------------------------
(***************************************************************************)
(* The loops of trim.  Other threads may call, which takes chunks from     *)
(* users and not from the manager: what is out stays the same throughout.  *)
(***************************************************************************)

\* What a turn of a loop of trim keeps, whatever it does to the lists.
LEMMA TrimFrame ==
  ASSUME IInv, NEW t \in Threads, op[t] = "trim", at[t] \in {"body", "groups"},
         NEW place \in {"body", "groups", "unlock"},
         at' = [at EXCEPT ![t] = place],
         UNCHANGED <<n_grp_free, inuse, lock, op, arg>>
  PROVE  /\ lock = t /\ \A u \in Threads \ {t} : at[u] \in {"out", "lock"}
         /\ LockHeld' /\ PlaceOf' /\ DestroyAlone' /\ WhenDestroying'
         /\ \A u \in Threads : Returning(u)' = Returning(u)
         /\ InFlight' = InFlight /\ Out' = Out
         /\ \A g : WhollyFree(g)' = WhollyFree(g) /\ Avail(g)' = Avail(g)
         /\ structs = blocks
         /\ \A p \in {"body", "groups", "unlock"}, u \in Threads :
              /\ In(u, "trim", p)' <=> u = t /\ p = place
              /\ ~In(u, "destroy", p)'
<1>1. at \in [Threads -> {"out", "lock", "body", "block", "groups", "unlock"}]
  BY DEF IInv, TypeOK
<1>2. lock = t /\ \A u \in Threads \ {t} : at[u] \in {"out", "lock"}
  BY OthersOut DEF IInv, LockHeld
<1>3. \A u \in Threads : Returning(u)' = Returning(u)
  BY <1>1 DEF Returning
<1>4. InFlight' = InFlight /\ Out' = Out
  BY <1>3, OutKept
<1>5. LockHeld' /\ PlaceOf' /\ DestroyAlone' /\ WhenDestroying'
  BY <1>1, <1>2, <1>3
    DEF IInv, LockHeld, PlaceOf, DestroyAlone, WhenDestroying, In
<1>6. \A g : WhollyFree(g)' = WhollyFree(g) /\ Avail(g)' = Avail(g)
  BY <1>4 DEF WhollyFree, Avail
<1>7. structs = blocks
  BY <1>2 DEF IInv, StructsOf
<1>8. \A p \in {"body", "groups", "unlock"}, u \in Threads :
        /\ In(u, "trim", p)' <=> u = t /\ p = place
        /\ ~In(u, "destroy", p)'
  BY <1>1, <1>2 DEF In
<1>9. QED
  BY <1>2, <1>3, <1>4, <1>5, <1>6, <1>7, <1>8

\* A chunk goes back on the free list, or is dropped and counted.
LEMMA TrimChunkInv ==
  ASSUME IInv, NEW t \in Threads, TrimChunk(t)
  PROVE  IInv'
<1> USE DEF IInv
<1> DEFINE all == ChunksOf(ToSet(groups))
<1>1. /\ op[t] = "trim" /\ at[t] = "body" /\ rest # <<>> /\ rest' = Tail(rest)
      /\ at' = [at EXCEPT ![t] = "body"]
      /\ UNCHANGED <<groups, n_grp_free, structs, blocks, inuse, lock, op, arg,
                     freed>>
  BY DEF TrimChunk, In, memory, TypeOK
<1>2. /\ LockHeld' /\ PlaceOf' /\ DestroyAlone' /\ WhenDestroying'
      /\ \A u \in Threads : Returning(u)' = Returning(u)
      /\ InFlight' = InFlight /\ Out' = Out
      /\ \A g : WhollyFree(g)' = WhollyFree(g) /\ Avail(g)' = Avail(g)
      /\ structs = blocks
      /\ \A p \in {"body", "groups", "unlock"}, u \in Threads :
           /\ In(u, "trim", p)' <=> u = t /\ p = "body"
           /\ ~In(u, "destroy", p)'
  BY <1>1, TrimFrame
<1>3. /\ rest \in Seq(Chunk) /\ IsInjective(rest)
      /\ ToSet(rest) \cap (ToSet(free_chunks_list) \cup Out) = {}
      /\ IsInjective(groups) /\ blocks = ToSet(groups)
      /\ Kept \subseteq all
      /\ \A d \in ToSet(free_chunks_list) : ~WhollyFree(d[1])
      /\ \A d \in all \ Kept : WhollyFree(d[1])
      /\ dropped = Cardinality(all \ Kept) /\ freed = 0
  BY <1>1 DEF WhenTrimming, In
<1>4. PICK c \in Chunk : Head(rest) = c
  BY <1>1, <1>3, ElementsOfTail
<1>5. /\ rest' \in Seq(Chunk) /\ IsInjective(rest')
      /\ ToSet(rest) = {c} \cup ToSet(rest') /\ c \notin ToSet(rest')
  BY <1>1, <1>3, <1>4, ElementsOfTail
<1>6. /\ \/ /\ WhollyFree(c[1]) /\ dropped' = dropped + 1
            /\ free_chunks_list' = free_chunks_list
         \/ /\ ~WhollyFree(c[1]) /\ dropped' = dropped
            /\ free_chunks_list' = <<c>> \o free_chunks_list
  BY <1>4 DEF TrimChunk
<1>7. c \in all /\ c \in Kept
      /\ c \notin ToSet(free_chunks_list) /\ c \notin Out
  BY <1>3, <1>5 DEF Kept
<1>8. free_chunks_list \in Seq(Chunk) /\ IsInjective(free_chunks_list)
  BY DEF TypeOK, HandedOutOnce
<1>9. /\ free_chunks_list' \in Seq(Chunk) /\ IsInjective(free_chunks_list')
      /\ ToSet(free_chunks_list') = IF WhollyFree(c[1])
                                    THEN ToSet(free_chunks_list)
                                    ELSE {c} \cup ToSet(free_chunks_list)
  <2>1. CASE WhollyFree(c[1])
    BY <1>6, <1>8, <2>1
  <2>2. CASE ~WhollyFree(c[1])
    <3>1. /\ <<c>> \o free_chunks_list \in Seq(Chunk)
          /\ ToSet(<<c>> \o free_chunks_list) = {c} \cup ToSet(free_chunks_list)
          /\ IsInjective(<<c>> \o free_chunks_list)
      BY <1>7, <1>8, ElementsOfPush
    <3>2. QED
      BY <1>6, <2>2, <3>1
  <2>3. QED
    BY <2>1, <2>2
<1>10. Kept' = IF WhollyFree(c[1]) THEN Kept \ {c} ELSE Kept
  BY <1>2, <1>5, <1>7, <1>9 DEF Kept
<1>11. all' = all
  BY <1>1 DEF ChunksOf
<1>12. dropped' = Cardinality(all \ Kept')
  <2>1. CASE WhollyFree(c[1])
    <3>1. all \ Kept' = (all \ Kept) \cup {c} /\ c \notin all \ Kept
      BY <1>7, <1>10, <2>1
    <3>2. IsFiniteSet(all \ Kept)
      <4>1. ToSet(groups) \subseteq Group
        BY ElementsTyped DEF TypeOK
      <4>2. QED
        BY <4>1, ChunksFinite
    <3>3. QED
      BY <1>3, <1>6, <2>1, <3>1, <3>2, FS_AddElement
  <2>2. CASE ~WhollyFree(c[1])
    BY <1>3, <1>6, <1>10, <2>2
  <2>3. QED
    BY <2>1, <2>2
<1>13. WhenTrimming'
  <2>1. ToSet(rest') \cap (ToSet(free_chunks_list') \cup Out') = {}
    BY <1>2, <1>3, <1>5, <1>9
  <2>2. Kept' \subseteq all'
    BY <1>3, <1>10, <1>11
  <2>3. \A d \in ToSet(free_chunks_list') : ~WhollyFree(d[1])
    BY <1>3, <1>9
  <2>4. \A d \in all \ Kept' : WhollyFree(d[1])
    BY <1>3, <1>10
  <2> HIDE DEF all
  <2>5. /\ \A d \in ToSet(free_chunks_list') : ~WhollyFree(d[1])'
        /\ \A d \in all' \ Kept' : WhollyFree(d[1])'
        /\ dropped' = Cardinality(all' \ Kept')
    BY <1>2, <1>11, <1>12, <2>3, <2>4
  <2>6. QED
    BY <1>1, <1>3, <1>5, <2>1, <2>2, <2>5 DEF WhenTrimming, all
<1>14. TypeOK'
  <2>1. dropped' \in Nat
    BY <1>6 DEF TypeOK
  <2>2. QED
    BY <1>1, <1>5, <1>9, <2>1 DEF TypeOK
<1>15. HandedOutOnce'
  BY <1>1, <1>2, <1>7, <1>9 DEF HandedOutOnce, Out
<1>16. AddressesStay' /\ CountOf' /\ StructsOf'
  BY <1>1, <1>2 DEF AddressesStay, CountOf, StructsOf, Out, TypeOK
<1>17. WhenSettled' /\ WhenSweeping' /\ TrimThorough'
  BY <1>2 DEF WhenSettled, Settled, WhenSweeping, TrimThorough
<1>18. QED
  BY <1>2, <1>13, <1>14, <1>15, <1>16, <1>17

\* The first pass ends: the chunks dropped are those of the wholly free groups.
LEMMA TrimTurnInv ==
  ASSUME IInv, NEW t \in Threads, TrimTurn(t)
  PROVE  IInv'
<1> USE DEF IInv
<1> DEFINE G == ToSet(groups)
           W == {g \in G : WhollyFree(g)}
<1>1. /\ op[t] = "trim" /\ at[t] = "body" /\ rest = <<>>
      /\ UNCHANGED <<free_chunks_list, n_grp_free, structs, blocks, inuse, lock,
                     op, arg, dropped, freed>>
      /\ \/ /\ dropped > 0 /\ rest' = groups /\ groups' = <<>>
            /\ at' = [at EXCEPT ![t] = "groups"]
         \/ /\ ~(dropped > 0) /\ rest' = rest /\ groups' = groups
            /\ at' = [at EXCEPT ![t] = "unlock"]
  BY DEF TrimTurn, In, Goto, memory
<1>2. PICK place \in {"groups", "unlock"} :
        /\ at' = [at EXCEPT ![t] = place]
        /\ place = "groups" => rest' = groups /\ groups' = <<>>
        /\ place = "unlock" => dropped = 0 /\ rest' = <<>> /\ groups' = groups
  BY <1>1 DEF TypeOK
<1>3. /\ LockHeld' /\ PlaceOf' /\ DestroyAlone' /\ WhenDestroying'
      /\ \A u \in Threads : Returning(u)' = Returning(u)
      /\ InFlight' = InFlight /\ Out' = Out
      /\ \A g : WhollyFree(g)' = WhollyFree(g) /\ Avail(g)' = Avail(g)
      /\ structs = blocks
      /\ \A p \in {"body", "groups", "unlock"}, u \in Threads :
           /\ In(u, "trim", p)' <=> u = t /\ p = place
           /\ ~In(u, "destroy", p)'
  <2>1. /\ place \in {"body", "groups", "unlock"}
        /\ at[t] \in {"body", "groups"}
        /\ UNCHANGED <<n_grp_free, inuse, lock, op, arg>>
    BY <1>1
  <2>2. QED
    BY <1>1, <1>2, <2>1, TrimFrame
<1>4. /\ IsInjective(groups) /\ blocks = G
      /\ Kept \subseteq ChunksOf(G)
      /\ \A d \in ToSet(free_chunks_list) : ~WhollyFree(d[1])
      /\ \A d \in ChunksOf(G) \ Kept : WhollyFree(d[1])
      /\ dropped = Cardinality(ChunksOf(G) \ Kept) /\ freed = 0
  BY <1>1 DEF WhenTrimming, In
<1>5. Kept = ToSet(free_chunks_list) \cup Out
  BY <1>1, ElementsOfEmpty DEF Kept
<1>6. \A d \in Kept : ~WhollyFree(d[1])
  <2>1. ASSUME NEW d \in Out
        PROVE  ~WhollyFree(d[1])
    <3>1. d[1] \in blocks
      BY <2>1 DEF AddressesStay, Out
    <3>2. QED
      BY <2>1, <3>1, WhollyFreeMeans
  <2>2. QED
    BY <1>4, <1>5, <2>1
<1>7. /\ ChunksOf(G) \ Kept = ChunksOf(W)
      /\ Kept = ChunksOf(G \ W)
  BY <1>4, <1>6 DEF ChunksOf
<1>8. groups \in Seq(Group) /\ G \in SUBSET Group /\ W \in SUBSET Group
  BY ElementsTyped DEF TypeOK
<1>9. /\ Cardinality(W) \in Nat /\ IsFiniteSet(W)
      /\ dropped = Cardinality(W) * PerGroup
  BY <1>4, <1>7, <1>8, ChunksFinite
<1>10. TypeOK'
  <2>1. rest' \in Seq(Group) \cup Seq(Chunk) /\ groups' \in Seq(Group)
    BY <1>2, <1>8, EmptySeq
  <2>2. at' \in [Threads -> {"out", "lock", "body", "block", "groups", "unlock"}]
    BY <1>2 DEF TypeOK
  <2>3. QED
    BY <1>1, <2>1, <2>2 DEF TypeOK
<1>11. HandedOutOnce'
  BY <1>1, <1>3 DEF HandedOutOnce
<1>12. AddressesStay' /\ CountOf' /\ StructsOf'
  BY <1>1, <1>2, <1>3 DEF AddressesStay, CountOf, StructsOf, Out, TypeOK
<1>13. WhenTrimming'
  BY <1>2, <1>3 DEF WhenTrimming
<1>14. CASE place = "groups"
  <2>1. ToSet(rest') = G /\ ToSet(groups') = {}
    BY <1>2, <1>14, ElementsOfEmpty
  <2>2. {g \in ToSet(rest)' : WhollyFree(g)'} = W
    BY <1>3, <2>1
  <2>3. {g \in blocks' : ~WhollyFree(g)'} = G \ W
    BY <1>1, <1>3, <1>4
  <2>4. dropped = PerGroup * (0 + Cardinality(W))
    BY <1>9, PerGroupPositive
  <2>5. (ToSet(free_chunks_list) \cup Out)' = ChunksOf(G \ W)
    BY <1>1, <1>3, <1>5, <1>7
  <2>6. rest' \in Seq(Group) /\ IsInjective(rest') /\ IsInjective(groups')
    BY <1>2, <1>4, <1>8, <1>14, ElementsOfEmpty
  <2> HIDE DEF G, W
  <2>7. ChunksOf({g \in blocks : ~WhollyFree(g)})' = ChunksOf(G \ W)
    BY <2>3 DEF ChunksOf
  <2>8. WhenSweeping'
    BY <1>1, <1>4, <2>1, <2>2, <2>4, <2>5, <2>6, <2>7 DEF WhenSweeping
  <2>9. WhenSettled' /\ TrimThorough'
    BY <1>3, <1>14 DEF WhenSettled, Settled, TrimThorough
  <2>10. QED
    BY <1>3, <1>10, <1>11, <1>12, <1>13, <2>8, <2>9
<1>15. CASE place = "unlock"
  <2>1. W = {}
    <3>1. Cardinality(W) = 0
      BY <1>2, <1>9, <1>15, PerGroupPositive
    <3>2. QED
      BY <1>9, <3>1, FS_EmptySet
  <2>2. groups' = groups
    BY <1>2, <1>15
  <2>3. WhenSettled'
    <3>1. Kept = ChunksOf(G)
      BY <1>7, <2>1 DEF ChunksOf
    <3>2. QED
      BY <1>1, <1>3, <1>4, <1>5, <2>2, <3>1 DEF WhenSettled
  <2>4. WhenSweeping'
    BY <1>3, <1>15 DEF WhenSweeping
  <2>5. TrimThorough'
    <3>1. \A g \in ToSet(groups') : ~WhollyFree(g)'
      BY <1>3, <2>1, <2>2
    <3>2. dropped' = freed' * PerGroup
      BY <1>1, <1>2, <1>4, <1>15, PerGroupPositive
    <3>3. \A c \in ToSet(free_chunks_list') : c[1] \in blocks'
      BY <1>1, <1>4, <1>5 DEF ChunksOf
    <3>4. QED
      BY <3>1, <3>2, <3>3 DEF TrimThorough
  <2>6. QED
    BY <1>3, <1>10, <1>11, <1>12, <1>13, <2>3, <2>4, <2>5
<1>16. QED
  BY <1>14, <1>15

\* A group with a chunk out is kept; of a wholly free one both blocks of
\* memory are freed, and nothing of it is out or on the list.
LEMMA TrimGroupInv ==
  ASSUME IInv, NEW t \in Threads, TrimGroup(t)
  PROVE  IInv'
<1> USE DEF IInv
<1>1. /\ op[t] = "trim" /\ at[t] = "groups" /\ rest # <<>> /\ rest' = Tail(rest)
      /\ at' = [at EXCEPT ![t] = "groups"]
      /\ UNCHANGED <<free_chunks_list, n_grp_free, inuse, lock, op, arg, dropped>>
  BY DEF TrimGroup, In, TypeOK
<1>2. /\ LockHeld' /\ PlaceOf' /\ DestroyAlone' /\ WhenDestroying'
      /\ \A u \in Threads : Returning(u)' = Returning(u)
      /\ InFlight' = InFlight /\ Out' = Out
      /\ \A g : WhollyFree(g)' = WhollyFree(g) /\ Avail(g)' = Avail(g)
      /\ structs = blocks
      /\ \A p \in {"body", "groups", "unlock"}, u \in Threads :
           /\ In(u, "trim", p)' <=> u = t /\ p = "groups"
           /\ ~In(u, "destroy", p)'
  BY <1>1, TrimFrame
<1>3. /\ rest \in Seq(Group) /\ IsInjective(rest) /\ IsInjective(groups)
      /\ ToSet(rest) \cap ToSet(groups) = {}
      /\ blocks = ToSet(groups) \cup ToSet(rest)
      /\ \A g \in ToSet(groups) : ~WhollyFree(g)
      /\ ToSet(free_chunks_list) \cup Out
           = ChunksOf({g \in blocks : ~WhollyFree(g)})
      /\ dropped
           = PerGroup * (freed + Cardinality({g \in ToSet(rest) : WhollyFree(g)}))
  BY <1>1 DEF WhenSweeping, In
<1>4. PICK g \in Group : Head(rest) = g
  BY <1>1, <1>3, ElementsOfTail
<1>5. /\ rest' \in Seq(Group) /\ IsInjective(rest')
      /\ ToSet(rest) = {g} \cup ToSet(rest') /\ g \notin ToSet(rest')
  BY <1>1, <1>3, <1>4, ElementsOfTail
<1>6. /\ g \in blocks /\ g \notin ToSet(groups)
      /\ groups \in Seq(Group) /\ freed \in Nat
  BY <1>3, <1>5 DEF TypeOK
<1> DEFINE W == {h \in ToSet(rest) : WhollyFree(h)}
           V == {h \in ToSet(rest') : WhollyFree(h)}
<1>7. IsFiniteSet(V) /\ Cardinality(V) \in Nat
  <2>1. V \in SUBSET Group
    BY <1>5, ElementsTyped
  <2>2. QED
    BY <2>1, ChunksFinite
<1>8. {h \in ToSet(rest)' : WhollyFree(h)'} = V
  BY <1>2
<1>9. /\ groups' \in Seq(Group) /\ IsInjective(groups') /\ freed' \in Nat
      /\ ToSet(rest') \cap ToSet(groups') = {}
      /\ blocks' = ToSet(groups') \cup ToSet(rest') /\ structs' = blocks'
      /\ \A h \in ToSet(groups') : ~WhollyFree(h)
      /\ {h \in blocks' : ~WhollyFree(h)} = {h \in blocks : ~WhollyFree(h)}
      /\ blocks \ blocks' \subseteq {h \in blocks : WhollyFree(h)}
      /\ blocks' \subseteq blocks
      /\ dropped = PerGroup * (freed' + Cardinality(V))
  <2>1. CASE WhollyFree(g)
    <3>1. /\ structs' = structs \ {g} /\ blocks' = blocks \ {g}
          /\ freed' = freed + 1 /\ groups' = groups
      BY <1>4, <2>1 DEF TrimGroup
    <3>2. W = V \cup {g} /\ g \notin V
      BY <1>5, <2>1
    <3>3. Cardinality(W) = Cardinality(V) + 1
      BY <1>7, <3>2, FS_AddElement
    <3>4. dropped = PerGroup * (freed' + Cardinality(V))
      <4>1. freed + Cardinality(W) = freed' + Cardinality(V)
        BY <1>6, <1>7, <3>1, <3>3
      <4>2. QED
        BY <1>3, <4>1
    <3>5. QED
      BY <1>2, <1>3, <1>5, <1>6, <2>1, <3>1, <3>4
  <2>2. CASE ~WhollyFree(g)
    <3>1. groups' = <<g>> \o groups /\ UNCHANGED <<structs, blocks, freed>>
      BY <1>4, <2>2 DEF TrimGroup, memory
    <3>2. /\ groups' \in Seq(Group) /\ IsInjective(groups')
          /\ ToSet(groups') = {g} \cup ToSet(groups)
      BY <1>3, <1>6, <3>1, ElementsOfPush
    <3>3. W = V
      BY <1>5, <2>2
    <3>4. QED
      BY <1>2, <1>3, <1>5, <1>6, <2>2, <3>1, <3>2, <3>3
  <2>3. QED
    BY <2>1, <2>2
<1>10. WhenSweeping'
  <2>1. \A h \in ToSet(groups') : ~WhollyFree(h)'
    BY <1>2, <1>9
  <2>2. (ToSet(free_chunks_list) \cup Out)'
          = ChunksOf({h \in blocks : ~WhollyFree(h)})'
    <3>1. {h \in blocks' : ~WhollyFree(h)'} = {h \in blocks : ~WhollyFree(h)}
      BY <1>2, <1>9
    <3>2. QED
      BY <1>1, <1>2, <1>3, <3>1 DEF ChunksOf
  <2>3. dropped' = PerGroup * (freed' + Cardinality({h \in ToSet(rest)' : WhollyFree(h)'}))
    BY <1>1, <1>8, <1>9
  <2>4. QED
    BY <1>5, <1>9, <2>1, <2>2, <2>3 DEF WhenSweeping
<1>11. AddressesStay'
  <2>1. ASSUME NEW c \in Out
        PROVE  c[1] \in blocks'
    <3>1. c[1] \in blocks
      BY DEF AddressesStay, Out
    <3>2. ~WhollyFree(c[1])
      BY <3>1, WhollyFreeMeans
    <3>3. QED
      BY <1>9, <3>1, <3>2
  <2>2. QED
    BY <1>2, <2>1 DEF AddressesStay, Out
<1>12. TypeOK'
  <2>1. structs' \subseteq Group /\ blocks' \subseteq structs'
    BY <1>9 DEF TypeOK
  <2>2. QED
    BY <1>1, <1>5, <1>9, <2>1 DEF TypeOK
<1>13. HandedOutOnce'
  BY <1>1, <1>2 DEF HandedOutOnce
<1>14. CountOf' /\ StructsOf'
  BY <1>1, <1>2, <1>9 DEF CountOf, StructsOf, LockHeld, TypeOK
<1>15. WhenSettled' /\ WhenTrimming' /\ TrimThorough'
  BY <1>2 DEF WhenSettled, Settled, WhenTrimming, TrimThorough
<1>16. QED
  BY <1>2, <1>10, <1>11, <1>12, <1>13, <1>14, <1>15

\* The second pass ends: what was dropped is what was freed.
LEMMA TrimReturnInv ==
  ASSUME IInv, NEW t \in Threads, TrimReturn(t)
  PROVE  IInv'
<1> USE DEF IInv
<1>1. /\ op[t] = "trim" /\ at[t] = "groups" /\ rest = <<>>
      /\ at' = [at EXCEPT ![t] = "unlock"]
      /\ UNCHANGED <<lists, memory, loop>>
      /\ UNCHANGED <<n_grp_free, inuse, lock, op, arg>>
  BY DEF TrimReturn, In, Goto, lists
<1>2. /\ LockHeld' /\ PlaceOf' /\ DestroyAlone' /\ WhenDestroying'
      /\ \A u \in Threads : Returning(u)' = Returning(u)
      /\ InFlight' = InFlight /\ Out' = Out
      /\ \A g : WhollyFree(g)' = WhollyFree(g) /\ Avail(g)' = Avail(g)
      /\ structs = blocks
      /\ \A p \in {"body", "groups", "unlock"}, u \in Threads :
           /\ In(u, "trim", p)' <=> u = t /\ p = "unlock"
           /\ ~In(u, "destroy", p)'
  BY <1>1, TrimFrame
<1>3. /\ IsInjective(groups)
      /\ blocks = ToSet(groups) \cup ToSet(rest)
      /\ \A g \in ToSet(groups) : ~WhollyFree(g)
      /\ ToSet(free_chunks_list) \cup Out
           = ChunksOf({g \in blocks : ~WhollyFree(g)})
      /\ dropped
           = PerGroup * (freed + Cardinality({g \in ToSet(rest) : WhollyFree(g)}))
      /\ freed \in Nat
  BY <1>1 DEF WhenSweeping, In, TypeOK
<1>4. ToSet(rest) = {} /\ blocks = ToSet(groups)
  BY <1>1, <1>3, ElementsOfEmpty
<1>5. {g \in blocks : ~WhollyFree(g)} = ToSet(groups)
  BY <1>3, <1>4
<1>6. dropped = freed * PerGroup
  <2>1. {g \in ToSet(rest) : WhollyFree(g)} = {}
    BY <1>4
  <2>2. dropped = PerGroup * (freed + 0)
    BY <1>3, <2>1, FS_EmptySet
  <2>3. QED
    BY <1>3, <2>2, PerGroupPositive
<1>7. UNCHANGED <<free_chunks_list, groups, structs, blocks, rest, dropped, freed>>
  BY <1>1 DEF lists, memory, loop
<1>8. TypeOK'
  BY <1>1, <1>7 DEF TypeOK
<1>9. HandedOutOnce' /\ AddressesStay' /\ CountOf' /\ StructsOf'
  BY <1>1, <1>2, <1>7
    DEF HandedOutOnce, AddressesStay, CountOf, StructsOf, TypeOK
<1>10. WhenSettled'
  BY <1>2, <1>3, <1>4, <1>5, <1>7 DEF WhenSettled
<1>11. TrimThorough'
  <2>1. \A g \in ToSet(groups') : ~WhollyFree(g)'
    BY <1>2, <1>3, <1>7
  <2>2. \A c \in ToSet(free_chunks_list') : c[1] \in blocks'
    BY <1>3, <1>4, <1>5, <1>7 DEF ChunksOf
  <2>3. QED
    BY <1>6, <1>7, <2>1, <2>2 DEF TrimThorough
<1>12. WhenTrimming' /\ WhenSweeping'
  BY <1>2 DEF WhenTrimming, WhenSweeping
<1>13. QED
  BY <1>2, <1>8, <1>9, <1>10, <1>11, <1>12

-----------------------------------------------------------------------------
(***************************************************************************)
(* Destroy, by the manager's only user.                                    *)
(***************************************************************************)
LEMMA DestroyInv ==
  ASSUME IInv, NEW t \in Threads, DestroyGroup(t) \/ DestroyWipe(t)
  PROVE  IInv'
<1> USE DEF IInv
<1>1. /\ op[t] = "destroy" /\ at[t] = "body" /\ lock = t
      /\ inuse = {} /\ \A u \in Threads \ {t} : op[u] = "none" /\ at[u] = "out"
      /\ UNCHANGED <<n_grp_free, inuse, arg, dropped, freed>>
      /\ rest \in Seq(Group) /\ IsInjective(rest) /\ blocks = ToSet(rest)
  <2>1. /\ op[t] = "destroy" /\ at[t] = "body" /\ In(t, "destroy", "body")
        /\ UNCHANGED <<n_grp_free, inuse, arg, dropped, freed>>
    BY DEF DestroyGroup, DestroyWipe, In, lists, loop
  <2>2. lock = t
    BY <2>1 DEF LockHeld
  <2>3. inuse = {} /\ \A u \in Threads \ {t} : op[u] = "none"
    BY <2>1 DEF DestroyAlone
  <2>4. \A u \in Threads \ {t} : at[u] = "out"
    BY <2>3 DEF PlaceOf
  <2>5. rest \in Seq(Group) /\ IsInjective(rest) /\ blocks = ToSet(rest)
    BY <2>1 DEF WhenDestroying
  <2>6. QED
    BY <2>1, <2>2, <2>3, <2>4, <2>5
<1>2. /\ op \in [Threads -> {"none", "alloc", "free", "trim", "destroy"}]
      /\ at \in [Threads -> {"out", "lock", "body", "block", "groups", "unlock"}]
  BY DEF TypeOK
<1>3. Out = {} /\ InFlight = {} /\ structs = blocks
  BY <1>1 DEF Out, InFlight, Returning, StructsOf
<1>4. CASE DestroyGroup(t)
  <2>1. /\ rest # <<>> /\ rest' = Tail(rest)
        /\ structs' = structs \ {Head(rest)} /\ blocks' = blocks \ {Head(rest)}
        /\ UNCHANGED <<lists, lock, op, at>>
    BY <1>4 DEF DestroyGroup
  <2>2. /\ rest' \in Seq(Group) /\ IsInjective(rest')
        /\ ToSet(rest) = {Head(rest)} \cup ToSet(rest')
        /\ Head(rest) \notin ToSet(rest')
    BY <1>1, <2>1, ElementsOfTail
  <2>3. blocks' = ToSet(rest') /\ structs' = blocks' /\ blocks' \subseteq blocks
    BY <1>1, <1>3, <2>1, <2>2
  <2>4. Out' = {} /\ InFlight' = {}
    BY <1>1, <1>3, <2>1 DEF Out, InFlight, Returning
  <2>5. TypeOK'
    BY <1>1, <2>1, <2>2, <2>3 DEF TypeOK, lists
  <2>6. HandedOutOnce' /\ AddressesStay'
    BY <1>1, <2>1, <2>4 DEF HandedOutOnce, AddressesStay, Returning, Out, lists
  <2>7. CountOf' /\ StructsOf' /\ WhenDestroying'
    BY <1>1, <1>3, <2>1, <2>2, <2>3, <2>4
      DEF CountOf, Avail, StructsOf, WhenDestroying, lists
  <2>8. LockHeld' /\ PlaceOf' /\ DestroyAlone'
    BY <1>1, <2>1 DEF LockHeld, PlaceOf, DestroyAlone, Returning
  <2>9. WhenSettled' /\ WhenTrimming' /\ WhenSweeping' /\ TrimThorough'
    BY <1>1, <2>1
      DEF WhenSettled, Settled, WhenTrimming, WhenSweeping, TrimThorough, In
  <2>10. QED
    BY <2>5, <2>6, <2>7, <2>8, <2>9
<1>5. CASE DestroyWipe(t)
  <2>1. /\ rest = <<>> /\ free_chunks_list' = <<>> /\ groups' = <<>>
        /\ lock' = NoThread /\ op' = [op EXCEPT ![t] = "none"]
        /\ at' = [at EXCEPT ![t] = "out"]
        /\ UNCHANGED <<structs, blocks, rest>>
    BY <1>5 DEF DestroyWipe, Goto, memory, loop
  <2>2. /\ \A u \in Threads : op'[u] = "none" /\ at'[u] = "out"
        /\ op' \in [Threads -> {"none", "alloc", "free", "trim", "destroy"}]
        /\ at' \in [Threads -> {"out", "lock", "body", "block", "groups", "unlock"}]
    BY <1>1, <1>2, <2>1
  <2>3. blocks' = {} /\ structs' = {} /\ ToSet(groups') = {}
        /\ ToSet(free_chunks_list') = {}
    BY <1>1, <1>3, <2>1, ElementsOfEmpty
  <2>4. Out' = {} /\ InFlight' = {}
    BY <1>1, <2>2 DEF Out, InFlight, Returning
  <2>5. TypeOK'
    BY <1>1, <2>1, <2>2, <2>3, EmptySeq DEF TypeOK
  <2>6. HandedOutOnce' /\ AddressesStay'
    BY <1>1, <2>1, <2>2, <2>3, <2>4, ElementsOfEmpty
      DEF HandedOutOnce, AddressesStay, Returning, Out
  <2>7. CountOf' /\ StructsOf' /\ WhenDestroying'
    BY <2>2, <2>3 DEF CountOf, StructsOf, WhenDestroying, In
  <2>8. LockHeld' /\ PlaceOf' /\ DestroyAlone'
    BY <2>1, <2>2, NoThreadIsNone DEF LockHeld, PlaceOf, DestroyAlone, Returning
  <2>9. WhenSettled'
    BY <2>1, <2>3, <2>4, ElementsOfEmpty DEF WhenSettled, ChunksOf
  <2>10. WhenTrimming' /\ WhenSweeping' /\ TrimThorough'
    BY <2>2 DEF WhenTrimming, WhenSweeping, TrimThorough, In
  <2>11. QED
    BY <2>5, <2>6, <2>7, <2>8, <2>9, <2>10
<1>6. QED
  BY <1>4, <1>5

LEMMA StepInv == IInv /\ [Next]_vars => IInv'
<1> SUFFICES ASSUME IInv, [Next]_vars PROVE IInv'
  OBVIOUS
<1>1. CASE Next
  <2>1. PICK t \in Threads :
          \/ CallAlloc(t) \/ CallTrim(t) \/ CallDestroy(t)
          \/ \E c \in Chunk : CallFree(t, c)
          \/ Acquire(t) \/ Body(t)
    BY <1>1 DEF Next
  <2>2. CASE Body(t)
    BY <2>2, ReleaseInv, AllocPopInv, StructInv, GetBlockInv, FreePushInv,
      TrimChunkInv, TrimTurnInv, TrimGroupInv, TrimReturnInv, DestroyInv
      DEF Body
  <2>3. QED
    BY <2>1, <2>2, CallInv, AcquireInv
<1>2. CASE UNCHANGED vars
  <2>1. UNCHANGED <<lists, memory, inuse, lock, op, at, arg, loop>>
    BY <1>2 DEF vars
  <2>2. UNCHANGED <<free_chunks_list, groups, n_grp_free, structs, blocks, rest,
                    dropped, freed>>
    BY <2>1 DEF lists, memory, loop
  <2>3. \A t \in Threads : Returning(t)' = Returning(t)
    BY <2>1 DEF Returning
  <2>4. InFlight' = InFlight /\ Out' = Out
    BY <2>1, <2>3, OutKept
  <2>5. /\ CountOf' /\ AddressesStay'
        /\ WhenSettled' /\ WhenTrimming' /\ WhenSweeping' /\ WhenDestroying'
    BY <2>1, <2>4, PhasesKept DEF IInv, In
  <2>6. TypeOK' /\ LockHeld' /\ PlaceOf' /\ DestroyAlone' /\ StructsOf'
    BY <2>1, <2>2, <2>3
      DEF IInv, TypeOK, LockHeld, PlaceOf, DestroyAlone, StructsOf
  <2>7. HandedOutOnce' /\ TrimThorough'
    BY <2>1, <2>2, <2>3, <2>4
      DEF IInv, HandedOutOnce, TrimThorough, In, WhollyFree
  <2>8. QED
    BY <2>5, <2>6, <2>7 DEF IInv
<1>3. QED
  BY <1>1, <1>2

\* The inductive invariant holds in every reachable state.
THEOREM Invariance == Spec => []IInv
BY InitInv, StepInv, PTL DEF Spec

-----------------------------------------------------------------------------
(***************************************************************************)
(* The properties, and the pool.                                           *)
(***************************************************************************)

\* chunk_free finds the group of its chunk before it locks: the memory of a
\* chunk that is in use or on its way back is never returned meanwhile.
THEOREM ChunksStayPut == Spec => []AddressesStay
BY Invariance, PTL DEF IInv

\* chunk_alloc gives a chunk to one user, and no two frees of the same chunk
\* run at once.
THEOREM OneHolder == Spec => []HandedOutOnce
BY Invariance, PTL DEF IInv

\* chunk_manager_trim leaves no wholly free group and no chunk of one.
THEOREM TrimFreesAll == Spec => []TrimThorough
BY Invariance, PTL DEF IInv

\* With the lock free no thread is inside a function.
LEMMA LockFreeMeans ==
  ASSUME IInv, lock = NoThread
  PROVE  /\ Settled
         /\ \A t \in Threads : at[t] # "block"
<1>1. \A t \in Threads : at[t] \notin {"body", "block", "groups", "unlock"}
  BY NoThreadIsNone DEF IInv, LockHeld
<1>2. QED
  BY <1>1 DEF Settled, In

\* With the lock free, the count of a group is that of its chunks on the
\* free list, and every chunk of the groups is free, in use or coming back.
THEOREM CountedRight == Spec => []CountsExact
<1>1. ASSUME IInv PROVE CountsExact
  <2> USE <1>1 DEF IInv
  <2> SUFFICES ASSUME lock = NoThread
               PROVE  /\ \A g \in ToSet(groups) : n_grp_free[g]
                           = Cardinality({c \in ToSet(free_chunks_list) : c[1] = g})
                      /\ ToSet(free_chunks_list) \cup inuse \cup InFlight
                           = ToSet(groups) \X (1..PerGroup)
    BY DEF CountsExact
  <2>1. /\ blocks = ToSet(groups)
        /\ ToSet(free_chunks_list) \cup Out = ChunksOf(ToSet(groups))
    BY LockFreeMeans DEF WhenSettled
  <2>2. ToSet(free_chunks_list) \cap Out = {}
    BY DEF HandedOutOnce, Out
  <2>3. ASSUME NEW g \in ToSet(groups)
        PROVE  n_grp_free[g]
                 = Cardinality({c \in ToSet(free_chunks_list) : c[1] = g})
    <3> DEFINE C == {c \in ToSet(free_chunks_list) : c[1] = g}
    <3>1. C = {g} \X Avail(g)
      BY <2>1, <2>2 DEF Avail, ChunksOf
    <3>2. IsFiniteSet(Avail(g)) /\ Cardinality(Avail(g)) \in Nat
      BY AvailFinite, PerGroupPositive
    <3>3. IsFiniteSet({g}) /\ Cardinality({g}) = 1
      BY FS_Singleton
    <3>4. Cardinality({g} \X Avail(g)) = Cardinality({g}) * Cardinality(Avail(g))
      BY <3>2, <3>3, FS_Product
    <3>5. \A n \in Nat : 1 * n = n
      OBVIOUS
    <3>6. Cardinality({g} \X Avail(g)) = Cardinality(Avail(g))
      BY <3>2, <3>3, <3>4, <3>5
    <3>7. n_grp_free[g] = Cardinality({g} \X Avail(g))
      BY <2>1, <3>6 DEF CountOf
    <3>8. QED
      BY <3>1, <3>7
  <2>4. QED
    BY <2>1, <2>3 DEF ChunksOf, Out
<1>2. QED
  BY <1>1, Invariance, PTL

\* With the lock free the memory obtained is that of the listed groups.
THEOREM NothingLeaks == Spec => []NoLeak
<1>1. ASSUME IInv PROVE NoLeak
  BY <1>1, LockFreeMeans DEF IInv, NoLeak, WhenSettled, StructsOf
<1>2. QED
  BY <1>1, Invariance, PTL

\* Every step of the code is a step of the pool, or changes nothing of it.
LEMMA StepRefines ==
  ASSUME IInv, [Next]_vars
  PROVE  Pool!PoolNext \/ UNCHANGED Pool!poolvars
<1> USE DEF IInv
<1>1. CASE UNCHANGED vars
  BY <1>1 DEF vars, memory, Pool!poolvars
<1>2. ASSUME NEW t \in Threads, NEW c \in Chunk, CallFree(t, c)
      PROVE  Pool!PoolNext
  <2>1. PICK g \in Group, i \in 1..PerGroup : c = <<g, i>>
    BY DEF Chunk
  <2>2. Pool!Give(g, i)
    BY <1>2, <2>1 DEF CallFree, Call, memory, Pool!Give
  <2>3. QED
    BY <2>2 DEF Pool!PoolNext
<1>3. ASSUME NEW t \in Threads, AllocPop(t)
      PROVE  Pool!PoolNext
  <2>1. In(t, "alloc", "body") /\ free_chunks_list # <<>>
    BY <1>3 DEF AllocPop
  <2>2. free_chunks_list \in Seq(Chunk)
    BY DEF TypeOK
  <2>3. /\ Head(free_chunks_list) \in Chunk
        /\ Head(free_chunks_list) \in ToSet(free_chunks_list)
    BY <2>1, <2>2, ElementsOfTail
  <2>4. PICK g \in Group, i \in 1..PerGroup : Head(free_chunks_list) = <<g, i>>
    BY <2>3 DEF Chunk
  <2>5. Settled
    BY <2>1 DEF LockHeld, Settled, In
  <2>6. g \in blocks /\ <<g, i>> \notin inuse
    BY <2>3, <2>4, <2>5 DEF WhenSettled, ChunksOf, HandedOutOnce
  <2>7. Pool!Take(g, i)
    BY <1>3, <2>4, <2>6 DEF AllocPop, memory, Pool!Take
  <2>8. QED
    BY <2>7 DEF Pool!PoolNext
<1>4. ASSUME NEW t \in Threads, GetBlock(t)
      PROVE  Pool!PoolNext
  <2>1. arg[t] \in Group /\ arg[t] \notin blocks
    BY <1>4 DEF GetBlock, In, PlaceOf, StructsOf
  <2>2. Pool!Grow(arg[t])
    BY <1>4, <2>1 DEF GetBlock, Pool!Grow
  <2>3. QED
    BY <2>1, <2>2 DEF Pool!PoolNext
<1>5. ASSUME NEW t \in Threads, TrimGroup(t) \/ DestroyGroup(t)
      PROVE  Pool!PoolNext \/ UNCHANGED Pool!poolvars
  <2>1. CASE UNCHANGED blocks
    BY <1>5, <2>1 DEF TrimGroup, DestroyGroup, Pool!poolvars
  <2>2. CASE ~UNCHANGED blocks
    <3>1. /\ blocks' = blocks \ {Head(rest)} /\ inuse' = inuse
          /\ rest \in Seq(Group) /\ rest # <<>>
          /\ ToSet(rest) \subseteq blocks
          /\ WhollyFree(Head(rest)) \/ inuse = {}
      BY <1>5, <2>2 DEF TrimGroup, DestroyGroup, In, memory, WhenSweeping,
        WhenDestroying, DestroyAlone
    <3>2. Head(rest) \in blocks /\ Head(rest) \in Group
      BY <3>1, ElementsOfTail DEF TypeOK
    <3>3. \A i \in 1..PerGroup : <<Head(rest), i>> \notin inuse
      BY <3>1, <3>2, WhollyFreeMeans DEF Out
    <3>4. Pool!Shrink(Head(rest))
      BY <3>1, <3>2, <3>3 DEF Pool!Shrink
    <3>5. QED
      BY <3>2, <3>4 DEF Pool!PoolNext
  <2>3. QED
    BY <2>1, <2>2
<1>6. ASSUME NEW t \in Threads,
             \/ CallAlloc(t) \/ CallTrim(t) \/ CallDestroy(t) \/ Acquire(t)
             \/ StructFails(t) \/ BlockFails(t) \/ FreePush(t) \/ TrimChunk(t)
             \/ TrimTurn(t) \/ TrimReturn(t) \/ DestroyWipe(t) \/ Release(t)
             \/ \E g \in Group : GetStruct(t, g)
      PROVE  UNCHANGED Pool!poolvars
  BY <1>6 DEF CallAlloc, CallTrim, CallDestroy, Call, Acquire, StructFails,
    BlockFails, FreePush, TrimChunk, TrimTurn, TrimReturn, DestroyWipe, Release,
    GetStruct, memory, Pool!poolvars
<1>7. QED
  BY <1>1, <1>2, <1>3, <1>4, <1>5, <1>6 DEF Next, Body

\* The code implements the pool: no chunk is handed out twice, and no group
\* goes back to the system while a user has a chunk of it.
THEOREM Refinement == Spec => ImplementsPool
<1>1. Init => Pool!PoolInit
  BY DEF Init, Pool!PoolInit
<1>2. IInv /\ [Next]_vars => [Pool!PoolNext]_(Pool!poolvars)
  BY StepRefines
<1>3. QED
  BY <1>1, <1>2, Invariance, PTL DEF Spec, ImplementsPool, Pool!PoolSpec
=============================================================================
