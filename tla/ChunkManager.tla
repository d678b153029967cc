---------------------------- MODULE ChunkManager ----------------------------
(***************************************************************************)
(* chunk_manager.c: fixed size chunks cut from groups, the free ones of    *)
(* all groups on one list.  Threads share a manager made thread safe: each *)
(* function is a call, the wait for the write lock, its body and the       *)
(* release.  The two mallocs of a new group, each of which may fail, and   *)
(* each turn of the loops of trim and destroy are steps of their own.      *)
(* The lock is the write lock RWLock specifies; no reader ever takes it.   *)
(*                                                                         *)
(* A chunk is <<g, i>>, the i-th of the group at address g; an address is  *)
(* reused once the group is freed.                                         *)
(***************************************************************************)
EXTENDS Integers, FiniteSets, SequencesExt

CONSTANTS Threads,   \* the users of the manager
          Group,     \* addresses malloc can return for a group
          PerGroup,  \* chunks_per_group
          NoThread   \* the lock is free

ASSUME PerGroupPositive == PerGroup \in Nat \ {0}
ASSUME GroupFinite == IsFiniteSet(Group)
ASSUME NoThreadIsNone == NoThread \notin Threads

VARIABLES
  free_chunks_list,  \* the free chunks, head first
  groups,            \* the list of groups, head first
  n_grp_free,        \* n_grp_free[g]: the count in the structure of g
  structs, blocks,   \* addresses of chunk_group_t's, of their chunk blocks
  inuse,             \* chunks in the users' hands
  lock,              \* who holds the write lock
  op, at,            \* op[t], at[t]: the function t is in, and where
  arg,               \* arg[t]: the chunk t is freeing, the group it makes
  rest,              \* what is left of the list the running loop consumes
  dropped, freed     \* chunks_tobe_freed, grps_tobe_freed of trim

lists == <<free_chunks_list, groups, n_grp_free>>
memory == <<structs, blocks>>
loop == <<rest, dropped, freed>>
vars == <<lists, memory, inuse, lock, op, at, arg, loop>>

Chunk == Group \X (1..PerGroup)
None == <<>>

Init ==
  /\ free_chunks_list = <<>> /\ groups = <<>>
  /\ n_grp_free = [g \in Group |-> 0]
  /\ structs = {} /\ blocks = {} /\ inuse = {}
  /\ lock = NoThread
  /\ op = [t \in Threads |-> "none"]
  /\ at = [t \in Threads |-> "out"]
  /\ arg = [t \in Threads |-> None]
  /\ rest = <<>> /\ dropped = 0 /\ freed = 0

Goto(t, place) == at' = [at EXCEPT ![t] = place]
In(t, f, place) == op[t] = f /\ at[t] = place

-----------------------------------------------------------------------------
\* Calls, OBJ_WRITE_LOCK and OBJ_WRITE_UNLOCK.  No one calls a manager that
\* is being destroyed.
Call(t, f) ==
  /\ op[t] = "none"
  /\ \A u \in Threads : op[u] # "destroy"
  /\ op' = [op EXCEPT ![t] = f]
  /\ Goto(t, "lock")
  /\ UNCHANGED <<lists, memory, lock, loop>>

CallAlloc(t) == Call(t, "alloc") /\ UNCHANGED <<inuse, arg>>
CallTrim(t) == Call(t, "trim") /\ UNCHANGED <<inuse, arg>>

\* chunk_free finds the manager through the group, before it locks.
CallFree(t, c) ==
  /\ c \in inuse
  /\ Call(t, "free")
  /\ inuse' = inuse \ {c}
  /\ arg' = [arg EXCEPT ![t] = c]

\* Only the last user destroys: no call is running, no chunk is out.
CallDestroy(t) ==
  /\ \A u \in Threads : op[u] = "none"
  /\ inuse = {}
  /\ Call(t, "destroy")
  /\ UNCHANGED <<inuse, arg>>

\* Mutant: trim rebuilds the free list without emptying it first.
AcquireKeepsList(t) ==
  /\ at[t] = "lock"
  /\ lock = NoThread
  /\ lock' = t
  /\ Goto(t, "body")
  /\ rest' = CASE op[t] = "trim"    -> free_chunks_list
               [] op[t] = "destroy" -> groups
               [] OTHER             -> <<>>
  /\ dropped' = 0 /\ freed' = 0
  /\ UNCHANGED <<lists, memory, inuse, op, arg>>

\* Trim and destroy take the list they consume on entry.
Acquire(t) ==
  /\ at[t] = "lock"
  /\ lock = NoThread
  /\ lock' = t
  /\ Goto(t, "body")
  /\ rest' = CASE op[t] = "trim"    -> free_chunks_list
               [] op[t] = "destroy" -> groups
               [] OTHER             -> <<>>
  /\ free_chunks_list' = IF op[t] = "trim" THEN <<>> ELSE free_chunks_list
  /\ dropped' = 0 /\ freed' = 0
  /\ UNCHANGED <<groups, n_grp_free, memory, inuse, op, arg>>

\* Mutant: the function returns with the lock held.
ReleaseKeepsLock(t) ==
  /\ at[t] = "unlock"
  /\ op' = [op EXCEPT ![t] = "none"]
  /\ Goto(t, "out")
  /\ arg' = [arg EXCEPT ![t] = None]
  /\ UNCHANGED <<lists, memory, inuse, lock, loop>>

Release(t) ==
  /\ at[t] = "unlock"
  /\ lock' = NoThread
  /\ op' = [op EXCEPT ![t] = "none"]
  /\ Goto(t, "out")
  /\ arg' = [arg EXCEPT ![t] = None]
  /\ UNCHANGED <<lists, memory, inuse, loop>>

-----------------------------------------------------------------------------
\* chunk_alloc: pop the head, or make a group and pop then.
AllocPop(t) ==
  /\ In(t, "alloc", "body")
  /\ free_chunks_list # <<>>
  /\ LET c == Head(free_chunks_list) IN
       /\ free_chunks_list' = Tail(free_chunks_list)
       /\ n_grp_free' = [n_grp_free EXCEPT ![c[1]] = @ - 1]
       /\ inuse' = inuse \cup {c}
  /\ Goto(t, "unlock")
  /\ UNCHANGED <<groups, memory, lock, op, arg, loop>>

GetStruct(t, g) ==
  /\ In(t, "alloc", "body")
  /\ free_chunks_list = <<>>
  /\ g \notin structs
  /\ structs' = structs \cup {g}
  /\ arg' = [arg EXCEPT ![t] = g]
  /\ Goto(t, "block")
  /\ UNCHANGED <<lists, blocks, inuse, lock, op, loop>>

StructFails(t) ==
  /\ In(t, "alloc", "body")
  /\ free_chunks_list = <<>>
  /\ Goto(t, "unlock")
  /\ UNCHANGED <<lists, memory, inuse, lock, op, arg, loop>>

\* The chunks go on the free list one by one, so the last is at its head.
Partition(g) == [i \in 1..PerGroup |-> <<g, PerGroup + 1 - i>>]

GetBlock(t) ==
  /\ In(t, "alloc", "block")
  /\ LET g == arg[t] IN
       /\ blocks' = blocks \cup {g}
       /\ free_chunks_list' = Partition(g) \o free_chunks_list
       /\ n_grp_free' = [n_grp_free EXCEPT ![g] = PerGroup]
       /\ groups' = <<g>> \o groups
  /\ Goto(t, "body")
  /\ UNCHANGED <<structs, inuse, lock, op, arg, loop>>

\* Mutant: the structure is not freed when the block cannot be had.
BlockFailsLeaks(t) ==
  /\ In(t, "alloc", "block")
  /\ Goto(t, "unlock")
  /\ UNCHANGED <<lists, memory, inuse, lock, op, arg, loop>>

BlockFails(t) ==
  /\ In(t, "alloc", "block")
  /\ structs' = structs \ {arg[t]}
  /\ Goto(t, "unlock")
  /\ UNCHANGED <<lists, blocks, inuse, lock, op, arg, loop>>

\* Mutant: the push leaves the group's count alone.
FreeForgetsCount(t) ==
  /\ In(t, "free", "body")
  /\ free_chunks_list' = <<arg[t]>> \o free_chunks_list
  /\ Goto(t, "unlock")
  /\ UNCHANGED <<groups, n_grp_free, memory, inuse, lock, op, arg, loop>>

\* chunk_free: back to the group's count and to the head of the list.
FreePush(t) ==
  /\ In(t, "free", "body")
  /\ n_grp_free' = [n_grp_free EXCEPT ![arg[t][1]] = @ + 1]
  /\ free_chunks_list' = <<arg[t]>> \o free_chunks_list
  /\ Goto(t, "unlock")
  /\ UNCHANGED <<groups, memory, inuse, lock, op, arg, loop>>

-----------------------------------------------------------------------------
(***************************************************************************)
(* chunk_manager_trim.  First pass: a chunk of a group with a chunk in use *)
(* goes back on the free list, one of a wholly free group is dropped.      *)
(* Second pass, if any was dropped: the wholly free groups are freed.      *)
(***************************************************************************)
\* Mutant: off by one.
AlmostFree(g) == n_grp_free[g] >= PerGroup - 1

WhollyFree(g) == n_grp_free[g] >= PerGroup

TrimChunk(t) ==
  /\ In(t, "trim", "body")
  /\ rest # <<>>
  /\ rest' = Tail(rest)
  /\ IF WhollyFree(Head(rest)[1])
     THEN dropped' = dropped + 1 /\ UNCHANGED free_chunks_list
     ELSE /\ free_chunks_list' = <<Head(rest)>> \o free_chunks_list
          /\ UNCHANGED dropped
  /\ UNCHANGED <<groups, n_grp_free, memory, inuse, lock, op, at, arg, freed>>

\* Mutant: the list of groups is not emptied before it is rebuilt.
TrimTurnKeepsGroups(t) ==
  /\ In(t, "trim", "body")
  /\ rest = <<>>
  /\ IF dropped > 0
     THEN rest' = groups /\ Goto(t, "groups")
     ELSE UNCHANGED rest /\ Goto(t, "unlock")
  /\ UNCHANGED <<lists, memory, inuse, lock, op, arg, dropped, freed>>

TrimTurn(t) ==
  /\ In(t, "trim", "body")
  /\ rest = <<>>
  /\ IF dropped > 0
     THEN rest' = groups /\ groups' = <<>> /\ Goto(t, "groups")
     ELSE UNCHANGED <<rest, groups>> /\ Goto(t, "unlock")
  /\ UNCHANGED <<free_chunks_list, n_grp_free, memory, inuse, lock, op, arg,
                 dropped, freed>>

TrimGroup(t) ==
  /\ In(t, "trim", "groups")
  /\ rest # <<>>
  /\ rest' = Tail(rest)
  /\ IF WhollyFree(Head(rest))
     THEN /\ structs' = structs \ {Head(rest)}
          /\ blocks' = blocks \ {Head(rest)}
          /\ freed' = freed + 1
          /\ UNCHANGED groups
     ELSE groups' = <<Head(rest)>> \o groups /\ UNCHANGED <<memory, freed>>
  /\ UNCHANGED <<free_chunks_list, n_grp_free, inuse, lock, op, at, arg,
                 dropped>>

TrimReturn(t) ==
  /\ In(t, "trim", "groups")
  /\ rest = <<>>
  /\ Goto(t, "unlock")
  /\ UNCHANGED <<lists, memory, inuse, lock, op, arg, loop>>

-----------------------------------------------------------------------------
\* chunk_manager_destroy: every group is freed, then the whole structure is
\* zeroed, the held lock with it.  A new chunk_manager_init starts from there.
DestroyGroup(t) ==
  /\ In(t, "destroy", "body")
  /\ rest # <<>>
  /\ structs' = structs \ {Head(rest)}
  /\ blocks' = blocks \ {Head(rest)}
  /\ rest' = Tail(rest)
  /\ UNCHANGED <<lists, inuse, lock, op, at, arg, dropped, freed>>

DestroyWipe(t) ==
  /\ In(t, "destroy", "body")
  /\ rest = <<>>
  /\ free_chunks_list' = <<>> /\ groups' = <<>>
  /\ lock' = NoThread
  /\ op' = [op EXCEPT ![t] = "none"]
  /\ Goto(t, "out")
  /\ UNCHANGED <<n_grp_free, memory, inuse, arg, loop>>

\* The steps of a call once its thread holds the lock.
Body(t) ==
  \/ AllocPop(t) \/ StructFails(t) \/ GetBlock(t) \/ BlockFails(t)
  \/ \E g \in Group : GetStruct(t, g)
  \/ FreePush(t)
  \/ TrimChunk(t) \/ TrimTurn(t) \/ TrimGroup(t) \/ TrimReturn(t)
  \/ DestroyGroup(t) \/ DestroyWipe(t)
  \/ Release(t)

Next == \E t \in Threads :
  \/ CallAlloc(t) \/ CallTrim(t) \/ CallDestroy(t)
  \/ \E c \in Chunk : CallFree(t, c)
  \/ Acquire(t)
  \/ Body(t)

Spec == Init /\ [][Next]_vars

\* A thread that holds the lock runs on; the spinning lock is strongly fair.
FairSpec == Spec /\ \A t \in Threads : WF_vars(Body(t)) /\ SF_vars(Acquire(t))

-----------------------------------------------------------------------------
TypeOK ==
  /\ free_chunks_list \in Seq(Chunk)
  /\ groups \in Seq(Group)
  /\ n_grp_free \in [Group -> 0..PerGroup]
  /\ structs \subseteq Group /\ blocks \subseteq structs
  /\ inuse \subseteq Chunk
  /\ lock \in Threads \cup {NoThread}
  /\ op \in [Threads -> {"none", "alloc", "free", "trim", "destroy"}]
  /\ at \in [Threads -> {"out", "lock", "body", "block", "groups", "unlock"}]
  /\ arg \in [Threads -> Chunk \cup Group \cup {None}]
  /\ rest \in Seq(Chunk) \cup Seq(Group)
  /\ dropped \in Nat /\ freed \in Nat

\* Chunks on their way back: chunk_free was called and has not pushed yet.
Returning(t) == op[t] = "free" /\ at[t] \in {"lock", "body"}
InFlight == {arg[t] : t \in {u \in Threads : Returning(u)}}

\* chunk_manager.h, "the addresses of all previously allocated chunks MUST
\* stay the same": no chunk that a user holds, or that a thread is giving
\* back, lies in memory that trim has returned to the system, whatever runs
\* between the unlocked read of the chunk's header and the lock.
AddressesStay == \A c \in inuse \cup InFlight : c[1] \in blocks

\* No chunk is given to two users: what is on the free list is in no one's
\* hands, is there once, and no two threads give the same chunk back.
HandedOutOnce ==
  /\ IsInjective(free_chunks_list)
  /\ ToSet(free_chunks_list) \cap (inuse \cup InFlight) = {}
  /\ inuse \cap InFlight = {}
  /\ \A t, u \in Threads :
       Returning(t) /\ Returning(u) /\ arg[t] = arg[u] => t = u

\* Every variable has its type; and with the lock free the group counts are
\* the free list's and every chunk of a listed group is accounted for: free,
\* in use or on its way back.
CountsExact ==
  /\ TypeOK
  /\ lock = NoThread =>
    /\ \A g \in ToSet(groups) : n_grp_free[g]
         = Cardinality({c \in ToSet(free_chunks_list) : c[1] = g})
    /\ ToSet(free_chunks_list) \cup inuse \cup InFlight
         = ToSet(groups) \X (1..PerGroup)

\* With the lock free the memory obtained is that of the listed groups,
\* each listed once: no failed malloc, trim or destroy leaks or keeps any.
NoLeak ==
  lock = NoThread =>
    /\ IsInjective(groups)
    /\ structs = ToSet(groups)
    /\ blocks = structs

\* chunk_manager_trim gives back every group with no chunk outside the
\* list, and none of the dropped chunks lingers on it.
TrimThorough ==
  \A t \in Threads : In(t, "trim", "unlock") =>
    /\ \A g \in ToSet(groups) : ~WhollyFree(g)
    /\ dropped = freed * PerGroup
    /\ \A c \in ToSet(free_chunks_list) : c[1] \in blocks

\* Every call returns: no path leaves the lock held, no loop turns forever.
CallsReturn == \A t \in Threads : op[t] # "none" ~> op[t] = "none"

\* The manager implements the pool: a chunk counts as given back when
\* chunk_free is called, a group as returned when its block is freed.
Pool == INSTANCE ChunkPool WITH mapped <- blocks
ImplementsPool == Pool!PoolSpec
=============================================================================
