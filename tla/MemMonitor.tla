----------------------------- MODULE MemMonitor -----------------------------
(***************************************************************************)
(* mem_monitor_object.c: blocks with a header that remembers the monitor   *)
(* they are charged to and their size.  An object charges its own monitor  *)
(* or the one its parent gave it, so several objects may share one.  The   *)
(* counters have no lock: the objects that share a monitor are used by one *)
(* thread, and a function is one step.  MEM_MONITOR_ZREALLOC, which would  *)
(* clear the block at its old address, has no caller and is left out.      *)
(***************************************************************************)
EXTENDS Integers, FiniteSetsExt

CONSTANTS
  Objects,
  Monitors,
  Block,      \* addresses malloc may return
  Sizes,      \* sizes asked for
  Header,     \* sizeof(mem_header_t)
  MaxAllocations   \* bound: the allocations counted in a monitor

ConstantsOK == Sizes \subseteq Nat /\ Header \in Nat \ {0}

VARIABLES
  mem_mon_p,                       \* of each object: the monitor it charges
  bytes_used, allocations, frees,  \* of each monitor
  block                            \* the allocated blocks: header and owner

counters == <<bytes_used, allocations, frees>>
vars == <<mem_mon_p, counters, block>>

\* MEM_MONITOR_SETUP of each object, with or without a parent monitor.
Init ==
  /\ mem_mon_p \in [Objects -> Monitors]
  /\ bytes_used = [m \in Monitors |-> 0]
  /\ allocations = bytes_used /\ frees = bytes_used
  /\ block = <<>>

mem_monitor_allocate(o, b, size) ==
  LET mmp == mem_mon_p[o]
      total_size == size + Header
  IN /\ b \notin DOMAIN block
     /\ allocations[mmp] < MaxAllocations
     /\ block' = [a \in DOMAIN block \cup {b} |->
                    IF a = b THEN [mmp |-> mmp, total_size |-> total_size, owner |-> o]
                             ELSE block[a]]
     /\ bytes_used' = [bytes_used EXCEPT ![mmp] = @ + total_size]
     /\ allocations' = [allocations EXCEPT ![mmp] = @ + 1]
     /\ UNCHANGED <<mem_mon_p, frees>>

mem_monitor_free(b) ==
  LET mhp == block[b]
  IN /\ b \in DOMAIN block
     /\ bytes_used' = [bytes_used EXCEPT ![mhp.mmp] = @ - mhp.total_size]
     /\ frees' = [frees EXCEPT ![mhp.mmp] = @ + 1]
     /\ block' = [a \in DOMAIN block \ {b} |-> block[a]]
     /\ UNCHANGED <<mem_mon_p, allocations>>

\* Mutant: the size in the header stays that of the old block.
ReallocateKeepsSize(b, new, size) ==
  LET mhp == block[b]
      new_total_size == size + Header
  IN /\ b \in DOMAIN block /\ new \notin DOMAIN block \ {b}
     /\ bytes_used' = [bytes_used EXCEPT ![mhp.mmp] =
                         @ - mhp.total_size + new_total_size]
     /\ block' = [a \in (DOMAIN block \ {b}) \cup {new} |->
                    IF a = new THEN mhp ELSE block[a]]
     /\ UNCHANGED <<mem_mon_p, allocations, frees>>

\* realloc leaves the block where it is or moves it, header and all; without
\* memory nothing changes.  For a null pointer it is an allocation.
mem_monitor_reallocate(b, new, size) ==
  LET mhp == block[b]
      new_total_size == size + Header
  IN /\ b \in DOMAIN block /\ new \notin DOMAIN block \ {b}
     /\ bytes_used' = [bytes_used EXCEPT ![mhp.mmp] =
                         @ - mhp.total_size + new_total_size]
     /\ block' = [a \in (DOMAIN block \ {b}) \cup {new} |->
                    IF a = new THEN [mhp EXCEPT !.total_size = new_total_size]
                               ELSE block[a]]
     /\ UNCHANGED <<mem_mon_p, allocations, frees>>

Next ==
  \/ \E o \in Objects, b \in Block, size \in Sizes :
       mem_monitor_allocate(o, b, size)
  \/ \E b \in Block : mem_monitor_free(b)
  \/ \E b, new \in Block, size \in Sizes : mem_monitor_reallocate(b, new, size)

Spec == Init /\ [][Next]_vars

-----------------------------------------------------------------------------
\* Whatever objects share a monitor, its counters are those of the blocks
\* charged to it that are alive, and each block to the monitor of its object.
Exact ==
  \A m \in Monitors :
    LET alive == {b \in DOMAIN block : block[b].mmp = m}
    IN /\ bytes_used[m] = MapThenSumSet(LAMBDA b : block[b].total_size, alive)
       /\ allocations[m] - frees[m] = Cardinality(alive)
       /\ \A b \in alive : mem_mon_p[block[b].owner] = m
=============================================================================
