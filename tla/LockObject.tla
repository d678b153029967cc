----------------------------- MODULE LockObject -----------------------------
(***************************************************************************)
(* lock_object.c: the spinning read/write lock that every container of     *)
(* the library embeds.  One byte, mtx, taken by test-and-compare-and-swap, *)
(* guards three plain fields: the reader count (a signed short), the       *)
(* write_pending mark and the writing flag.                                *)
(*                                                                         *)
(* Every access to a shared field by a thread is a step of its own: the    *)
(* plain test of mtx, the compare-and-swap, each branch on a field, the    *)
(* load and the store of readers++ and --readers, and the plain store that *)
(* frees mtx.  A spin that finds mtx taken changes nothing, so the test    *)
(* simply waits for mtx = 0 (holdoff() is sched_yield()).  Memory is       *)
(* sequentially consistent.                                                *)
(***************************************************************************)
EXTENDS Integers, FiniteSets

CONSTANTS
  Readers,   \* threads that take the read lock
  Writers,   \* threads that take the write lock (the sets may overlap)
  MaxDepth,  \* read locks one thread nests (the header allows recursion)
  MaxShort   \* largest value of the C type short

Threads == Readers \cup Writers

ASSUME ThreadsFinite == IsFiniteSet(Readers) /\ IsFiniteSet(Writers)
ASSUME DepthPositive == MaxDepth \in Nat \ {0}
ASSUME ShortPositive == MaxShort \in Nat \ {0}

VARIABLES
  mtx, readers, write_pending, writing,  \* the fields of lock_obj_t
  op,     \* op[t]: the function thread t is executing, "none" outside
  at,     \* at[t]: where in that function
  reg,    \* reg[t]: the value of readers that t loaded
  holds,  \* holds[t]: read locks of t counted, from readers++ to --readers
  writer  \* threads between writing = true and writing = false

fields == <<mtx, readers, write_pending, writing>>
held == <<holds, writer>>
vars == <<mtx, readers, write_pending, writing, op, at, reg, holds, writer>>

Ops == {"read_lock", "read_unlock", "write_lock", "write_unlock"}

\* The places where a thread owns mtx.
Critical == {"mark", "check", "load", "store", "clear", "backoff"}
Places == {"out", "test", "cas"} \cup Critical

ShortMin == -MaxShort - 1

\* Conversion of an int one off the range back to a short.
Short(n) == IF n > MaxShort THEN n - 2 * (MaxShort + 1)
            ELSE IF n < ShortMin THEN n + 2 * (MaxShort + 1)
            ELSE n

-----------------------------------------------------------------------------
\* lock_obj_init: memset to zero.
Init ==
  /\ mtx = 0
  /\ readers = 0
  /\ write_pending = FALSE
  /\ writing = FALSE
  /\ op = [t \in Threads |-> "none"]
  /\ at = [t \in Threads |-> "out"]
  /\ reg = [t \in Threads |-> 0]
  /\ holds = [t \in Threads |-> 0]
  /\ writer = {}

Goto(t, place) == at' = [at EXCEPT ![t] = place]

Call(t, f) ==
  /\ op[t] = "none"
  /\ op' = [op EXCEPT ![t] = f]
  /\ Goto(t, "test")
  /\ UNCHANGED <<fields, reg, held>>

(***************************************************************************)
(* The callers.  A thread that holds the write lock takes no other lock    *)
(* (the header says a recursive write lock deadlocks, and a read lock      *)
(* inside a write lock waits on its own mark), one that holds a read lock  *)
(* asks for no write lock, and a thread releases only what it holds.       *)
(***************************************************************************)
CallReadLock(t) ==
  /\ t \in Readers
  /\ t \notin writer
  /\ holds[t] < MaxDepth
  /\ Call(t, "read_lock")

CallReadUnlock(t) ==
  /\ holds[t] > 0
  /\ Call(t, "read_unlock")

CallWriteLock(t) ==
  /\ t \in Writers
  /\ t \notin writer
  /\ holds[t] = 0
  /\ Call(t, "write_lock")

CallWriteUnlock(t) ==
  /\ t \in writer
  /\ Call(t, "write_unlock")

-----------------------------------------------------------------------------
(***************************************************************************)
(* ttas(&lck->mtx, 0, 1): a plain read, then the compare-and-swap, which   *)
(* loses if another thread took mtx in between.                            *)
(***************************************************************************)
Test(t) ==
  /\ at[t] = "test"
  /\ mtx = 0
  /\ Goto(t, "cas")
  /\ UNCHANGED <<fields, op, reg, held>>

\* The first place of each function once it owns mtx.
Entry(f) == CASE f = "read_lock"    -> "check"
              [] f = "read_unlock"  -> "load"
              [] f = "write_lock"   -> "mark"
              [] f = "write_unlock" -> "store"

\* Mutants: a fetch-and-add, and an exchange, in place of the compare.
CasAdds(t) ==
  /\ at[t] = "cas"
  /\ mtx' = mtx + 1
  /\ Goto(t, Entry(op[t]))
  /\ UNCHANGED <<readers, write_pending, writing, op, reg, held>>

CasExchanges(t) ==
  /\ at[t] = "cas"
  /\ mtx' = 1
  /\ Goto(t, Entry(op[t]))
  /\ UNCHANGED <<readers, write_pending, writing, op, reg, held>>

CasWin(t) ==
  /\ at[t] = "cas"
  /\ mtx = 0
  /\ mtx' = 1
  /\ Goto(t, Entry(op[t]))
  /\ UNCHANGED <<readers, write_pending, writing, op, reg, held>>

CasLose(t) ==
  /\ at[t] = "cas"
  /\ mtx # 0
  /\ Goto(t, "test")
  /\ UNCHANGED <<fields, op, reg, held>>

-----------------------------------------------------------------------------
\* Mutant: the reader tests the flag in place of the mark.
ReadLockTestsWriting(t) ==
  /\ op[t] = "read_lock"
  /\ at[t] = "check"
  /\ Goto(t, IF writing THEN "backoff" ELSE "load")
  /\ UNCHANGED <<fields, op, reg, held>>

\* _read_lock: a reader stays out while a writer waits or writes.
ReadLockCheck(t) ==
  /\ op[t] = "read_lock"
  /\ at[t] = "check"
  /\ Goto(t, IF write_pending THEN "backoff" ELSE "load")
  /\ UNCHANGED <<fields, op, reg, held>>

\* The load half of readers++ and of --readers.
ReadersLoad(t) ==
  /\ op[t] \in {"read_lock", "read_unlock"}
  /\ at[t] = "load"
  /\ reg' = [reg EXCEPT ![t] = readers]
  /\ Goto(t, "store")
  /\ UNCHANGED <<fields, op, held>>

ReadLockStore(t) ==
  /\ op[t] = "read_lock"
  /\ at[t] = "store"
  /\ readers' = Short(reg[t] + 1)
  /\ holds' = [holds EXCEPT ![t] = @ + 1]
  /\ Goto(t, "clear")
  /\ UNCHANGED <<mtx, write_pending, writing, op, reg, writer>>

\* release_read_lock: the count is decremented, and a negative one is cut.
ReadUnlockStore(t) ==
  /\ op[t] = "read_unlock"
  /\ at[t] = "store"
  /\ readers' = IF Short(reg[t] - 1) < 0 THEN 0 ELSE Short(reg[t] - 1)
  /\ holds' = [holds EXCEPT ![t] = @ - 1]
  /\ Goto(t, "clear")
  /\ UNCHANGED <<mtx, write_pending, writing, op, reg, writer>>

\* Mutant: the mark is set only when there are readers to hold back.
MarkIfReaders(t) ==
  /\ op[t] = "write_lock"
  /\ at[t] = "mark"
  /\ write_pending' = (readers > 0)
  /\ Goto(t, "check")
  /\ UNCHANGED <<mtx, readers, writing, op, reg, held>>

\* _write_lock: the mark is set on every attempt, before the test.
WriteLockMark(t) ==
  /\ op[t] = "write_lock"
  /\ at[t] = "mark"
  /\ write_pending' = TRUE
  /\ Goto(t, "check")
  /\ UNCHANGED <<mtx, readers, writing, op, reg, held>>

\* Mutant: the writer looks at the readers only.
WriteLockForgetsWriter(t) ==
  /\ op[t] = "write_lock"
  /\ at[t] = "check"
  /\ Goto(t, IF readers <= 0 THEN "store" ELSE "backoff")
  /\ UNCHANGED <<fields, op, reg, held>>

WriteLockCheck(t) ==
  /\ op[t] = "write_lock"
  /\ at[t] = "check"
  /\ Goto(t, IF readers <= 0 /\ ~writing THEN "store" ELSE "backoff")
  /\ UNCHANGED <<fields, op, reg, held>>

WriteLockStore(t) ==
  /\ op[t] = "write_lock"
  /\ at[t] = "store"
  /\ writing' = TRUE
  /\ writer' = writer \cup {t}
  /\ Goto(t, "clear")
  /\ UNCHANGED <<mtx, readers, write_pending, op, reg, holds>>

\* Mutant: the release leaves the mark behind.
WriteUnlockKeepsMark(t) ==
  /\ op[t] = "write_unlock"
  /\ at[t] = "store"
  /\ writing' = FALSE
  /\ writer' = writer \ {t}
  /\ Goto(t, "clear")
  /\ UNCHANGED <<mtx, readers, write_pending, op, reg, holds>>

\* release_write_lock drops the mark too, even one set by a waiting writer.
WriteUnlockStore(t) ==
  /\ op[t] = "write_unlock"
  /\ at[t] = "store"
  /\ writing' = FALSE
  /\ write_pending' = FALSE
  /\ writer' = writer \ {t}
  /\ Goto(t, "clear")
  /\ UNCHANGED <<mtx, readers, op, reg, holds>>

\* lck->mtx = 0 and return.
Clear(t) ==
  /\ at[t] = "clear"
  /\ mtx' = 0
  /\ op' = [op EXCEPT ![t] = "none"]
  /\ Goto(t, "out")
  /\ UNCHANGED <<readers, write_pending, writing, reg, held>>

\* Mutant: the failed attempt returns to the loop with mtx still taken.
BackoffKeepsMtx(t) ==
  /\ at[t] = "backoff"
  /\ Goto(t, "test")
  /\ UNCHANGED <<fields, op, reg, held>>

\* lck->mtx = 0, holdoff, and try again.
Backoff(t) ==
  /\ at[t] = "backoff"
  /\ mtx' = 0
  /\ Goto(t, "test")
  /\ UNCHANGED <<readers, write_pending, writing, op, reg, held>>

(***************************************************************************)
(* lock_obj_destroy: memset to zero by the thread that is tearing the      *)
(* embedding object down, which holds the write lock and is its last user  *)
(* (the caller's obligation).  lock_obj_init on the same memory writes the *)
(* same zeros.                                                             *)
(***************************************************************************)
Destroy(t) ==
  /\ t \in writer
  /\ \A u \in Threads : op[u] = "none" /\ holds[u] = 0
  /\ mtx' = 0
  /\ readers' = 0
  /\ write_pending' = FALSE
  /\ writing' = FALSE
  /\ writer' = writer \ {t}
  /\ UNCHANGED <<op, at, reg, holds>>

\* The steps of a thread inside one of the four functions.
Spin(t) == Test(t) \/ CasWin(t) \/ CasLose(t)
Section(t) ==
  \/ ReadLockCheck(t) \/ ReadersLoad(t) \/ ReadLockStore(t)
  \/ ReadUnlockStore(t)
  \/ WriteLockMark(t) \/ WriteLockCheck(t) \/ WriteLockStore(t)
  \/ WriteUnlockStore(t)
  \/ Clear(t) \/ Backoff(t)

Next == \E t \in Threads :
  \/ CallReadLock(t) \/ CallReadUnlock(t)
  \/ CallWriteLock(t) \/ CallWriteUnlock(t)
  \/ Spin(t)
  \/ Section(t)
  \/ Destroy(t)

Spec == Init /\ [][Next]_vars

(***************************************************************************)
(* Fairness.  A thread that owns mtx keeps running (WF), and a caller      *)
(* gives back what it took (WF on the two unlock calls).  The test and the *)
(* compare-and-swap find mtx free only now and then: strong fairness says  *)
(* that the scheduler, which sched_yield() hands control to, does not time *)
(* a thread against the others forever.  No call of a lock is assumed.     *)
(***************************************************************************)
Fairness == \A t \in Threads :
  /\ SF_vars(Test(t))
  /\ SF_vars(CasWin(t))
  /\ WF_vars(CasLose(t))
  /\ WF_vars(Section(t))
  /\ WF_vars(CallReadUnlock(t))
  /\ WF_vars(CallWriteUnlock(t))

FairSpec == Spec /\ Fairness

-----------------------------------------------------------------------------
\* The types of the fields and of the threads' places.  The count is a
\* short (lock_object.h:77); release_read_lock keeps it from going negative.
TypeOK ==
  /\ mtx \in {0, 1}
  /\ readers \in ShortMin..MaxShort
  /\ write_pending \in BOOLEAN
  /\ writing \in BOOLEAN
  /\ op \in [Threads -> Ops \cup {"none"}]
  /\ at \in [Threads -> Places]
  /\ reg \in [Threads -> ShortMin..MaxShort]
  /\ holds \in [Threads -> 0..MaxDepth]
  /\ writer \in SUBSET Threads

Owns(t) == at[t] \in Critical

\* ttas admits one thread at a time to the fields, and mtx says whether one
\* is there: a thread that stores 0 into mtx never frees another's section.
MtxExclusion ==
  /\ \A t, u \in Threads : Owns(t) /\ Owns(u) => t = u
  /\ mtx = 1 <=> \E t \in Threads : Owns(t)

\* The read locks there can be, and those granted and not yet given back.
Slots == Readers \X (1..MaxDepth)
Grants == {p \in Slots : p[2] <= holds[p[1]]}

\* The number of read locks fits the C type that counts them.
ReadersFit == Cardinality(Slots) <= MaxShort

\* readers counts the read locks exactly: no increment or decrement is lost
\* between its load and its store, and the cut at zero never hides one.
ReadersExact == readers = Cardinality(Grants)

\* lock_object.h:43, "Only one active writer at a time", and no reader
\* beside it: from the store of writing to the store that clears it.
WriterExclusion ==
  /\ \A t, u \in writer : t = u
  /\ writer # {} => \A t \in Threads : holds[t] = 0

\* The reader's path tests write_pending alone and never writing: that is
\* enough because a writer's mark stands for as long as it writes, though
\* another writer may set and the releasing one clear the same mark.
MarkCoversWriter == writer # {} => writing /\ write_pending

\* No read lock is granted in a step that finds a writer's mark set.
NoReaderPassesMark ==
  [][(\E t \in Threads : holds'[t] > holds[t]) => ~write_pending]_vars

\* Whom a waiting writer may have to wait for without end: another writer
\* (the lock keeps no order among them), or a reader that asks for a nested
\* read lock (RecursiveReadGranted says what becomes of those two).
Rival(t) ==
  \E u \in Threads \ {t} :
    \/ u \in writer \/ op[u] = "write_lock"
    \/ op[u] = "read_lock" /\ holds[u] > 0 /\ at[u] # "clear"

\* lock_object.h:46, "read locks will not starve out a write lock": a
\* writer that calls gets the lock, when it competes with readers only.
WriterNotStarved ==
  \A t \in Writers : op[t] = "write_lock" ~> t \in writer \/ Rival(t)

\* lock_object.h:42, "read locks are recursive": a thread that asks for a
\* read lock while it holds one is given it.
RecursiveReadGranted ==
  \A t \in Readers :
    op[t] = "read_lock" /\ holds[t] > 0 ~> op[t] = "none"

\* The lock implements the abstract read/write lock.
Abstract == INSTANCE RWLock WITH barred <- write_pending
ImplementsRWLock == Abstract!AbsSpec
=============================================================================
