-------------------------- MODULE LockObjectProofs --------------------------
(***************************************************************************)
(* For every set of threads, nesting depth and width of short: the lock    *)
(* excludes, counts its readers exactly and implements RWLock, provided    *)
(* the read locks there can be fit the count (ReadersFit).                 *)
(***************************************************************************)
EXTENDS LockObject, FiniteSetTheorems, TLAPS

\* Which function a thread can be in at each place of the spin loops.
PlaceOf ==
  \A t \in Threads :
    /\ at[t] = "out" <=> op[t] = "none"
    /\ at[t] = "load" => op[t] \in {"read_lock", "read_unlock"}
    /\ at[t] \in {"check", "backoff"} => op[t] \in {"read_lock", "write_lock"}
    /\ at[t] = "mark" => op[t] = "write_lock"

\* What the caller held when it called still holds until the store.
CallerHolds ==
  \A t \in Threads :
    /\ holds[t] > 0 => t \in Readers
    /\ at[t] # "clear" =>
         /\ op[t] = "read_lock" =>
              t \in Readers /\ t \notin writer /\ holds[t] < MaxDepth
         /\ op[t] = "read_unlock" => holds[t] > 0
         /\ op[t] = "write_lock" => t \notin writer /\ holds[t] = 0
         /\ op[t] = "write_unlock" => t \in writer

\* What a thread has read of the fields is still true when it stores.
SectionFresh ==
  \A t \in Threads :
    /\ at[t] = "store" /\ op[t] \in {"read_lock", "read_unlock"} =>
         reg[t] = readers
    /\ at[t] \in {"load", "store"} /\ op[t] = "read_lock" => ~write_pending
    /\ at[t] \in {"check", "store"} /\ op[t] = "write_lock" => write_pending
    /\ at[t] = "store" /\ op[t] = "write_lock" => readers = 0 /\ ~writing

\* The writing flag is set exactly while a thread writes.
WritingExact == writing <=> writer # {}

\* The inductive invariant.
IInv ==
  /\ TypeOK
  /\ MtxExclusion
  /\ PlaceOf
  /\ CallerHolds
  /\ SectionFresh
  /\ WritingExact
  /\ MarkCoversWriter
  /\ ReadersExact
  /\ WriterExclusion
-----------------------------------------------------------------------------
(***************************************************************************)
(* Facts about the count of read locks.                                    *)
(***************************************************************************)

\* A short that is stepped by one stays a short (lock_object.c:80, 103).
LEMMA ShortRange ==
  \A n \in ShortMin..MaxShort :
    /\ Short(n + 1) \in ShortMin..MaxShort
    /\ Short(n - 1) \in ShortMin..MaxShort
BY ShortPositive DEF Short, ShortMin

\* Within its range a short is the integer.
LEMMA ShortIsInt ==
  \A n \in 0..MaxShort : Short(n) = n
BY ShortPositive DEF Short, ShortMin

\* The read locks there can be form a finite set, and so do those granted.
LEMMA GrantsFinite ==
  /\ IsFiniteSet(Slots)
  /\ IsFiniteSet(Grants)
  /\ Cardinality(Grants) \in Nat
  /\ Cardinality(Slots) \in Nat
  /\ Cardinality(Grants) <= Cardinality(Slots)
<1>1. IsFiniteSet(1..MaxDepth)
  BY FS_Interval, DepthPositive
<1>2. IsFiniteSet(Slots)
  BY <1>1, FS_Product, ThreadsFinite DEF Slots
<1>3. Grants \subseteq Slots
  BY DEF Grants
<1>4. QED
  BY <1>2, <1>3, FS_Subset, FS_CardinalityType

\* Granting a read lock to a thread adds one element to Grants.
LEMMA GrantAdds ==
  ASSUME TypeOK, NEW t \in Readers, holds[t] < MaxDepth,
         holds' = [holds EXCEPT ![t] = @ + 1]
  PROVE  Cardinality(Grants') = Cardinality(Grants) + 1
<1> DEFINE new == <<t, holds[t] + 1>>
<1>1. holds \in [Threads -> 0..MaxDepth] /\ t \in Threads
  BY DEF TypeOK, Threads
<1>2. new \in Slots /\ new \notin Grants
  BY <1>1, DepthPositive DEF Slots, Grants
<1>3. ASSUME NEW p \in Slots
      PROVE  p[2] <= holds'[p[1]] <=> p[2] <= holds[p[1]] \/ p = new
  <2>1. p[1] \in Threads /\ p[2] \in 1..MaxDepth /\ p = <<p[1], p[2]>>
    BY DEF Slots, Threads
  <2>2. CASE p[1] = t
    BY <1>1, <2>1, <2>2, DepthPositive
  <2>3. CASE p[1] # t
    BY <1>1, <2>1, <2>3
  <2>4. QED
    BY <2>2, <2>3
<1>4. Grants' = Grants \cup {new}
  BY <1>2, <1>3 DEF Grants, Slots
<1>5. QED
  BY <1>2, <1>4, GrantsFinite, FS_AddElement

\* Giving a read lock back removes one.
LEMMA DropRemoves ==
  ASSUME TypeOK, NEW t \in Readers, holds[t] > 0,
         holds' = [holds EXCEPT ![t] = @ - 1]
  PROVE  /\ Cardinality(Grants') = Cardinality(Grants) - 1
         /\ Cardinality(Grants) > 0
<1> DEFINE old == <<t, holds[t]>>
<1>1. holds \in [Threads -> 0..MaxDepth] /\ t \in Threads
  BY DEF TypeOK, Threads
<1>2. old \in Grants
  BY <1>1, DepthPositive DEF Slots, Grants
<1>3. ASSUME NEW p \in Slots
      PROVE  p[2] <= holds'[p[1]] <=> p[2] <= holds[p[1]] /\ p # old
  <2>1. p[1] \in Threads /\ p[2] \in 1..MaxDepth /\ p = <<p[1], p[2]>>
    BY DEF Slots, Threads
  <2>2. CASE p[1] = t
    BY <1>1, <2>1, <2>2, DepthPositive
  <2>3. CASE p[1] # t
    BY <1>1, <2>1, <2>3
  <2>4. QED
    BY <2>2, <2>3
<1>4. Grants' = Grants \ {old}
  BY <1>3 DEF Grants, Slots
<1>5. Cardinality(Grants) # 0
  BY <1>2, GrantsFinite, FS_EmptySet
<1>6. Cardinality(Grants \ {old}) = Cardinality(Grants) - 1
  BY <1>2, GrantsFinite, FS_RemoveElement
<1>7. QED
  BY <1>4, <1>5, <1>6, GrantsFinite

\* A count of zero means that no thread holds a read lock.
LEMMA ZeroMeansNone ==
  ASSUME TypeOK, CallerHolds, Cardinality(Grants) = 0
  PROVE  \A t \in Threads : holds[t] = 0
<1>1. Grants = {}
  BY GrantsFinite, FS_EmptySet
<1>2. SUFFICES ASSUME NEW t \in Threads, holds[t] # 0
               PROVE  FALSE
  OBVIOUS
<1>3. holds[t] \in 1..MaxDepth /\ t \in Readers
  BY <1>2, DepthPositive DEF TypeOK, CallerHolds
<1>4. <<t, holds[t]>> \in Grants
  BY <1>3 DEF Grants, Slots
<1>5. QED
  BY <1>1, <1>4
-----------------------------------------------------------------------------
(***************************************************************************)
(* The invariant is inductive.  A step of a thread that owns mtx disturbs  *)
(* what the others know of the fields only if two threads own it at once.  *)
(***************************************************************************)

LEMMA InitInv == Init => IInv
<1> SUFFICES ASSUME Init PROVE IInv
  OBVIOUS
<1>1. Grants = {}
  BY DEF Init, Grants, Slots, Threads
<1>2. ReadersExact
  BY <1>1, FS_EmptySet DEF Init, ReadersExact
<1>3. TypeOK
  <2>1. 0 \in ShortMin..MaxShort /\ 0 \in 0..MaxDepth
    BY DepthPositive, ShortPositive DEF ShortMin
  <2>2. QED
    BY <2>1 DEF Init, TypeOK, Places
<1>4. QED
  BY <1>2, <1>3 DEF Init, IInv, MtxExclusion, Owns, PlaceOf, CallerHolds,
    SectionFresh, WritingExact, MarkCoversWriter, WriterExclusion, Critical

\* A step that leaves the read locks and the count alone keeps the count.
LEMMA CountKept ==
  ASSUME ReadersExact, UNCHANGED <<readers, holds>>
  PROVE  ReadersExact'
BY DEF ReadersExact, Grants, Slots

\* The calls, the spin on mtx and the stores that free it.
LEMMA SpinInv ==
  ASSUME IInv, NEW t \in Threads,
         \/ CallReadLock(t) \/ CallReadUnlock(t)
         \/ CallWriteLock(t) \/ CallWriteUnlock(t)
         \/ Spin(t) \/ Clear(t) \/ Backoff(t)
  PROVE  IInv'
<1> USE DEF IInv
<1>1. ReadersExact'
  BY CountKept DEF CallReadLock, CallReadUnlock, CallWriteLock,
    CallWriteUnlock, Call, Spin, Test, CasWin, CasLose, Clear, Backoff,
    fields, held
<1> USE DEF TypeOK, MtxExclusion, PlaceOf, CallerHolds, SectionFresh,
      WritingExact, MarkCoversWriter, WriterExclusion, Owns, Goto, fields, held,
      Ops, Places, Critical
<1>2. CASE CallReadLock(t)
  BY <1>1, <1>2 DEF CallReadLock, Call
<1>3. CASE CallReadUnlock(t)
  BY <1>1, <1>3 DEF CallReadUnlock, Call
<1>4. CASE CallWriteLock(t)
  BY <1>1, <1>4 DEF CallWriteLock, Call
<1>5. CASE CallWriteUnlock(t)
  BY <1>1, <1>5 DEF CallWriteUnlock, Call
<1>6. CASE Test(t)
  BY <1>1, <1>6 DEF Test
<1>7. CASE CasWin(t)
  BY <1>1, <1>7 DEF CasWin, Entry
<1>8. CASE CasLose(t)
  BY <1>1, <1>8 DEF CasLose
<1>9. CASE Clear(t)
  BY <1>1, <1>9 DEF Clear
<1>10. CASE Backoff(t)
  BY <1>1, <1>10 DEF Backoff
<1>11. QED
  BY <1>2, <1>3, <1>4, <1>5, <1>6, <1>7, <1>8, <1>9, <1>10 DEF Spin

\* Branches and loads: they read the fields that the thread owns.
LEMMA ReadInv ==
  ASSUME IInv, NEW t \in Threads,
         ReadLockCheck(t) \/ ReadersLoad(t) \/ WriteLockCheck(t)
  PROVE  IInv'
<1> USE DEF IInv
<1>1. ReadersExact'
  BY CountKept DEF ReadLockCheck, ReadersLoad, WriteLockCheck, fields, held
<1>2. readers \in 0..MaxShort
  BY GrantsFinite DEF TypeOK, ReadersExact
<1> USE DEF TypeOK, MtxExclusion, PlaceOf, CallerHolds, SectionFresh,
      WritingExact, MarkCoversWriter, WriterExclusion, Owns, Goto, fields, held,
      Ops, Places, Critical
<1>3. CASE ReadLockCheck(t)
  BY <1>1, <1>3 DEF ReadLockCheck
<1>4. CASE ReadersLoad(t)
  BY <1>1, <1>4 DEF ReadersLoad
<1>5. CASE WriteLockCheck(t)
  BY <1>1, <1>2, <1>5 DEF WriteLockCheck
<1>6. QED
  BY <1>3, <1>4, <1>5

\* A read lock is counted: its thread passed the mark, so no one writes.
LEMMA ReadLockStoreInv ==
  ASSUME ReadersFit, IInv, NEW t \in Threads, ReadLockStore(t)
  PROVE  IInv'
<1> USE DEF IInv
<1>1. t \in Readers /\ holds[t] < MaxDepth /\ reg[t] = readers
  BY DEF ReadLockStore, CallerHolds, SectionFresh
<1>2. Cardinality(Grants') = Cardinality(Grants) + 1
  BY <1>1, GrantAdds DEF ReadLockStore
<1>3. Cardinality(Grants') <= Cardinality(Slots)
  <2>1. Grants' \subseteq Slots
    BY DEF Grants, Slots
  <2>2. QED
    BY <2>1, GrantsFinite, FS_Subset
<1>4. readers' = readers + 1 /\ readers' \in 0..MaxShort
  <2>1. readers + 1 \in 0..MaxShort
    BY <1>2, <1>3, GrantsFinite, ShortPositive DEF ReadersExact, ReadersFit
  <2>2. QED
    BY <1>1, <2>1, ShortIsInt DEF ReadLockStore
<1>5. ReadersExact'
  BY <1>2, <1>4 DEF ReadersExact
<1>6. writer = {}
  BY DEF ReadLockStore, SectionFresh, MarkCoversWriter
<1>7. TypeOK'
  BY <1>1, <1>4, DepthPositive, ShortPositive
    DEF TypeOK, ReadLockStore, Goto, Places, Critical, ShortMin
<1>8. QED
  BY <1>1, <1>5, <1>6, <1>7 DEF TypeOK, MtxExclusion, PlaceOf, CallerHolds,
    SectionFresh, WritingExact, MarkCoversWriter, WriterExclusion, Owns, Goto,
    ReadLockStore, Critical

\* A read lock is given back: the count was positive, the cut is not taken.
LEMMA ReadUnlockStoreInv ==
  ASSUME IInv, NEW t \in Threads, ReadUnlockStore(t)
  PROVE  IInv'
<1> USE DEF IInv
<1>1. t \in Readers /\ holds[t] > 0 /\ reg[t] = readers
  BY DEF ReadUnlockStore, CallerHolds, SectionFresh
<1>2. /\ Cardinality(Grants') = Cardinality(Grants) - 1
      /\ Cardinality(Grants) > 0
  BY <1>1, DropRemoves DEF ReadUnlockStore
<1>3. readers' = readers - 1 /\ readers' \in 0..MaxShort
  <2>1. readers - 1 \in 0..MaxShort
    BY <1>2, GrantsFinite, ShortPositive DEF ReadersExact, TypeOK
  <2>2. QED
    BY <1>1, <2>1, ShortIsInt DEF ReadUnlockStore
<1>4. ReadersExact'
  BY <1>2, <1>3 DEF ReadersExact
<1>5. TypeOK'
  BY <1>1, <1>3, DepthPositive, ShortPositive
    DEF TypeOK, ReadUnlockStore, Goto, Places, Critical, ShortMin
<1>6. QED
  BY <1>1, <1>4, <1>5 DEF TypeOK, MtxExclusion, PlaceOf, CallerHolds,
    SectionFresh, WritingExact, MarkCoversWriter, WriterExclusion, Owns, Goto,
    ReadUnlockStore, Critical

\* A write lock is granted: the count is zero, so no thread reads.
LEMMA WriterInv ==
  ASSUME IInv, NEW t \in Threads,
         WriteLockMark(t) \/ WriteLockStore(t) \/ WriteUnlockStore(t)
  PROVE  IInv'
<1> USE DEF IInv
<1>1. ReadersExact'
  BY CountKept DEF WriteLockMark, WriteLockStore, WriteUnlockStore, held
<1>2. WriteLockStore(t) => \A u \in Threads : holds[u] = 0
  BY ZeroMeansNone DEF WriteLockStore, SectionFresh, ReadersExact
<1> USE DEF TypeOK, MtxExclusion, PlaceOf, CallerHolds, SectionFresh,
      WritingExact, MarkCoversWriter, WriterExclusion, Owns, Goto, fields, held,
      Ops, Places, Critical
<1>3. CASE WriteLockMark(t)
  BY <1>1, <1>3 DEF WriteLockMark
<1>4. CASE WriteLockStore(t)
  BY <1>1, <1>2, <1>4 DEF WriteLockStore
<1>5. CASE WriteUnlockStore(t)
  <2>1. writer = {t} /\ writer' = {}
    BY <1>5 DEF WriteUnlockStore
  <2>2. CallerHolds'
    BY <1>5, <2>1 DEF WriteUnlockStore
  <2>3. SectionFresh'
    BY <1>5 DEF WriteUnlockStore
  <2>4. TypeOK'
    BY <1>5, <2>1 DEF WriteUnlockStore
  <2>5. MtxExclusion'
    <3>1. mtx' = 1 /\ Owns(t)' /\ \A u \in Threads : Owns(u)' => u = t
      BY <1>5 DEF WriteUnlockStore
    <3>2. QED
      BY <3>1
  <2>6. PlaceOf'
    BY <1>5 DEF WriteUnlockStore
  <2>7. WritingExact' /\ MarkCoversWriter' /\ WriterExclusion'
    BY <1>5, <2>1 DEF WriteUnlockStore
  <2>8. QED
    BY <1>1, <2>2, <2>3, <2>4, <2>5, <2>6, <2>7
<1>6. QED
  BY <1>3, <1>4, <1>5

\* The last user wipes the lock: no read lock was out, so zero is exact.
LEMMA DestroyInv ==
  ASSUME IInv, NEW t \in Threads, Destroy(t)
  PROVE  IInv'
<1> USE DEF IInv
<1>1. Grants' = {}
  BY DEF Destroy, Grants, Slots, Threads
<1>2. ReadersExact'
  BY <1>1, FS_EmptySet DEF Destroy, ReadersExact
<1>3. 0 \in ShortMin..MaxShort
  BY ShortPositive DEF ShortMin
<1>4. writer' = {}
  BY DEF Destroy, WriterExclusion, TypeOK
<1>5. QED
  BY <1>2, <1>3, <1>4 DEF Destroy, TypeOK, MtxExclusion, PlaceOf, CallerHolds,
    SectionFresh, WritingExact, MarkCoversWriter, WriterExclusion, Owns,
    Critical

LEMMA StepInv == ASSUME ReadersFit PROVE IInv /\ [Next]_vars => IInv'
<1> SUFFICES ASSUME IInv, [Next]_vars PROVE IInv'
  OBVIOUS
<1>1. CASE Next
  <2>1. PICK t \in Threads :
           \/ CallReadLock(t) \/ CallReadUnlock(t)
           \/ CallWriteLock(t) \/ CallWriteUnlock(t)
           \/ Spin(t) \/ Section(t) \/ Destroy(t)
    BY <1>1 DEF Next
  <2>2. CASE Section(t)
    BY <2>2, SpinInv, ReadInv, ReadLockStoreInv, ReadUnlockStoreInv, WriterInv
      DEF Section
  <2>3. CASE Destroy(t)
    BY <2>3, DestroyInv
  <2>4. QED
    BY <2>1, <2>2, <2>3, SpinInv
<1>2. CASE UNCHANGED vars
  <2>1. ReadersExact'
    BY <1>2, CountKept DEF IInv, vars
  <2>2. QED
    BY <1>2, <2>1 DEF vars, IInv, TypeOK, MtxExclusion, PlaceOf, CallerHolds,
      SectionFresh, WritingExact, MarkCoversWriter, WriterExclusion, Owns
<1>3. QED
  BY <1>1, <1>2

\* The inductive invariant holds in every reachable state.
THEOREM Invariance == ASSUME ReadersFit PROVE Spec => []IInv
BY InitInv, StepInv, PTL DEF Spec

-----------------------------------------------------------------------------
(***************************************************************************)
(* The safety properties of LockObject, for every value of its constants.  *)
(***************************************************************************)

\* Every field of lock_obj_t and every place of a thread keeps its type.
THEOREM TypeCorrect == ASSUME ReadersFit PROVE Spec => []TypeOK
<1>1. IInv => TypeOK
  BY DEF IInv
<1>2. QED
  BY <1>1, Invariance, PTL

\* ttas admits one thread at a time to the fields of the lock.
THEOREM FieldsGuarded == ASSUME ReadersFit PROVE Spec => []MtxExclusion
<1>1. IInv => MtxExclusion
  BY DEF IInv
<1>2. QED
  BY <1>1, Invariance, PTL

\* No readers++ or --readers is lost, whatever threads interleave.
THEOREM CountExact == ASSUME ReadersFit PROVE Spec => []ReadersExact
<1>1. IInv => ReadersExact
  BY DEF IInv
<1>2. QED
  BY <1>1, Invariance, PTL

\* One writer at most, and no reader beside it (lock_object.h:43).
THEOREM OneWriterAlone == ASSUME ReadersFit PROVE Spec => []WriterExclusion
<1>1. IInv => WriterExclusion
  BY DEF IInv
<1>2. QED
  BY <1>1, Invariance, PTL

\* The mark that keeps readers out stands for as long as a writer writes.
THEOREM MarkStands == ASSUME ReadersFit PROVE Spec => []MarkCoversWriter
<1>1. IInv => MarkCoversWriter
  BY DEF IInv
<1>2. QED
  BY <1>1, Invariance, PTL

-----------------------------------------------------------------------------
(***************************************************************************)
(* Refinement: each step maps to a step of RWLock or to a stutter.         *)
(***************************************************************************)

LEMMA InitImplements == Init => Abstract!AbsInit
BY DEF Init, Abstract!AbsInit

LEMMA StepImplements ==
  IInv /\ [Next]_vars => [Abstract!AbsNext]_(Abstract!absvars)
<1> SUFFICES ASSUME IInv, [Next]_vars
             PROVE  Abstract!AbsNext \/ UNCHANGED Abstract!absvars
  OBVIOUS
<1> USE DEF Abstract!absvars, held, fields
<1>1. CASE UNCHANGED vars
  BY <1>1 DEF vars
<1>2. ASSUME NEW t \in Threads, ReadLockStore(t)
      PROVE  Abstract!GrantRead(t)
  BY <1>2 DEF IInv, ReadLockStore, SectionFresh, MarkCoversWriter,
    Abstract!GrantRead
<1>3. ASSUME NEW t \in Threads, ReadUnlockStore(t)
      PROVE  Abstract!DropRead(t)
  BY <1>3 DEF IInv, ReadUnlockStore, CallerHolds, Abstract!DropRead
<1>4. ASSUME NEW t \in Threads, WriteLockMark(t)
      PROVE  Abstract!Bar
  BY <1>4 DEF WriteLockMark, Abstract!Bar
<1>5. ASSUME NEW t \in Threads, WriteLockStore(t)
      PROVE  Abstract!GrantWrite(t)
  <2>1. write_pending /\ writer = {}
    BY <1>5 DEF IInv, WriteLockStore, SectionFresh, WritingExact
  <2>2. \A u \in Threads : holds[u] = 0
    BY <1>5, ZeroMeansNone DEF IInv, WriteLockStore, SectionFresh, ReadersExact
  <2>3. QED
    BY <1>5, <2>1, <2>2
      DEF WriteLockStore, Abstract!GrantWrite, Abstract!NoReaders
<1>6. ASSUME NEW t \in Threads, WriteUnlockStore(t) \/ Destroy(t)
      PROVE  Abstract!DropWrite(t)
  <2>1. t \in writer
    BY <1>6 DEF IInv, WriteUnlockStore, Destroy, CallerHolds
  <2>2. writer = {t}
    BY <2>1 DEF IInv, WriterExclusion, TypeOK
  <2>3. QED
    BY <1>6, <2>2 DEF WriteUnlockStore, Destroy, Abstract!DropWrite
<1>7. ASSUME NEW t \in Threads,
             \/ CallReadLock(t) \/ CallReadUnlock(t)
             \/ CallWriteLock(t) \/ CallWriteUnlock(t)
             \/ Spin(t) \/ Clear(t) \/ Backoff(t)
             \/ ReadLockCheck(t) \/ ReadersLoad(t) \/ WriteLockCheck(t)
      PROVE  UNCHANGED Abstract!absvars
  BY <1>7 DEF CallReadLock, CallReadUnlock, CallWriteLock, CallWriteUnlock,
    Call, Spin, Test, CasWin, CasLose, Clear, Backoff, ReadLockCheck,
    ReadersLoad, WriteLockCheck
<1>8. QED
  BY <1>1, <1>2, <1>3, <1>4, <1>5, <1>6, <1>7
    DEF Next, Section, Abstract!AbsNext

\* lock_object.c implements the read/write lock its header describes.
THEOREM Refinement == ASSUME ReadersFit PROVE Spec => ImplementsRWLock
BY Invariance, InitImplements, StepImplements, PTL
  DEF Spec, ImplementsRWLock, Abstract!AbsSpec

\* No read lock is granted in a step that finds a writer's mark set.
THEOREM MarkKeepsReadersOut ==
  ASSUME ReadersFit PROVE Spec => NoReaderPassesMark
<1>1. IInv /\ [Next]_vars =>
        [(\E t \in Threads : holds'[t] > holds[t]) => ~write_pending]_vars
  <2> SUFFICES ASSUME IInv, [Next]_vars,
                      NEW u \in Threads, holds'[u] > holds[u]
               PROVE  ~write_pending
    OBVIOUS
  <2>1. holds \in [Threads -> 0..MaxDepth]
    BY DEF IInv, TypeOK
  <2>2. [Abstract!AbsNext]_(Abstract!absvars)
    BY StepImplements
  <2>3. QED
    BY <2>1, <2>2, DepthPositive DEF Abstract!AbsNext, Abstract!absvars,
      Abstract!GrantRead, Abstract!DropRead, Abstract!Bar,
      Abstract!GrantWrite, Abstract!DropWrite
<1>2. QED
  BY <1>1, Invariance, PTL DEF Spec, NoReaderPassesMark
=============================================================================
