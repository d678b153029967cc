-------------------------- MODULE SharedLockProofs --------------------------
(***************************************************************************)
(* For every set of processes, nesting depth and number of deaths, at any  *)
(* step: readers and writers exclude each other and the counts are those   *)
(* of the locks given and asked for.  No assumption is made about who      *)
(* reads, writes, or passes a thread id that the engine takes for FALSE.   *)
(***************************************************************************)
EXTENDS SharedLock, FiniteSetTheorems, TLAPS

\* Which function a process can be in at each place.
PlaceOf ==
  \A p \in Procs :
    /\ at[p] = "out" <=> op[p] = "none"
    /\ at[p] \in {"test", "count"} => op[p] \in ReadOps
    /\ at[p] \in {"mark", "try", "enter"} => op[p] \in WriteOps
    /\ at[p] \in {"again", "refused"} => op[p] \in ReadOps \cup WriteOps
    /\ at[p] = "drop" => op[p] \in {"read_unlock", "write_unlock"}
    /\ at[p] = "forget" => op[p] = "write_unlock"

\* A living process past the mutex owns it; what the dead left is not theirs.
LivingOwn ==
  \A p \in Procs \ dead : at[p] \in Inside => owner = p

\* What the caller held when it called still holds until the fields change.
CallerHolds ==
  \A p \in Procs :
    /\ reading[p] > 0 => writing[p] = 0
    /\ at[p] # "return" =>
         /\ op[p] \in ReadOps => reading[p] = 0 /\ writing[p] = 0
         /\ op[p] \in WriteOps => reading[p] = 0 /\ writing[p] < MaxNest
         /\ op[p] = "read_unlock" => reading[p] > 0
         /\ op[p] = "write_unlock" /\ at[p] # "forget" => writing[p] > 0

\* What a living process has tested is still true when it changes a field.
TestedHolds ==
  \A p \in Procs \ dead :
    /\ at[p] = "count" => writers = 0
    /\ at[p] = "enter" => readers = 0

\* The inductive invariant.
IInv ==
  /\ WritersCounted
  /\ PlaceOf
  /\ LivingOwn
  /\ CallerHolds
  /\ TestedHolds
  /\ ReadersExcludeWriters

-----------------------------------------------------------------------------
(***************************************************************************)
(* Facts about the counts.                                                 *)
(***************************************************************************)

\* The read locks given, and the write requests, are finite sets.
LEMMA CountsFinite ==
  /\ IsFiniteSet(ReadsGiven) /\ Cardinality(ReadsGiven) \in Nat
  /\ IsFiniteSet(Requests) /\ Cardinality(Requests) \in Nat
<1>1. IsFiniteSet(Procs \X (1..MaxNest))
  <2>1. IsFiniteSet(1..MaxNest)
    BY BoundsNatural, FS_Interval
  <2>2. QED
    BY <2>1, ProcsFinite, FS_Product
<1>2. ReadsGiven \subseteq Procs /\ Requests \subseteq Procs \X (1..MaxNest)
  BY DEF ReadsGiven, Requests
<1>3. QED
  BY <1>1, <1>2, ProcsFinite, FS_Subset, FS_CardinalityType

\* A process has as many write requests as it may nest, at most.
LEMMA RequestedRange ==
  ASSUME TypeOK, CallerHolds, NEW p \in Procs
  PROVE  Requested(p) \in 0..MaxNest
<1>1. writing[p] \in 0..MaxNest
  BY DEF TypeOK
<1>2. Pending(p) => writing[p] < MaxNest
  BY DEF Pending, CallerHolds
<1>3. QED
  BY <1>1, <1>2, BoundsNatural DEF Requested

\* A write request that is counted adds one element to Requests.
LEMMA RequestAdds ==
  ASSUME NEW p \in Procs, Requested(p) \in 0..(MaxNest - 1),
         Requested(p)' = Requested(p) + 1,
         \A q \in Procs \ {p} : Requested(q)' = Requested(q)
  PROVE  Cardinality(Requests') = Cardinality(Requests) + 1
<1> DEFINE new == <<p, Requested(p) + 1>>
<1>1. new \in Procs \X (1..MaxNest) /\ new \notin Requests
  BY BoundsNatural DEF Requests
<1>2. ASSUME NEW r \in Procs \X (1..MaxNest)
      PROVE  r[2] <= Requested(r[1])' <=> r[2] <= Requested(r[1]) \/ r = new
  <2>1. r[1] \in Procs /\ r[2] \in 1..MaxNest /\ r = <<r[1], r[2]>>
    OBVIOUS
  <2>2. CASE r[1] = p
    BY <2>1, <2>2, BoundsNatural
  <2>3. CASE r[1] # p
    BY <2>1, <2>3
  <2>4. QED
    BY <2>2, <2>3
<1>3. Requests' = Requests \cup {new}
  BY <1>1, <1>2 DEF Requests
<1>4. QED
  BY <1>1, <1>3, CountsFinite, FS_AddElement

\* A write lock given back, or a request given up, removes one.
LEMMA RequestRemoves ==
  ASSUME NEW p \in Procs, Requested(p) \in 1..MaxNest,
         Requested(p)' = Requested(p) - 1,
         \A q \in Procs \ {p} : Requested(q)' = Requested(q)
  PROVE  Cardinality(Requests') = Cardinality(Requests) - 1
<1> DEFINE old == <<p, Requested(p)>>
<1>1. old \in Requests
  BY BoundsNatural DEF Requests
<1>2. ASSUME NEW r \in Procs \X (1..MaxNest)
      PROVE  r[2] <= Requested(r[1])' <=> r[2] <= Requested(r[1]) /\ r # old
  <2>1. r[1] \in Procs /\ r[2] \in 1..MaxNest /\ r = <<r[1], r[2]>>
    OBVIOUS
  <2>2. CASE r[1] = p
    BY <2>1, <2>2, BoundsNatural
  <2>3. CASE r[1] # p
    BY <2>1, <2>3
  <2>4. QED
    BY <2>2, <2>3
<1>3. Requests' = Requests \ {old}
  BY <1>2 DEF Requests
<1>4. QED
  BY <1>1, <1>3, CountsFinite, FS_RemoveElement

\* Where no process requests more or less, the set stays.
LEMMA RequestsKept ==
  ASSUME \A q \in Procs : Requested(q)' = Requested(q)
  PROVE  Requests' = Requests
BY DEF Requests

\* A count of writers of zero means that no one writes or waits to.
LEMMA NoRequests ==
  ASSUME WritersCounted, CallerHolds, writers = 0, NEW p \in Procs
  PROVE  ~Pending(p) /\ writing[p] = 0
<1>1. Requests = {}
  BY CountsFinite, FS_EmptySet DEF WritersCounted
<1>2. Requested(p) \in 0..MaxNest
  BY RequestedRange DEF WritersCounted
<1>3. Requested(p) = 0
  <2> SUFFICES ASSUME Requested(p) # 0 PROVE FALSE
    OBVIOUS
  <2>1. <<p, Requested(p)>> \in Requests
    BY <1>2, BoundsNatural DEF Requests
  <2>2. QED
    BY <1>1, <2>1
<1>4. writing[p] \in 0..MaxNest
  BY DEF WritersCounted, TypeOK
<1>5. QED
  BY <1>3, <1>4, BoundsNatural DEF Requested

\* A count of readers of zero means that no one reads.
LEMMA NoReads ==
  ASSUME WritersCounted, readers = 0, NEW p \in Procs
  PROVE  reading[p] = 0
<1>1. ReadsGiven = {}
  BY CountsFinite, FS_EmptySet DEF WritersCounted
<1>2. QED
  BY <1>1 DEF ReadsGiven, WritersCounted, TypeOK

-----------------------------------------------------------------------------
(***************************************************************************)
(* The invariant is inductive.  A death changes nothing but who may move:  *)
(* the fields a dead process leaves count what it was given and asked for. *)
(***************************************************************************)

LEMMA InitInv == Init => IInv
<1> SUFFICES ASSUME Init PROVE IInv
  OBVIOUS
<1>1. ReadsGiven = {} /\ Requests = {}
  BY BoundsNatural
    DEF Init, ReadsGiven, Requests, Requested, Pending, WriteOps
<1>2. TypeOK
  <2>1. 0 \in 0..MaxNest
    BY BoundsNatural
  <2>2. QED
    BY <2>1, ProcsFinite DEF Init, TypeOK, Outside, FALSE_ID
<1>3. WritersCounted
  BY <1>1, <1>2, FS_EmptySet DEF WritersCounted, Init
<1>4. QED
  BY <1>3 DEF IInv, Init, PlaceOf, LivingOwn, CallerHolds, TestedHolds,
    ReadersExcludeWriters, ReadOps, WriteOps, Inside

\* A step that moves one process and leaves its requests, the fields and the
\* locks given alone keeps the counts.
LEMMA CountsKept ==
  ASSUME WritersCounted, TypeOK', UNCHANGED <<readers, writers, granted>>,
         \A q \in Procs : Pending(q)' = Pending(q)
  PROVE  WritersCounted'
<1>1. \A q \in Procs : Requested(q)' = Requested(q)
  BY DEF Requested, granted
<1>2. Requests' = Requests
  BY <1>1, RequestsKept
<1>3. ReadsGiven' = ReadsGiven
  BY DEF ReadsGiven, granted
<1>4. QED
  BY <1>2, <1>3 DEF WritersCounted

\* The calls.
LEMMA CallInv ==
  ASSUME IInv, NEW p \in Procs \ dead,
         \/ \E f \in Ops : CallRead(p, f) \/ CallWrite(p, f)
         \/ CallUnlock(p)
  PROVE  IInv'
<1>1. PICK f \in Ops :
        /\ Call(p, f)
        /\ f \in ReadOps => reading[p] = 0 /\ writing[p] = 0
        /\ f \in WriteOps => reading[p] = 0 /\ writing[p] < MaxNest
        /\ f = "read_unlock" => reading[p] > 0
        /\ f = "write_unlock" => writing[p] > 0
  BY DEF CallRead, CallWrite, CallUnlock, Ops, ReadOps, WriteOps
<1> USE <1>1 DEF IInv, Call, Goto
<1>2. /\ op[p] = "none" /\ at[p] = "out"
      /\ op' = [op EXCEPT ![p] = f] /\ at' = [at EXCEPT ![p] = "mutex"]
  BY DEF PlaceOf
<1>3. TypeOK'
  BY <1>2 DEF WritersCounted, TypeOK, Outside, mutex, fields, granted
<1>4. \A q \in Procs : Pending(q)' = Pending(q)
  BY <1>2 DEF Pending, WritersCounted, TypeOK, WriteOps
<1>5. WritersCounted'
  BY <1>3, <1>4, CountsKept DEF fields
<1>6. QED
  BY <1>2, <1>5 DEF WritersCounted, TypeOK, PlaceOf, LivingOwn, CallerHolds,
    TestedHolds, ReadersExcludeWriters, mutex, fields, granted, Ops, ReadOps,
    WriteOps, Inside

\* The mutex is taken, from no one or again, or left by a dead owner.
LEMMA MutexInv ==
  ASSUME IInv, NEW p \in Procs \ dead, MutexLock(p) \/ OwnerDead(p)
  PROVE  IInv'
<1> USE DEF IInv
<1>1. op[p] \in Ops
  BY DEF MutexLock, OwnerDead, PlaceOf, WritersCounted, TypeOK
<1>2. ASSUME NEW q \in Procs \ dead, at[q] \in Inside
      PROVE  q = p
  BY <1>2, ProcsFinite
    DEF MutexLock, OwnerDead, LivingOwn, WritersCounted, TypeOK, Inside
<1>3. CASE MutexLock(p)
  <2> DEFINE place == IF at[p] = "mutex" THEN Entry(op[p])
                      ELSE IF op[p] \in ReadOps THEN "test" ELSE "try"
  <2>1. /\ at' = [at EXCEPT ![p] = place]
        /\ owner' = p /\ depth' = depth + 1
        /\ UNCHANGED <<fields, op, dead, granted>>
    BY <1>3 DEF MutexLock, Goto
  <2>2. /\ place \in {"test", "mark", "try", "drop"}
        /\ place = "test" => op[p] \in ReadOps
        /\ place = "mark" => op[p] \in WriteOps /\ at[p] = "mutex"
        /\ place = "try" => op[p] \in WriteOps /\ at[p] = "again"
        /\ place = "drop" => op[p] \in {"read_unlock", "write_unlock"}
        /\ at[p] \in {"mutex", "again"}
        /\ at[p] = "again" => op[p] \in ReadOps \cup WriteOps
    BY <1>1, <1>3
      DEF MutexLock, PlaceOf, Entry, Ops, ReadOps, WriteOps
  <2> HIDE DEF place
  <2>3. TypeOK'
    BY <2>1, <2>2, ProcsFinite
      DEF WritersCounted, TypeOK, Inside, fields, granted
  <2>4. \A q \in Procs : Pending(q)' = Pending(q)
    BY <2>1, <2>2 DEF Pending, WritersCounted, TypeOK, ReadOps, WriteOps
  <2>5. WritersCounted'
    BY <2>1, <2>3, <2>4, CountsKept DEF fields
  <2>6. QED
    BY <1>2, <2>1, <2>2, <2>5 DEF WritersCounted, TypeOK, PlaceOf, LivingOwn,
      CallerHolds, TestedHolds, ReadersExcludeWriters, fields, granted, Inside
<1>4. CASE OwnerDead(p)
  <2>1. TypeOK'
    BY <1>4, ProcsFinite DEF OwnerDead, WritersCounted, TypeOK, fields, granted
  <2>2. \A q \in Procs : Pending(q)' = Pending(q)
    BY <1>4 DEF OwnerDead, Pending
  <2>3. WritersCounted'
    BY <1>4, <2>1, <2>2, CountsKept DEF OwnerDead, fields
  <2>4. QED
    BY <1>2, <1>4, <2>3 DEF OwnerDead, PlaceOf, LivingOwn, CallerHolds,
      TestedHolds, ReadersExcludeWriters, fields, granted, Inside
<1>5. QED
  BY <1>3, <1>4

\* A step of the process in the section that moves it on, or out, and leaves
\* the fields, the locks given and the requests as they are.
LEMMA MoveInv ==
  ASSUME IInv, NEW p \in Procs \ dead, at[p] \in Inside,
         ReadTest(p) \/ WriteTry(p) \/ Return(p) \/ Retry(p)
  PROVE  IInv'
<1> USE DEF IInv
<1>1. owner = p /\ depth > 0 /\ \A q \in Procs \ dead : at[q] \in Inside => q = p
  BY ProcsFinite DEF LivingOwn, WritersCounted, TypeOK
<1>2. CASE ReadTest(p)
  <2>1. TypeOK'
    BY <1>2 DEF ReadTest, Goto, WritersCounted, TypeOK, Inside, mutex, fields,
      granted
  <2>2. \A q \in Procs : Pending(q)' = Pending(q)
    BY <1>2 DEF ReadTest, Goto, PlaceOf, Pending, WritersCounted, TypeOK,
      ReadOps, WriteOps
  <2>3. WritersCounted'
    BY <1>2, <2>1, <2>2, CountsKept DEF ReadTest, fields
  <2>4. QED
    BY <1>1, <1>2, <2>3 DEF ReadTest, Goto, PlaceOf, LivingOwn, CallerHolds,
      TestedHolds, ReadersExcludeWriters, WritersCounted, TypeOK, mutex, fields,
      granted, Inside
<1>3. CASE WriteTry(p)
  <2>1. TypeOK'
    BY <1>3 DEF WriteTry, Goto, WritersCounted, TypeOK, Inside, mutex, fields,
      granted
  <2>2. \A q \in Procs : Pending(q)' = Pending(q)
    BY <1>3 DEF WriteTry, Goto, Pending, WritersCounted, TypeOK
  <2>3. WritersCounted'
    BY <1>3, <2>1, <2>2, CountsKept DEF WriteTry, fields
  <2>4. GetsWrite(p) => readers = 0
    BY DEF GetsWrite, WritersCounted, TypeOK
  <2>5. QED
    BY <1>1, <1>3, <2>3, <2>4 DEF WriteTry, Goto, PlaceOf, LivingOwn,
      CallerHolds, TestedHolds, ReadersExcludeWriters, WritersCounted, TypeOK,
      mutex, fields, granted, Inside
<1>4. CASE Return(p)
  <2>1. TypeOK'
    BY <1>1, <1>4, ProcsFinite DEF Return, Release, Goto, WritersCounted,
      TypeOK, Outside, fields, granted
  <2>2. \A q \in Procs : Pending(q)' = Pending(q)
    BY <1>4 DEF Return, Goto, Pending, WritersCounted, TypeOK, WriteOps
  <2>3. WritersCounted'
    BY <1>4, <2>1, <2>2, CountsKept DEF Return, fields
  <2>4. QED
    BY <1>1, <1>4, <2>3 DEF Return, Release, Goto, PlaceOf, LivingOwn,
      CallerHolds, TestedHolds, ReadersExcludeWriters, WritersCounted, TypeOK,
      fields, granted, Inside, ReadOps, WriteOps
<1>5. CASE Retry(p)
  <2>1. TypeOK'
    BY <1>1, <1>5, ProcsFinite DEF Retry, Release, Goto, WritersCounted,
      TypeOK, Outside, fields, granted
  <2>2. ReadsGiven' = ReadsGiven
    BY <1>5 DEF Retry, ReadsGiven, granted
  <2>3. \A q \in Procs \ {p} : Requested(q)' = Requested(q)
    BY <1>5 DEF Retry, Goto, Requested, Pending, granted, WritersCounted, TypeOK
  <2>4. WritersCounted'
    <3>1. CASE Pending(p)' = Pending(p)
      <4>1. Requested(p)' = Requested(p)
        BY <1>5, <3>1 DEF Retry, Requested, granted
      <4>2. Requests' = Requests
        BY <2>3, <4>1, RequestsKept
      <4>3. QED
        BY <1>5, <2>1, <2>2, <4>2 DEF Retry, fields, WritersCounted
    <3>2. CASE Pending(p)' # Pending(p)
      <4>1. Pending(p) /\ ~Pending(p)' /\ p \in ZeroByte
        BY <1>5, <3>2 DEF Retry, Goto, Pending, Blocks, WritersCounted, TypeOK,
          ReadOps, WriteOps
      <4>2. Requested(p) \in 1..MaxNest /\ Requested(p)' = Requested(p) - 1
        BY <1>5, <4>1, RequestedRange, BoundsNatural
          DEF Retry, Requested, granted, WritersCounted, TypeOK
      <4>3. Cardinality(Requests') = Cardinality(Requests) - 1
        BY <2>3, <4>2, RequestRemoves
      <4>4. QED
        BY <1>5, <2>1, <2>2, <4>1, <4>3, CountsFinite
          DEF Retry, fields, WritersCounted, TypeOK
    <3>3. QED
      BY <3>1, <3>2
  <2>5. QED
    BY <1>1, <1>5, <2>4 DEF Retry, Release, Goto, PlaceOf, LivingOwn,
      CallerHolds, TestedHolds, ReadersExcludeWriters, WritersCounted, TypeOK,
      fields, granted, Inside, ReadOps, WriteOps
<1>6. QED
  BY <1>2, <1>3, <1>4, <1>5

\* A read lock is given: no writer was counted at the test, and none could
\* appear since; or it is given back.
LEMMA ReaderInv ==
  ASSUME IInv, NEW p \in Procs \ dead, ReadCount(p) \/ ReadDrop(p)
  PROVE  IInv'
<1> USE DEF IInv
<1>1. owner = p /\ \A q \in Procs \ dead : at[q] \in Inside => q = p
  BY DEF LivingOwn, ReadCount, ReadDrop, Inside
<1>2. Requests' = Requests
  <2>1. \A q \in Procs : Requested(q)' = Requested(q)
    BY DEF ReadCount, ReadDrop, Goto, PlaceOf, Requested, Pending,
      WritersCounted, TypeOK, ReadOps, WriteOps
  <2>2. QED
    BY <2>1, RequestsKept
<1>3. CASE ReadCount(p)
  <2>1. reading[p] = 0 /\ writers = 0
    BY <1>3 DEF ReadCount, PlaceOf, CallerHolds, TestedHolds
  <2>2. \A q \in Procs : writing[q] = 0
    BY <2>1, NoRequests
  <2>3. ReadsGiven' = ReadsGiven \cup {p} /\ p \notin ReadsGiven
    BY <1>3, <2>1 DEF ReadCount, ReadsGiven, WritersCounted, TypeOK
  <2>4. Cardinality(ReadsGiven') = Cardinality(ReadsGiven) + 1
    BY <2>3, CountsFinite, FS_AddElement
  <2>5. TypeOK'
    BY <1>3, <2>1 DEF ReadCount, Goto, WritersCounted, TypeOK, Inside, mutex
  <2>6. WritersCounted'
    BY <1>2, <1>3, <2>4, <2>5 DEF ReadCount, WritersCounted
  <2>7. QED
    BY <1>1, <1>3, <2>1, <2>2, <2>6 DEF ReadCount, Goto, PlaceOf, LivingOwn,
      CallerHolds, TestedHolds, ReadersExcludeWriters, WritersCounted, TypeOK,
      mutex, Inside
<1>4. CASE ReadDrop(p)
  <2>1. reading[p] = 1
    BY <1>4 DEF ReadDrop, CallerHolds, WritersCounted, TypeOK
  <2>2. ReadsGiven' = ReadsGiven \ {p} /\ p \in ReadsGiven
    BY <1>4, <2>1 DEF ReadDrop, ReadsGiven, WritersCounted, TypeOK
  <2>3. /\ Cardinality(ReadsGiven') = Cardinality(ReadsGiven) - 1
        /\ Cardinality(ReadsGiven') \in Nat
    BY <2>2, CountsFinite, FS_RemoveElement, FS_CardinalityType
  <2>4. TypeOK'
    BY <1>4, <2>1, <2>3, CountsFinite
      DEF ReadDrop, Goto, WritersCounted, TypeOK, Inside, mutex
  <2>5. WritersCounted'
    BY <1>2, <1>4, <2>3, <2>4 DEF ReadDrop, WritersCounted
  <2>6. QED
    BY <1>1, <1>4, <2>1, <2>5 DEF ReadDrop, Goto, PlaceOf, LivingOwn,
      CallerHolds, TestedHolds, ReadersExcludeWriters, WritersCounted, TypeOK,
      mutex, Inside, ReadOps, WriteOps
<1>5. QED
  BY <1>3, <1>4

\* A write request is counted, granted once no one reads, or given back.
LEMMA WriterInv ==
  ASSUME IInv, NEW p \in Procs \ dead,
         WriteMark(p) \/ WriteEnter(p) \/ WriteDrop(p) \/ WriteForget(p)
  PROVE  IInv'
<1> USE DEF IInv
<1>1. owner = p /\ \A q \in Procs \ dead : at[q] \in Inside => q = p
  BY DEF LivingOwn, WriteMark, WriteEnter, WriteDrop, WriteForget, Inside
<1>2. writing \in [Procs -> 0..MaxNest] /\ ReadsGiven' = ReadsGiven
  BY DEF WriteMark, WriteEnter, WriteDrop, WriteForget, granted, ReadsGiven,
    WritersCounted, TypeOK
<1>3. CASE WriteMark(p)
  <2>1. /\ Requested(p) \in 0..(MaxNest - 1)
        /\ Requested(p)' = Requested(p) + 1
    BY <1>2, <1>3, BoundsNatural DEF WriteMark, Goto, PlaceOf, CallerHolds,
      Requested, Pending, WritersCounted, TypeOK, granted
  <2>2. \A q \in Procs \ {p} : Requested(q)' = Requested(q)
    BY <1>3 DEF WriteMark, Goto, Requested, Pending, granted, WritersCounted,
      TypeOK
  <2>3. Cardinality(Requests') = Cardinality(Requests) + 1
    BY <2>1, <2>2, RequestAdds
  <2>4. TypeOK'
    BY <1>3 DEF WriteMark, Goto, WritersCounted, TypeOK, Inside, mutex, granted
  <2>5. WritersCounted'
    BY <1>2, <1>3, <2>3, <2>4, CountsFinite
      DEF WriteMark, WritersCounted, TypeOK
  <2>6. QED
    BY <1>1, <1>3, <2>5 DEF WriteMark, Goto, PlaceOf, LivingOwn, CallerHolds,
      TestedHolds, ReadersExcludeWriters, WritersCounted, TypeOK, mutex,
      granted, Inside
<1>4. CASE WriteEnter(p)
  <2>1. writing[p] < MaxNest /\ readers = 0
    BY <1>4 DEF WriteEnter, PlaceOf, CallerHolds, TestedHolds
  <2>2. \A q \in Procs : reading[q] = 0
    BY <2>1, NoReads
  <2>3. \A q \in Procs : Requested(q)' = Requested(q)
    BY <1>2, <1>4, BoundsNatural DEF WriteEnter, Goto, PlaceOf, Requested,
      Pending, WritersCounted, TypeOK
  <2>4. Requests' = Requests
    BY <2>3, RequestsKept
  <2>5. TypeOK'
    BY <1>2, <1>4, <2>1, BoundsNatural DEF WriteEnter, Goto, Id,
      WritersCounted, TypeOK, Inside, mutex
  <2>6. WritersCounted'
    BY <1>2, <1>4, <2>4, <2>5 DEF WriteEnter, WritersCounted
  <2>7. QED
    BY <1>1, <1>4, <2>1, <2>2, <2>6 DEF WriteEnter, Goto, PlaceOf, LivingOwn,
      CallerHolds, TestedHolds, ReadersExcludeWriters, WritersCounted, TypeOK,
      mutex, Inside
<1>5. CASE WriteDrop(p)
  <2>1. writing[p] \in 1..MaxNest
    BY <1>2, <1>5, BoundsNatural DEF WriteDrop, CallerHolds
  <2>2. /\ Requested(p) \in 1..MaxNest
        /\ Requested(p)' = Requested(p) - 1
    BY <1>2, <1>5, <2>1, BoundsNatural DEF WriteDrop, Goto, Requested, Pending,
      WritersCounted, TypeOK, WriteOps
  <2>3. \A q \in Procs \ {p} : Requested(q)' = Requested(q)
    BY <1>5 DEF WriteDrop, Goto, Requested, Pending, WritersCounted, TypeOK
  <2>4. /\ Cardinality(Requests') = Cardinality(Requests) - 1
        /\ Cardinality(Requests') \in Nat
    <3>1. Cardinality(Requests') = Cardinality(Requests) - 1
      BY <2>2, <2>3, RequestRemoves
    <3>2. <<p, Requested(p)>> \in Requests
      BY <2>2, BoundsNatural DEF Requests
    <3>3. Cardinality(Requests) # 0
      BY <3>2, CountsFinite, FS_EmptySet
    <3>4. QED
      BY <3>1, <3>3, CountsFinite
  <2>5. TypeOK'
    BY <1>2, <1>5, <2>1, <2>4, CountsFinite, BoundsNatural
      DEF WriteDrop, Goto, WritersCounted, TypeOK, Inside, mutex
  <2>6. WritersCounted'
    BY <1>2, <1>5, <2>4, <2>5, CountsFinite
      DEF WriteDrop, WritersCounted, TypeOK
  <2>7. \A q \in Procs : ~(reading[q] > 0)
    BY <2>1 DEF ReadersExcludeWriters
  <2>8. QED
    BY <1>1, <1>5, <2>1, <2>6, <2>7 DEF WriteDrop, Goto, PlaceOf, LivingOwn,
      CallerHolds, TestedHolds, ReadersExcludeWriters, WritersCounted, TypeOK,
      mutex, Inside, ReadOps, WriteOps
<1>6. CASE WriteForget(p)
  <2>1. \A q \in Procs : Pending(q)' = Pending(q)
    BY <1>6 DEF WriteForget, Goto, PlaceOf, Pending, WritersCounted, TypeOK,
      WriteOps
  <2>2. TypeOK'
    BY <1>6 DEF WriteForget, Goto, WritersCounted, TypeOK, Inside, mutex,
      granted, FALSE_ID
  <2>3. WritersCounted'
    BY <1>6, <2>1, <2>2, CountsKept DEF WriteForget
  <2>4. QED
    BY <1>1, <1>6, <2>3 DEF WriteForget, Goto, PlaceOf, LivingOwn, CallerHolds,
      TestedHolds, ReadersExcludeWriters, WritersCounted, TypeOK, mutex,
      granted, Inside, ReadOps, WriteOps
<1>7. QED
  BY <1>3, <1>4, <1>5, <1>6

\* A death: one process less to which LivingOwn and TestedHolds apply.
LEMMA DieInv ==
  ASSUME IInv, NEW p \in Procs \ dead, Die(p)
  PROVE  IInv'
<1>1. TypeOK'
  BY DEF IInv, WritersCounted, TypeOK, Die, mutex, fields, granted
<1>2. WritersCounted'
  BY <1>1, CountsKept DEF IInv, Die, Pending, fields
<1>3. QED
  BY <1>2 DEF IInv, Die, PlaceOf, LivingOwn, CallerHolds, TestedHolds,
    ReadersExcludeWriters, mutex, fields, granted

LEMMA StepInv == IInv /\ [Next]_vars => IInv'
<1> SUFFICES ASSUME IInv, [Next]_vars PROVE IInv'
  OBVIOUS
<1>1. CASE Next
  <2>1. PICK p \in Procs \ dead :
          \/ \E f \in Ops : CallRead(p, f) \/ CallWrite(p, f)
          \/ CallUnlock(p) \/ MutexLock(p) \/ Step(p) \/ Die(p)
    BY <1>1 DEF Next
  <2>2. CASE Step(p)
    <3>1. OwnerDead(p) \/ at[p] \in Inside
      BY <2>2 DEF Step, Return, Retry, ReadTest, ReadCount, WriteMark,
        WriteTry, WriteEnter, ReadDrop, WriteDrop, WriteForget, Inside
    <3>2. QED
      BY <2>2, <3>1, MutexInv, MoveInv, ReaderInv, WriterInv DEF Step
  <2>3. QED
    BY <2>1, <2>2, CallInv, MutexInv, DieInv
<1>2. CASE UNCHANGED vars
  <2>1. TypeOK'
    BY <1>2 DEF IInv, WritersCounted, TypeOK, vars, mutex, fields, granted
  <2>2. WritersCounted'
    BY <1>2, <2>1, CountsKept DEF IInv, vars, fields, Pending
  <2>3. QED
    BY <1>2, <2>2 DEF vars, IInv, PlaceOf, LivingOwn, CallerHolds,
      TestedHolds, ReadersExcludeWriters, mutex, fields, granted
<1>3. QED
  BY <1>1, <1>2

\* The inductive invariant holds in every reachable state.
THEOREM Invariance == Spec => []IInv
BY InitInv, StepInv, PTL DEF Spec

-----------------------------------------------------------------------------
(***************************************************************************)
(* The safety properties of SharedLock, for every value of its constants.  *)
(***************************************************************************)

\* Every variable has its type; readers is the number of read locks given and
\* writers that of the requests waiting or granted, at every step and after
\* any deaths, but for refusals of a ZeroByte process, which it counts on.
THEOREM CountsTrue == Spec => []WritersCounted
<1>1. IInv => WritersCounted
  BY DEF IInv
<1>2. QED
  BY <1>1, Invariance, PTL

\* No process is given a read lock while another has a write lock, or the
\* other way round, whoever has died and wherever (:246-247).
THEOREM ReadersAlone == Spec => []ReadersExcludeWriters
<1>1. IInv => ReadersExcludeWriters
  BY DEF IInv
<1>2. QED
  BY <1>1, Invariance, PTL

\* No read lock is given while a write request waits or writes (:253-254):
\* the test of the count and readers++ are in one section, and the section
\* of a dead process is not entered before it has stopped.
THEOREM PendingKeepsReadersOut == Spec => PendingHoldsReaders
<1>1. ASSUME IInv, [Next]_vars, NEW p \in Procs, reading'[p] > reading[p],
             NEW q \in Procs
      PROVE  ~Pending(q) /\ writing[q] = 0
  <2>1. reading \in [Procs -> 0..1]
    BY <1>1 DEF IInv, WritersCounted, TypeOK
  <2>2. PICK r \in Procs \ dead : ReadCount(r)
    <3>1. ~UNCHANGED reading
      BY <1>1, <2>1
    <3>2. PICK r \in Procs \ dead : ReadCount(r) \/ ReadDrop(r)
      BY <1>1, <3>1 DEF Next, Step, vars, granted, CallRead, CallWrite,
        CallUnlock, Call, MutexLock, OwnerDead, Return, Retry, ReadTest,
        WriteMark, WriteTry, WriteEnter, WriteDrop, WriteForget, Die
    <3>3. ~ReadDrop(r)
      BY <1>1, <2>1 DEF ReadDrop
    <3>4. QED
      BY <3>2, <3>3
  <2>3. writers = 0
    BY <1>1, <2>2 DEF IInv, ReadCount, TestedHolds
  <2>4. QED
    BY <1>1, <2>3, NoRequests DEF IInv
<1>2. IInv /\ [Next]_vars =>
        [(\E p \in Procs : reading'[p] > reading[p])
          => \A q \in Procs : ~Pending(q) /\ writing[q] = 0]_vars
  BY <1>1
<1>3. QED
  BY <1>2, Invariance, PTL DEF Spec, PendingHoldsReaders

\* The robust mutex keeps the living apart, also after it was recovered:
\* one of them at a time is between the lock of the mutex and its unlock.
THEOREM LivingAlone ==
  Spec => [](\A p, q \in Procs \ dead :
               at[p] \in Inside /\ at[q] \in Inside => p = q)
<1>1. IInv => \A p, q \in Procs \ dead :
                at[p] \in Inside /\ at[q] \in Inside => p = q
  BY DEF IInv, LivingOwn
<1>2. QED
  BY <1>1, Invariance, PTL
=============================================================================
