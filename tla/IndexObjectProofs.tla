------------------------- MODULE IndexObjectProofs --------------------------
(***************************************************************************)
(* For every set of threads, of data and every size, an index that is used *)
(* as IndexObject assumes is sorted at every step, its bisection answers   *)
(* exactly, nothing changes it under a traversal, and it is the set that   *)
(* SortedIndex specifies; with one modifier it stays within its array.     *)
(***************************************************************************)
EXTENDS IndexObject, DataLemmas

\* Between the grant of its own lock and the release.
Inside(t) ==
  call[t].at \in {"start", "find", "found", "missing", "loop", "unlock"}
Reading(t) == Inside(t) /\ call[t].op \in ReadOps
\* Reset keeps the write lock while trim, which it called, wants it.
Writing(t) == (Inside(t) /\ call[t].op \in WriteOps) \/ call[t].outer = "reset"

\* The lock holds what the threads inside took: one read lock for a function
\* that reads, one more for the traversal whose callback it serves.
ReadLocks(t) ==
  IF ~thread_safe THEN 0
  ELSE (IF Reading(t) THEN 1 ELSE 0) + (IF call[t].outer = "traverse" THEN 1 ELSE 0)

LockOf ==
  /\ \A t \in Threads : holds[t] = ReadLocks(t)
  /\ \A t \in Threads : t \in writer <=> thread_safe /\ Writing(t)
  /\ writer # {} => Lock!NoReaders
  /\ \A t, u \in writer : t = u

\* The functions a thread can be in at each place, with which locals.
PlaceOf(t) ==
  LET c == call[t] IN
    /\ c.op = "none" <=> c.at = "out"
    /\ c.op = "none" => c.outer = "none"
    /\ c.at = "size" => c.op = "trim"
    /\ c.at = "loop" => c.op = "traverse"
    /\ c.at \in {"find", "found", "missing"} => c.op \in {"insert", "remove", "search"}
    /\ c.op \in {"insert", "remove", "search"} => c.data \in Data
    /\ c.at \in {"out", "size", "lock", "start"} =>
         /\ c.mid = 0 /\ c.hi = 0 /\ c.diff = 0
         /\ c.op # "trim" => c.lo = 0
    /\ c.outer = "reset" => c.op = "trim"
    /\ Inside(t) /\ thread_safe =>
         c.outer # "reset" /\ (c.outer = "traverse" => c.op \in ReadOps)
    /\ c.outer = "traverse" /\ ~thread_safe => c.op \notin {"traverse", "reset"}

\* Bisection: the datum is nowhere outside lo..hi, and the last turn tells
\* where that range ends.
Narrowed(t) ==
  LET c == call[t] IN
    /\ c.at \in {"find", "found"} => c.hi < n
    /\ c.at = "find" =>
      /\ c.lo <= c.hi + 1
      /\ \A i \in 0..(n - 1) : i < c.lo => Key(Slot(i)) < Key(c.data)
      /\ \A i \in 0..(n - 1) : i > c.hi => Key(Slot(i)) > Key(c.data)
      /\ c.diff > 0 => c.lo = c.mid + 1
      /\ c.diff < 0 => c.hi = c.mid - 1
      /\ c.diff = 0 => c.mid = 0 /\ c.lo = 0 /\ c.hi = n - 1

\* FindSound, of one thread.
Found(t) ==
  /\ call[t].at = "found" =>
       call[t].mid < n /\ Key(Slot(call[t].mid)) = Key(call[t].data)
  /\ call[t].at = "missing" =>
       /\ InsertionPoint(t) \in 0..n
       /\ \A i \in 0..(n - 1) :
            IF i < InsertionPoint(t) THEN Key(Slot(i)) < Key(call[t].data)
                                     ELSE Key(Slot(i)) > Key(call[t].data)

\* Without a lock one thread uses the index, and the flag is up as long as he
\* traverses it, so that the modifications his callbacks ask for are refused.
Alone ==
  ~thread_safe =>
    \A t \in Threads :
      /\ call[t].op # "none" => Calls[FALSE][t] # {}
      /\ Traversing(t) => should_not_be_modified
      /\ call[t].outer = "traverse" /\ call[t].at \in {"find", "found", "missing"}
           => call[t].op = "search"

\* One datum for a key, the keys ascending.
Ordered == \A i, j \in 1..n : i < j => Key(elements[i]) < Key(elements[j])

\* Nobody uses what is destroyed.
Dead == ~alive => Quiet /\ elements = <<>>

\* The inductive invariant.
IInv ==
  /\ Sorted
  /\ LockOf
  /\ \A t \in Threads : PlaceOf(t) /\ Narrowed(t) /\ Found(t)
  /\ Alone /\ Dead

-----------------------------------------------------------------------------
(***************************************************************************)
(* What a step of one thread must show of itself for the invariant to      *)
(* hold: the locals, the lock and the flag.                                *)
(***************************************************************************)

\* Who modifies is alone inside.
LEMMA Private ==
  ASSUME IInv, NEW t \in Threads, Inside(t), call[t].op \in WriteOps,
         NEW u \in Threads \ {t}
  PROVE  ~Inside(u) /\ call[u].outer = "none"
<1> USE DEF IInv
<1>1. /\ call[t].op # "none" /\ PlaceOf(u)
      /\ call[u].op \in Ops \cup {"none"}
      /\ call[u].outer \in {"none", "traverse", "reset"}
  BY DEF Ops, ReadOps, WriteOps, Sorted, TypeOK, CallType
<1>2. CASE ~thread_safe
  <2>1. call[u].op = "none"
    BY <1>1, <1>2, UnlockedAlone DEF Alone
  <2>2. QED
    BY <1>1, <2>1 DEF PlaceOf, Inside
<1>3. CASE thread_safe
  <2>1. t \in writer
    BY <1>3 DEF LockOf, Writing
  <2>2. holds[u] = 0 /\ holds[u] = ReadLocks(u) /\ u \notin writer
    BY <2>1 DEF LockOf, Lock!NoReaders
  <2>3. ~Writing(u)
    BY <1>3, <2>2 DEF LockOf
  <2>4. ~Reading(u) /\ call[u].outer # "traverse"
    BY <1>3, <2>2 DEF ReadLocks
  <2>5. Inside(u) => call[u].op \in ReadOps \cup WriteOps
    BY <1>1 DEF PlaceOf, Inside, Ops
  <2>6. QED
    BY <1>1, <2>3, <2>4, <2>5 DEF Reading, Writing
<1>4. QED
  BY <1>2, <1>3

\* A step of t: the others need nothing but the order of the array, and not
\* even to find it unchanged when they are not inside.
LEMMA Frame ==
  ASSUME IInv, NEW t \in Threads, alive, alive', thread_safe' = thread_safe,
         \/ elements' = elements
         \/ /\ elements' \in Seq(Data) /\ Ordered'
            /\ \A u \in Threads \ {t} : ~Inside(u),
         maximum_size' \in Nat, should_not_be_modified' \in BOOLEAN,
         holds' \in [Threads -> Int], writer' \subseteq Threads,
         barred' \in BOOLEAN, LockOf', Alone',
         call' \in [Threads -> CallType],
         \A u \in Threads \ {t} : call'[u] = call[u],
         call[t].mid' \in 0..n', call[t].hi' < n' + 1,
         PlaceOf(t)', Narrowed(t)', Found(t)'
  PROVE  IInv'
<1> USE DEF IInv
<1>1. elements \in Seq(Data) /\ Ordered /\ n \in Nat
  BY LenProperties DEF Sorted, TypeOK, Ordered, n
<1>2. elements' \in Seq(Data) /\ Ordered' /\ n' \in Nat
  BY <1>1, LenProperties DEF Ordered, n
<1>3. ASSUME NEW u \in Threads \ {t}
      PROVE  /\ PlaceOf(u)' /\ Narrowed(u)' /\ Found(u)'
             /\ call[u].mid' \in 0..n' /\ call[u].hi' < n' + 1
  <2>1. PlaceOf(u)'
    BY DEF PlaceOf, Inside
  <2>2. CASE elements' = elements
    <3>1. call[u].mid \in 0..n /\ call[u].hi < n + 1
      BY DEF Sorted, TypeOK
    <3>2. n' = n
      BY <2>2 DEF n
    <3>3. Narrowed(u)' /\ Found(u)'
      BY <2>2, <3>2 DEF Narrowed, Found, InsertionPoint, Slot
    <3>4. QED
      BY <2>1, <3>1, <3>2, <3>3
  <2>3. CASE ~Inside(u)
    <3>1. call[u] \in CallType /\ PlaceOf(u)
      BY DEF Sorted, TypeOK
    <3>2. call[u].at \in {"out", "size", "lock"}
      BY <2>3, <3>1 DEF Inside, CallType
    <3>3. call[u].mid = 0 /\ call[u].hi = 0
      BY <3>1, <3>2 DEF PlaceOf
    <3>4. Narrowed(u)' /\ Found(u)'
      BY <3>2 DEF Narrowed, Found
    <3>5. QED
      BY <1>2, <2>1, <3>3, <3>4
  <2>4. QED
    BY <2>2, <2>3
<1>4. \A u \in Threads : /\ PlaceOf(u)' /\ Narrowed(u)' /\ Found(u)'
                         /\ call[u].mid' \in 0..n' /\ call[u].hi' < n' + 1
  BY <1>3
<1>5. holds' \in [Threads -> 0..2]
  <2>1. \A u \in Threads : ReadLocks(u)' \in 0..2
    BY DEF ReadLocks
  <2>2. QED
    BY <2>1 DEF LockOf
<1>6. TypeOK'
  BY <1>2, <1>4, <1>5 DEF Sorted, TypeOK
<1>7. Sorted'
  BY <1>2, <1>6 DEF Sorted, Ordered
<1>8. QED
  BY <1>4, <1>7 DEF Dead

\* The lock untouched by a step that changes nobody's claim on it.
LEMMA LockKept ==
  ASSUME IInv, thread_safe' = thread_safe, holds' = holds, writer' = writer,
         \A u \in Threads :
           /\ Reading(u)' = Reading(u) /\ Writing(u)' = Writing(u)
           /\ (call[u].outer = "traverse")' = (call[u].outer = "traverse")
  PROVE  LockOf' /\ holds' \in [Threads -> Int] /\ writer' \subseteq Threads
<1>1. \A u \in Threads : ReadLocks(u)' = ReadLocks(u)
  BY DEF ReadLocks
<1>2. LockOf'
  BY <1>1 DEF IInv, LockOf, Lock!NoReaders
<1>3. holds \in [Threads -> Int] /\ writer \subseteq Threads
  BY DEF IInv, Sorted, TypeOK
<1>4. QED
  BY <1>2, <1>3

\* A step inside t's function that leaves array, lock and flag alone.
LEMMA LocalStep ==
  ASSUME IInv, NEW t \in Threads,
         UNCHANGED <<thread_safe, elements, should_not_be_modified, alive, lockvars>>,
         maximum_size' \in Nat,
         call' \in [Threads -> CallType],
         \A u \in Threads \ {t} : call'[u] = call[u],
         UNCHANGED <<call[t].op, call[t].outer>>,
         Inside(t), Inside(t)',
         (call[t].at = "loop")' => call[t].at = "loop",
         (call[t].at \in {"find", "found", "missing"})' =>
            \/ call[t].at \in {"find", "found", "missing"}
            \/ call[t].op = "search" \/ ~should_not_be_modified,
         call[t].mid' \in 0..n, call[t].hi' < n + 1,
         PlaceOf(t)', Narrowed(t)', Found(t)'
  PROVE  IInv'
<1>1. UNCHANGED <<holds, writer, barred>> /\ n' = n
  BY DEF lockvars, n
<1>2. call[t].op # "none" /\ alive
  <2>1. call[t].op # "none"
    BY DEF IInv, PlaceOf, Inside
  <2>2. QED
    BY <2>1 DEF IInv, Dead, Quiet
<1>3. /\ LockOf' /\ holds' \in [Threads -> Int] /\ writer' \subseteq Threads
  <2>1. \A u \in Threads :
          /\ Reading(u)' = Reading(u) /\ Writing(u)' = Writing(u)
          /\ (call[u].outer = "traverse")' = (call[u].outer = "traverse")
    BY DEF Reading, Writing, Inside
  <2>2. QED
    BY <1>1, <2>1, LockKept
<1>4. Alone'
  <2> SUFFICES ASSUME ~thread_safe, NEW u \in Threads
               PROVE  /\ call'[u].op # "none" => Calls[FALSE][u] # {}
                      /\ Traversing(u)' => should_not_be_modified
                      /\ call'[u].outer = "traverse"
                           /\ call'[u].at \in {"find", "found", "missing"}
                           => call'[u].op = "search"
    BY DEF Alone
  <2>1. /\ call[u].op # "none" => Calls[FALSE][u] # {}
        /\ Traversing(u) => should_not_be_modified
        /\ call[u].outer = "traverse"
             /\ call[u].at \in {"find", "found", "missing"}
             => call[u].op = "search"
    BY DEF IInv, Alone
  <2>2. CASE u # t
    BY <2>1, <2>2 DEF Traversing, In
  <2>3. CASE u = t
    BY <2>1, <2>3 DEF Traversing, In
  <2>4. QED
    BY <2>2, <2>3
<1>5. should_not_be_modified' \in BOOLEAN /\ barred' \in BOOLEAN
  BY <1>1 DEF IInv, Sorted, TypeOK
<1>6. QED
  BY <1>1, <1>2, <1>3, <1>4, <1>5, Frame


-----------------------------------------------------------------------------
(***************************************************************************)
(* The invariant is inductive: calls, the lock, and the life of the index. *)
(***************************************************************************)
LEMMA InitInv == Init => IInv
<1> SUFFICES ASSUME Init PROVE IInv
  OBVIOUS
<1>1. elements = <<>> /\ n = 0
  BY DEF Init, n
<1>2. Idle \in CallType
  BY DEF Idle, CallType, Ops
<1>3. \A t \in Threads : call[t] = Idle
  BY DEF Init
<1>4. call \in [Threads -> CallType]
  BY <1>2 DEF Init
<1>5. \A t \in Threads : call[t].mid = 0 /\ call[t].hi = 0 /\ call[t].op = "none"
        /\ call[t].at = "out" /\ call[t].outer = "none"
        /\ call[t].diff = 0 /\ call[t].lo = 0
  BY <1>3 DEF Idle
<1>6. holds = [t \in Threads |-> 0] /\ writer = {} /\ barred = FALSE
  BY DEF Init, Lock!AbsInit
<1>7. Sorted
  <2>1. elements \in Seq(Data) /\ maximum_size \in Nat
    BY <1>1, SizesLegal DEF Init
  <2>2. holds \in [Threads -> 0..2] /\ writer \subseteq Threads /\ barred \in BOOLEAN
    <3>1. holds \in [Threads -> 0..2]
      BY <1>6
    <3>2. writer \subseteq Threads
      BY <1>6
    <3>3. barred \in BOOLEAN
      BY <1>6
    <3>4. QED
      BY <3>1, <3>2, <3>3
  <2>3. \A t \in Threads : call[t].mid \in 0..n /\ call[t].hi < n + 1
    BY <1>1, <1>5
  <2>4. TypeOK
    BY <1>4, <2>1, <2>2, <2>3 DEF Init, TypeOK
  <2>5. QED
    BY <1>1, <2>4 DEF Sorted
<1>8. LockOf
  BY <1>5, <1>6 DEF LockOf, ReadLocks, Reading, Writing, Inside
<1>9. \A t \in Threads : PlaceOf(t) /\ Narrowed(t) /\ Found(t)
  BY <1>5 DEF PlaceOf, Narrowed, Found, Inside
<1>10. Alone /\ Dead
  BY <1>5 DEF Init, Alone, Dead, Traversing, In
<1>11. QED
  BY <1>7, <1>8, <1>9, <1>10 DEF IInv

\* What a function that is called starts with.
LEMMA Entered ==
  ASSUME NEW f \in Ops, NEW d \in Data
  PROVE  /\ Enter(f, d) \in CallType
         /\ Enter(f, d).op = f /\ Enter(f, d).data = d
         /\ Enter(f, d).at = IF f = "trim" THEN "size" ELSE "lock"
         /\ Enter(f, d).lo = 0 /\ Enter(f, d).hi = 0 /\ Enter(f, d).mid = 0
         /\ Enter(f, d).diff = 0 /\ Enter(f, d).outer = "none"
<1> DEFINE place == IF f = "trim" THEN "size" ELSE "lock"
<1>1. Enter(f, d) = [Idle EXCEPT !.op = f, !.data = d, !.at = place]
  BY DEF Enter
<1>2. place \in {"size", "lock"}
  OBVIOUS
<1> HIDE DEF place
<1>3. /\ Idle \in CallType
      /\ Idle.lo = 0 /\ Idle.hi = 0 /\ Idle.mid = 0 /\ Idle.diff = 0
      /\ Idle.outer = "none"
  BY DEF Idle, CallType
<1>4. Enter(f, d) \in CallType
  BY <1>1, <1>2, <1>3 DEF CallType
<1>5. /\ Enter(f, d).op = f /\ Enter(f, d).data = d /\ Enter(f, d).at = place
      /\ Enter(f, d).lo = 0 /\ Enter(f, d).hi = 0 /\ Enter(f, d).mid = 0
      /\ Enter(f, d).diff = 0 /\ Enter(f, d).outer = "none"
  BY <1>1, <1>3 DEF CallType
<1>6. QED
  BY <1>4, <1>5 DEF place

\* A call from outside.
LEMMA CallInv ==
  ASSUME IInv, NEW t \in Threads, NEW f \in Ops, NEW d \in Data,
         Call(t, f, d), UNCHANGED thread_safe
  PROVE  IInv'
<1>1. /\ alive /\ call[t].op = "none" /\ f \in Calls[thread_safe][t]
      /\ call' = [call EXCEPT ![t] = Enter(f, d)]
      /\ UNCHANGED <<elements, maximum_size, should_not_be_modified, alive,
                     holds, writer, barred>>
  BY DEF Call, object, lockvars
<1>2. /\ call \in [Threads -> CallType] /\ n' = n /\ n \in Nat
      /\ call[t].at = "out" /\ call[t].outer = "none"
      /\ maximum_size \in Nat /\ should_not_be_modified \in BOOLEAN
      /\ barred \in BOOLEAN
  BY <1>1, LenProperties DEF IInv, Sorted, TypeOK, PlaceOf, n
<1>3. /\ call' \in [Threads -> CallType] /\ call'[t] = Enter(f, d)
      /\ \A u \in Threads \ {t} : call'[u] = call[u]
  BY <1>1, <1>2, Entered
<1>4. /\ call[t].op' = f /\ call[t].data' = d
      /\ call[t].at' \in {"size", "lock"} /\ (call[t].at' = "size" => f = "trim")
      /\ call[t].lo' = 0 /\ call[t].hi' = 0 /\ call[t].mid' = 0
      /\ call[t].diff' = 0 /\ call[t].outer' = "none"
  BY <1>3, Entered
<1>5. LockOf' /\ holds' \in [Threads -> Int] /\ writer' \subseteq Threads
  <2>1. \A u \in Threads :
          /\ Reading(u)' = Reading(u) /\ Writing(u)' = Writing(u)
          /\ (call[u].outer = "traverse")' = (call[u].outer = "traverse")
    BY <1>2, <1>3, <1>4 DEF Reading, Writing, Inside
  <2>2. QED
    BY <1>1, <2>1, LockKept
<1>6. Alone'
  <2>1. ~thread_safe => f \in Calls[FALSE][t]
    <3>1. ~thread_safe => thread_safe = FALSE
      BY DEF IInv, Sorted, TypeOK
    <3>2. QED
      BY <1>1, <3>1
  <2>2. QED
    BY <1>1, <1>3, <1>4, <2>1 DEF IInv, Alone, Traversing, In
<1>7. PlaceOf(t)' /\ Narrowed(t)' /\ Found(t)'
  BY <1>4 DEF PlaceOf, Narrowed, Found, Inside, Ops, ReadOps, WriteOps
<1>8. QED
  BY <1>1, <1>2, <1>3, <1>4, <1>5, <1>6, <1>7, Frame

\* A call of the callback: the traversal waits, its lock in hand and the
\* flag up.
LEMMA CallbackInv ==
  ASSUME IInv, NEW t \in Threads, NEW f \in Ops, NEW d \in Data,
         CallbackCall(t, f, d), UNCHANGED thread_safe
  PROVE  IInv'
<1> DEFINE e == [Enter(f, d) EXCEPT !.outer = "traverse", !.opos = call[t].pos]
<1>1. /\ call[t].op = "traverse" /\ call[t].at = "loop" /\ call[t].outer = "none"
      /\ f \in CallbackCalls[thread_safe]
      /\ call' = [call EXCEPT ![t] = e]
      /\ UNCHANGED <<elements, maximum_size, should_not_be_modified, alive,
                     holds, writer, barred>>
  BY DEF CallbackCall, In, object, lockvars
<1>2. /\ call \in [Threads -> CallType] /\ n' = n /\ n \in Nat
      /\ maximum_size \in Nat /\ should_not_be_modified \in BOOLEAN
      /\ barred \in BOOLEAN
  BY <1>1, LenProperties DEF IInv, Sorted, TypeOK, n
<1>3. call[t] \in CallType /\ call[t].pos \in Nat
  BY <1>2 DEF CallType
<1>4. /\ e \in CallType /\ e.op = f /\ e.data = d /\ e.at = Enter(f, d).at
      /\ e.lo = 0 /\ e.hi = 0 /\ e.mid = 0 /\ e.diff = 0 /\ e.outer = "traverse"
  <2> DEFINE a == Enter(f, d)
  <2>1. /\ a \in CallType /\ a.op = f /\ a.data = d /\ a.lo = 0 /\ a.hi = 0
        /\ a.mid = 0 /\ a.diff = 0
    BY Entered
  <2> HIDE DEF a
  <2>2. e = [a EXCEPT !.outer = "traverse", !.opos = call[t].pos]
    BY DEF a
  <2> HIDE DEF e
  <2>3. e \in CallType
    BY <1>3, <2>1, <2>2 DEF CallType
  <2>4. /\ e.op = a.op /\ e.data = a.data /\ e.at = a.at /\ e.lo = a.lo
        /\ e.hi = a.hi /\ e.mid = a.mid /\ e.diff = a.diff
        /\ e.outer = "traverse"
    BY <2>1, <2>2 DEF CallType
  <2>5. QED
    BY <2>1, <2>3, <2>4 DEF a
<1>5. e.at \in {"size", "lock"} /\ (e.at = "size" => f = "trim")
  BY <1>4, Entered
<1> HIDE DEF e
<1>6. /\ call' \in [Threads -> CallType] /\ call'[t] = e
      /\ \A u \in Threads \ {t} : call'[u] = call[u]
  BY <1>1, <1>2, <1>4
<1>7. alive
  BY <1>1 DEF IInv, Dead, Quiet
<1>8. LockOf' /\ holds' \in [Threads -> Int] /\ writer' \subseteq Threads
  <2>1. ReadLocks(t)' = ReadLocks(t)
    BY <1>1, <1>4, <1>5, <1>6 DEF ReadLocks, Reading, Inside, ReadOps
  <2>2. \A u \in Threads \ {t} : ReadLocks(u)' = ReadLocks(u)
    BY <1>6 DEF ReadLocks, Reading, Inside
  <2>3. \A u \in Threads : Writing(u)' = Writing(u)
    BY <1>1, <1>4, <1>5, <1>6 DEF Writing, Inside, WriteOps
  <2>4. LockOf'
    BY <1>1, <2>1, <2>2, <2>3 DEF IInv, LockOf, Lock!NoReaders
  <2>5. QED
    BY <1>1, <2>4 DEF IInv, Sorted, TypeOK
<1>9. Alone'
  BY <1>1, <1>4, <1>5, <1>6 DEF IInv, Alone, Traversing, In
<1>10. PlaceOf(t)' /\ Narrowed(t)' /\ Found(t)'
  <2>1. ~thread_safe => thread_safe = FALSE
    BY DEF IInv, Sorted, TypeOK
  <2>2. ~thread_safe => f \notin {"traverse", "reset"}
    BY <1>1, <2>1, CallbacksHeedFlag
  <2>3. QED
    BY <1>1, <1>4, <1>5, <1>6, <2>2
      DEF PlaceOf, Narrowed, Found, Inside, Ops, ReadOps, WriteOps
<1>11. QED
  BY <1>1, <1>2, <1>4, <1>6, <1>7, <1>8, <1>9, <1>10, Frame


\* The writer that waits bars the readers.
LEMMA AnnounceInv ==
  ASSUME IInv, NEW t \in Threads, Announce(t), UNCHANGED thread_safe
  PROVE  IInv'
<1>1. /\ barred' = TRUE
      /\ UNCHANGED <<elements, maximum_size, should_not_be_modified, alive, call,
                     holds, writer>>
  BY DEF Announce, object, Lock!Bar
<1>2. n' = n
  BY <1>1 DEF n
<1>3. LockOf'
  BY <1>1 DEF IInv, LockOf, Lock!NoReaders, ReadLocks, Reading, Writing, Inside
<1>4. Sorted'
  BY <1>1, <1>2 DEF IInv, Sorted, TypeOK
<1>5. \A u \in Threads : PlaceOf(u)' /\ Narrowed(u)' /\ Found(u)'
  BY <1>1, <1>2 DEF IInv, PlaceOf, Inside, Narrowed, Found, InsertionPoint, Slot
<1>6. Alone' /\ Dead'
  BY <1>1 DEF IInv, Alone, Dead, Quiet, Traversing, In
<1>7. QED
  BY <1>3, <1>4, <1>5, <1>6 DEF IInv

\* The grant of the lock: a read lock more for t, or the write lock, which
\* no one inside and no traversal of its own lets t have.
LEMMA LockInv ==
  ASSUME IInv, NEW t \in Threads, LockRead(t) \/ LockWrite(t),
         UNCHANGED thread_safe
  PROVE  IInv'
<1>1. /\ call[t].at = "lock" /\ call[t].op \in Ops
      /\ call' = [call EXCEPT ![t].at = "start"]
      /\ UNCHANGED <<elements, maximum_size, should_not_be_modified, alive>>
  BY DEF LockRead, LockWrite, Goto, object, Ops
<1>2. /\ call \in [Threads -> CallType] /\ n' = n
      /\ maximum_size \in Nat /\ should_not_be_modified \in BOOLEAN
      /\ barred \in BOOLEAN /\ holds \in [Threads -> Int]
      /\ writer \subseteq Threads
      /\ call[t].mid \in 0..n /\ call[t].hi < n + 1
  BY <1>1 DEF IInv, Sorted, TypeOK, n
<1>3. /\ call' \in [Threads -> CallType]
      /\ \A u \in Threads \ {t} : call'[u] = call[u]
  BY <1>1, <1>2 DEF CallType
<1>4. /\ UNCHANGED <<call[t].op, call[t].data, call[t].lo, call[t].hi, call[t].mid,
                     call[t].diff, call[t].outer>>
      /\ call[t].at' = "start"
  BY <1>1, <1>2 DEF CallType
<1>5. call[t].op # "none" /\ alive
  BY <1>1 DEF IInv, Dead, Quiet, Ops, ReadOps, WriteOps
<1>6. /\ \A u \in Threads \ {t} : /\ ReadLocks(u)' = ReadLocks(u)
                                  /\ Writing(u)' <=> Writing(u)
      /\ Reading(t)' <=> call[t].op \in ReadOps
      /\ ~Reading(t)
      /\ Writing(t)' <=> call[t].op \in WriteOps \/ call[t].outer = "reset"
      /\ Writing(t) <=> call[t].outer = "reset"
  BY <1>1, <1>3, <1>4 DEF ReadLocks, Reading, Writing, Inside
<1>7. call[t].outer = "reset" => call[t].op = "trim"
  BY DEF IInv, PlaceOf
<1>8. CASE ~thread_safe
  <2>1. UNCHANGED <<holds, writer, barred>>
    BY <1>8 DEF LockRead, LockWrite, lockvars
  <2>2. LockOf'
    BY <1>8, <2>1 DEF IInv, LockOf, Lock!NoReaders, ReadLocks
  <2>3. Alone'
    BY <1>1, <1>3, <1>4, ZenonT(60) DEF IInv, Alone, Traversing, In
  <2>4. PlaceOf(t)' /\ Narrowed(t)' /\ Found(t)'
    BY <1>1, <1>4, <1>8 DEF IInv, PlaceOf, Narrowed, Found, Inside
  <2>5. QED
    BY <1>1, <1>2, <1>3, <1>4, <1>5, <2>1, <2>2, <2>3, <2>4, Frame
<1>9. CASE thread_safe /\ LockRead(t)
  <2>1. /\ call[t].op \in ReadOps /\ writer = {}
        /\ holds' = [holds EXCEPT ![t] = @ + 1]
        /\ UNCHANGED <<writer, barred>>
    BY <1>9 DEF LockRead, Lock!GrantRead
  <2>2. call[t].op \notin WriteOps /\ call[t].op # "trim"
    BY <2>1 DEF ReadOps, WriteOps
  <2>3. ReadLocks(t)' = ReadLocks(t) + 1
    BY <1>4, <1>6, <1>9, <2>1 DEF ReadLocks
  <2>4. LockOf'
    <3>1. \A u \in Threads : holds'[u] = ReadLocks(u)'
      BY <1>2, <1>6, <2>1, <2>3 DEF IInv, LockOf
    <3>2. \A u \in Threads : Writing(u)' <=> Writing(u)
      BY <1>6, <2>2
    <3>3. QED
      BY <2>1, <3>1, <3>2 DEF IInv, LockOf
  <2>5. holds' \in [Threads -> Int]
    BY <1>2, <2>1
  <2>6. Alone'
    BY <1>9 DEF Alone
  <2>7. PlaceOf(t)' /\ Narrowed(t)' /\ Found(t)'
    BY <1>1, <1>4, <1>7, <2>1, <2>2 DEF IInv, PlaceOf, Narrowed, Found, Inside
  <2>8. QED
    BY <1>1, <1>2, <1>3, <1>4, <1>5, <2>1, <2>4, <2>5, <2>6, <2>7, Frame
<1>10. CASE thread_safe /\ LockWrite(t)
  <2>1. /\ call[t].op \in WriteOps /\ writer = {} /\ Lock!NoReaders
        /\ writer' = {t}
        /\ UNCHANGED <<holds, barred>>
    BY <1>10 DEF LockWrite, Lock!GrantWrite
  <2>2. call[t].op \notin ReadOps
    BY <2>1 DEF ReadOps, WriteOps
  <2>3. /\ ReadLocks(t) = 0 /\ call[t].outer # "traverse"
        /\ ReadLocks(t)' = ReadLocks(t)
    <3>1. ReadLocks(t) = 0
      BY <2>1 DEF IInv, LockOf, Lock!NoReaders
    <3>2. call[t].outer # "traverse"
      BY <1>6, <1>10, <3>1 DEF ReadLocks
    <3>3. QED
      BY <1>4, <1>6, <2>2, <3>1, <3>2 DEF ReadLocks
  <2>4. call[t].outer # "reset"
    BY <1>6, <1>10, <2>1 DEF IInv, LockOf
  <2>5. LockOf'
    <3>1. \A u \in Threads : holds'[u] = ReadLocks(u)'
      BY <1>6, <2>1, <2>3 DEF IInv, LockOf
    <3>2. \A u \in Threads : Writing(u)' <=> u = t
      BY <1>6, <1>10, <2>1 DEF IInv, LockOf
    <3>3. Lock!NoReaders'
      BY <2>1 DEF Lock!NoReaders
    <3>4. QED
      BY <1>10, <2>1, <3>1, <3>2, <3>3 DEF LockOf
  <2>6. Alone'
    BY <1>10 DEF Alone
  <2>7. PlaceOf(t)' /\ Narrowed(t)' /\ Found(t)'
    BY <1>1, <1>4, <1>10, <2>1, <2>3, <2>4
      DEF IInv, PlaceOf, Narrowed, Found, Inside
  <2>8. QED
    BY <1>1, <1>2, <1>3, <1>4, <1>5, <2>1, <2>5, <2>6, <2>7, Frame
<1>11. QED
  BY <1>8, <1>9, <1>10

\* The way out: into the traversal or the reset that made the call, or out.
LEMMA AfterTyped ==
  ASSUME NEW c \in CallType
  PROVE  /\ After(c) \in CallType
         /\ After(c).outer = "none"
         /\ After(c).lo = 0 /\ After(c).hi = 0 /\ After(c).mid = 0
         /\ After(c).diff = 0
         /\ c.outer = "none" => After(c).op = "none" /\ After(c).at = "out"
         /\ c.outer = "traverse" =>
              After(c).op = "traverse" /\ After(c).at = "loop"
         /\ c.outer = "reset" => After(c).op = "reset" /\ After(c).at = "unlock"
<1>1. /\ Idle \in CallType /\ Idle.op = "none" /\ Idle.at = "out"
      /\ Idle.lo = 0 /\ Idle.hi = 0 /\ Idle.mid = 0 /\ Idle.diff = 0
      /\ Idle.outer = "none"
  BY DEF Idle, CallType
<1>2. c.outer \in {"none", "traverse", "reset"} /\ c.opos + 1 \in Nat
  BY DEF CallType
<1>3. CASE c.outer = "none"
  BY <1>1, <1>3 DEF After
<1>4. CASE c.outer = "traverse"
  <2>1. After(c) = [Idle EXCEPT !.op = "traverse", !.at = "loop", !.pos = c.opos + 1]
    BY <1>4 DEF After
  <2>2. QED
    BY <1>1, <1>2, <1>4, <2>1 DEF CallType, Ops, ReadOps
<1>5. CASE c.outer = "reset"
  <2>1. After(c) = [Idle EXCEPT !.op = "reset", !.at = "unlock"]
    BY <1>5 DEF After
  <2>2. QED
    BY <1>1, <1>5, <2>1 DEF CallType, Ops, WriteOps
<1>6. QED
  BY <1>2, <1>3, <1>4, <1>5


LEMMA UnlockInv ==
  ASSUME IInv, NEW t \in Threads, Unlock(t), UNCHANGED thread_safe
  PROVE  IInv'
<1> DEFINE a == After(call[t])
<1>1. /\ call[t].at = "unlock"
      /\ call' = [call EXCEPT ![t] = a]
      /\ UNCHANGED <<elements, maximum_size, should_not_be_modified, alive>>
  BY DEF Unlock, object
<1>2. /\ call \in [Threads -> CallType] /\ n' = n /\ n \in Nat
      /\ maximum_size \in Nat /\ should_not_be_modified \in BOOLEAN
      /\ barred \in BOOLEAN /\ holds \in [Threads -> Int]
      /\ writer \subseteq Threads
  BY <1>1, LenProperties DEF IInv, Sorted, TypeOK, n
<1>3. /\ a \in CallType /\ a.outer = "none" /\ a.lo = 0 /\ a.hi = 0 /\ a.mid = 0
      /\ a.diff = 0
      /\ call[t].outer = "none" => a.op = "none" /\ a.at = "out"
      /\ call[t].outer = "traverse" => a.op = "traverse" /\ a.at = "loop"
      /\ call[t].outer = "reset" => a.op = "reset" /\ a.at = "unlock"
  BY <1>2, AfterTyped
<1> HIDE DEF a
<1>4. /\ call' \in [Threads -> CallType] /\ call'[t] = a
      /\ \A u \in Threads \ {t} : call'[u] = call[u]
  BY <1>1, <1>2, <1>3
<1>5. /\ call[t].op # "none" /\ alive
      /\ call[t].op \in Ops
      /\ call[t].outer \in {"none", "traverse", "reset"}
  BY <1>1, <1>2 DEF IInv, Dead, Quiet, PlaceOf, CallType
<1>6. /\ \A u \in Threads \ {t} : /\ ReadLocks(u)' = ReadLocks(u)
                                  /\ Writing(u)' <=> Writing(u)
      /\ Reading(t) <=> call[t].op \in ReadOps
      /\ Reading(t)' <=> call[t].outer = "traverse"
      /\ Writing(t) <=> call[t].op \in WriteOps \/ call[t].outer = "reset"
      /\ Writing(t)' <=> call[t].outer = "reset"
  BY <1>1, <1>3, <1>4, <1>5
    DEF ReadLocks, Reading, Writing, Inside, ReadOps, WriteOps
<1>7. thread_safe => call[t].outer # "reset"
                     /\ (call[t].outer = "traverse" => call[t].op \in ReadOps)
  BY <1>1 DEF IInv, PlaceOf, Inside
<1>8. PlaceOf(t)' /\ Narrowed(t)' /\ Found(t)'
  BY <1>3, <1>4, <1>5 DEF PlaceOf, Narrowed, Found, Inside, ReadOps
<1>9. Alone'
  BY <1>1, <1>3, <1>4, <1>5 DEF IInv, Alone, Traversing, In
<1>10. a.mid \in 0..n' /\ a.hi < n' + 1
  BY <1>2, <1>3
<1>11. CASE ~thread_safe
  <2>1. UNCHANGED <<holds, writer, barred>>
    BY <1>11 DEF Unlock, lockvars
  <2>2. LockOf'
    BY <1>11, <2>1 DEF IInv, LockOf, Lock!NoReaders, ReadLocks
  <2>3. QED
    BY <1>1, <1>2, <1>4, <1>5, <1>8, <1>9, <1>10, <2>1, <2>2, Frame
<1>12. CASE thread_safe /\ call[t].op \in ReadOps
  <2>1. /\ holds' = [holds EXCEPT ![t] = @ - 1]
        /\ UNCHANGED <<writer, barred>>
    BY <1>12 DEF Unlock, Lock!DropRead
  <2>2. call[t].op \notin WriteOps
    BY <1>12 DEF ReadOps, WriteOps
  <2>3. ReadLocks(t)' = ReadLocks(t) - 1
    BY <1>3, <1>4, <1>6, <1>12 DEF ReadLocks
  <2>4. \A u \in Threads : Writing(u)' <=> Writing(u)
    BY <1>6, <2>2
  <2>5. \A u \in Threads : holds'[u] = ReadLocks(u)'
    BY <1>2, <1>6, <2>1, <2>3 DEF IInv, LockOf
  <2>6. writer # {} => Lock!NoReaders'
    <3>1. ReadLocks(t) > 0
      BY <1>6, <1>12 DEF ReadLocks
    <3>2. writer = {}
      BY <3>1 DEF IInv, LockOf, Lock!NoReaders
    <3>3. QED
      BY <3>2
  <2>7. LockOf'
    BY <2>1, <2>4, <2>5, <2>6 DEF IInv, LockOf
  <2>8. holds' \in [Threads -> Int]
    BY <1>2, <2>1
  <2>9. QED
    BY <1>1, <1>2, <1>4, <1>5, <1>8, <1>9, <1>10, <2>1, <2>7, <2>8, Frame
<1>13. CASE thread_safe /\ call[t].op \notin ReadOps
  <2>1. /\ writer = {t} /\ writer' = {} /\ barred' = FALSE /\ UNCHANGED holds
    BY <1>13 DEF Unlock, Lock!DropWrite
  <2>2. call[t].outer = "none"
    BY <1>5, <1>7, <1>13
  <2>3. ReadLocks(t)' = ReadLocks(t)
    BY <1>3, <1>4, <1>6, <1>13, <2>2 DEF ReadLocks
  <2>4. \A u \in Threads : holds'[u] = ReadLocks(u)'
    BY <1>6, <2>1, <2>3 DEF IInv, LockOf
  <2>5. \A u \in Threads : ~Writing(u)'
    BY <1>6, <1>13, <2>1, <2>2 DEF IInv, LockOf
  <2>6. LockOf'
    BY <2>1, <2>4, <2>5 DEF LockOf
  <2>7. QED
    BY <1>1, <1>2, <1>4, <1>5, <1>8, <1>9, <1>10, <2>1, <2>6, Frame
<1>14. QED
  BY <1>11, <1>12, <1>13

\* Destroy and a new init, with no call running and so nobody's lock.
LEMMA LifeInv ==
  ASSUME IInv, (Destroy /\ UNCHANGED thread_safe) \/ Create
  PROVE  IInv'
<1>1. /\ \A t \in Threads : call[t].op = "none"
      /\ elements' = <<>> /\ UNCHANGED <<call, holds, writer>>
      /\ thread_safe' \in BOOLEAN /\ barred' \in BOOLEAN
      /\ should_not_be_modified' \in BOOLEAN /\ alive' \in BOOLEAN
      /\ maximum_size' \in Nat
  <2>1. /\ thread_safe \in BOOLEAN /\ barred \in BOOLEAN
        /\ should_not_be_modified \in BOOLEAN
    BY DEF IInv, Sorted, TypeOK
  <2>2. CASE Destroy /\ UNCHANGED thread_safe
    BY <2>1, <2>2 DEF Destroy, Quiet
  <2>3. CASE Create
    <3>1. Quiet /\ elements = <<>>
      BY <2>3 DEF IInv, Dead, Create
    <3>2. /\ UNCHANGED <<elements, should_not_be_modified, holds, writer, barred, call>>
          /\ thread_safe' \in BOOLEAN /\ maximum_size' = InitialSize /\ alive' = TRUE
      BY <2>3 DEF Create, lockvars
    <3>3. QED
      BY <2>1, <3>1, <3>2, SizesLegal DEF Quiet
  <2>4. QED
    BY <2>2, <2>3
<1>2. \A t \in Threads :
        /\ call[t].at = "out" /\ call[t].outer = "none"
        /\ call[t].mid = 0 /\ call[t].hi = 0
  BY <1>1 DEF IInv, PlaceOf
<1>3. n' = 0
  BY <1>1 DEF n
<1>4. LockOf'
  <2>1. \A t \in Threads : ReadLocks(t) = 0 /\ ReadLocks(t)' = 0
                           /\ ~Writing(t) /\ ~Writing(t)'
    BY <1>1, <1>2 DEF ReadLocks, Reading, Writing, Inside
  <2>2. QED
    BY <1>1, <2>1 DEF IInv, Sorted, TypeOK, LockOf, Lock!NoReaders
<1>5. Sorted'
  <2>1. \A t \in Threads : call'[t].mid \in 0..n' /\ call'[t].hi < n' + 1
    BY <1>1, <1>2, <1>3
  <2>2. elements' \in Seq(Data)
    BY <1>1
  <2>3. TypeOK'
    BY <1>1, <2>1, <2>2 DEF IInv, Sorted, TypeOK
  <2>4. QED
    BY <1>3, <2>3 DEF Sorted
<1>6. \A t \in Threads : PlaceOf(t)' /\ Narrowed(t)' /\ Found(t)'
  BY <1>1, <1>2 DEF IInv, PlaceOf, Narrowed, Found, Inside
<1>7. Alone' /\ Dead'
  BY <1>1, <1>2 DEF Alone, Dead, Quiet, Traversing, In
<1>8. QED
  BY <1>4, <1>5, <1>6, <1>7 DEF IInv


-----------------------------------------------------------------------------
(***************************************************************************)
(* Bisection, and the functions that leave the array alone.                *)
(***************************************************************************)

\* The facts about a thread in a function that its steps start from.
LEMMA Here ==
  ASSUME IInv, NEW t \in Threads
  PROVE  /\ call \in [Threads -> CallType] /\ call[t] \in CallType
         /\ call[t].lo \in Nat /\ call[t].hi \in Int /\ call[t].diff \in Int
         /\ call[t].mid \in 0..n /\ call[t].hi < n + 1 /\ n \in Nat
         /\ elements \in Seq(Data) /\ maximum_size \in Nat
         /\ \A i \in 0..(n - 1) : Slot(i) \in Data /\ Key(Slot(i)) \in Int
         /\ PlaceOf(t) /\ Narrowed(t) /\ Found(t)
<1>1. elements \in Seq(Data) /\ n \in Nat
  BY LenProperties DEF IInv, Sorted, TypeOK, n
<1>2. ASSUME NEW i \in 0..(n - 1)
      PROVE  Slot(i) \in Data /\ Key(Slot(i)) \in Int
  <2>1. i + 1 \in 1..Len(elements)
    BY <1>1 DEF n
  <2>2. elements[i + 1] \in Data
    BY <1>1, <2>1, ElementOfSeq
  <2>3. QED
    BY <2>2, DataKeyed DEF Slot, Key
<1>3. /\ call \in [Threads -> CallType] /\ call[t].mid \in 0..n
      /\ call[t].hi < n + 1 /\ maximum_size \in Nat
  BY DEF IInv, Sorted, TypeOK
<1>4. QED
  BY <1>1, <1>2, <1>3 DEF IInv, CallType

\* A step that only moves t on to another place of its function, with what
\* is known there.
LEMMA MoveInv ==
  ASSUME IInv, NEW t \in Threads,
         UNCHANGED <<thread_safe, elements, should_not_be_modified, alive, lockvars>>,
         maximum_size' \in Nat, Inside(t),
         NEW p \in {"missing", "unlock"},
         call' = [call EXCEPT ![t].at = p],
         p = "missing" => call[t].at = "find" /\ Found(t)'
  PROVE  IInv'
<1>1. /\ call \in [Threads -> CallType] /\ call[t].mid \in 0..n
      /\ call[t].hi < n + 1 /\ PlaceOf(t)
  BY Here
<1>2. /\ call' \in [Threads -> CallType]
      /\ \A u \in Threads \ {t} : call'[u] = call[u]
  BY <1>1 DEF CallType
<1>3. /\ call[t].at' = p
      /\ UNCHANGED <<call[t].op, call[t].data, call[t].lo, call[t].hi,
                     call[t].mid, call[t].diff, call[t].outer>>
  BY <1>1 DEF CallType
<1>4. Inside(t)'
  BY <1>3 DEF Inside
<1>5. PlaceOf(t)'
  BY <1>1, <1>3, <1>4 DEF PlaceOf, Inside
<1>6. Narrowed(t)' /\ Found(t)'
  BY <1>3 DEF Narrowed, Found
<1>7. /\ (call[t].at = "loop")' => call[t].at = "loop"
      /\ (call[t].at \in {"find", "found", "missing"})' =>
            \/ call[t].at \in {"find", "found", "missing"}
            \/ call[t].op = "search" \/ ~should_not_be_modified
  BY <1>3
<1>8. call[t].mid' \in 0..n /\ call[t].hi' < n + 1
  BY <1>1, <1>3
<1>9. QED
  BY <1>2, <1>3, <1>4, <1>5, <1>6, <1>7, <1>8, LocalStep

\* The bisection begins with the whole array; a modification gets there only
\* with the flag down.
LEMMA StartInv ==
  ASSUME IInv, NEW t \in Threads, Start(t), UNCHANGED thread_safe
  PROVE  IInv'
<1>1. /\ call[t].at = "start" /\ call[t].op \in {"insert", "remove", "search"}
      /\ UNCHANGED <<elements, maximum_size, should_not_be_modified, alive, lockvars>>
      /\ Inside(t)
  BY DEF Start, object, Inside
<1>2. /\ call \in [Threads -> CallType] /\ n \in Nat /\ maximum_size' \in Nat
      /\ PlaceOf(t) /\ n' = n
  BY <1>1, Here DEF n
<1>3. CASE should_not_be_modified /\ call[t].op # "search"
  <2>1. call' = [call EXCEPT ![t].at = "unlock"]
    BY <1>3 DEF Start, Return, Goto
  <2>2. QED
    BY <1>1, <1>2, <2>1, MoveInv
<1>4. CASE ~(should_not_be_modified /\ call[t].op # "search")
  <2>1. PICK h \in Int :
          h = n - 1 /\ call' = [call EXCEPT ![t].at = "find", ![t].hi = h]
    BY <1>2, <1>4 DEF Start
  <2> DEFINE c == [call[t] EXCEPT !.at = "find", !.hi = h]
  <2>2. /\ c \in CallType /\ c.at = "find" /\ c.hi = h
        /\ c.op = call[t].op /\ c.data = call[t].data /\ c.lo = call[t].lo
        /\ c.mid = call[t].mid /\ c.diff = call[t].diff
        /\ c.outer = call[t].outer
        /\ call' = [call EXCEPT ![t] = c]
    BY <1>2, <2>1, ZenonT(60) DEF CallType
  <2> HIDE DEF c
  <2>3. /\ call' \in [Threads -> CallType] /\ call'[t] = c
        /\ \A u \in Threads \ {t} : call'[u] = call[u]
    BY <1>2, <2>2
  <2>4. /\ call[t].at' = "find" /\ call[t].hi' = n - 1
        /\ UNCHANGED <<call[t].op, call[t].data, call[t].lo, call[t].mid,
                       call[t].diff, call[t].outer>>
    BY <2>1, <2>2, <2>3
  <2>5. call[t].lo = 0 /\ call[t].mid = 0 /\ call[t].diff = 0
    BY <1>1, <1>2 DEF PlaceOf
  <2>6. Inside(t)'
    BY <2>4 DEF Inside
  <2>7. PlaceOf(t)'
    BY <1>1, <1>2, <2>4 DEF PlaceOf, Inside
  <2>8. Narrowed(t)' /\ Found(t)'
    BY <1>2, <2>4, <2>5 DEF Narrowed, Found
  <2>9. call[t].mid' \in 0..n /\ call[t].hi' < n + 1
    BY <1>2, <2>4, <2>5
  <2>10. /\ (call[t].at = "loop")' => call[t].at = "loop"
         /\ call[t].op = "search" \/ ~should_not_be_modified
    BY <1>4, <2>4
  <2>11. QED
    BY <1>1, <1>2, <2>3, <2>4, <2>6, <2>7, <2>8, <2>9, <2>10, LocalStep
<1>5. QED
  BY <1>3, <1>4

\* The order of the array, by slots.
LEMMA SlotsOrdered ==
  ASSUME IInv, NEW i \in 0..(n - 1), NEW j \in 0..(n - 1), i < j
  PROVE  Key(Slot(i)) < Key(Slot(j))
<1>1. n \in Nat
  BY LenProperties DEF IInv, Sorted, TypeOK, n
<1>2. i + 1 \in 1..n /\ j + 1 \in 1..n /\ i + 1 < j + 1
  BY <1>1
<1>3. QED
  BY <1>2 DEF IInv, Sorted, Slot

\* A turn keeps the datum between lo and hi, as the array is sorted.
LEMMA BisectInv ==
  ASSUME IInv, NEW t \in Threads, Bisect(t), UNCHANGED thread_safe
  PROVE  IInv'
<1> DEFINE m == (call[t].hi + call[t].lo) \div 2
           d == Key(call[t].data) - Key(Slot(m))
<1>1. /\ call[t].at = "find" /\ call[t].lo <= call[t].hi
      /\ UNCHANGED <<elements, maximum_size, should_not_be_modified, alive, lockvars>>
      /\ call' = [call EXCEPT ![t].mid = m, ![t].diff = d,
                    ![t].lo = IF d > 0 THEN m + 1 ELSE @,
                    ![t].hi = IF d < 0 THEN m - 1 ELSE @,
                    ![t].at = IF d = 0 THEN "found" ELSE @]
  BY DEF Bisect, object
<1>2. /\ call \in [Threads -> CallType] /\ call[t] \in CallType
      /\ n \in Nat /\ maximum_size' \in Nat
      /\ call[t].lo \in Nat /\ call[t].hi \in Int
      /\ PlaceOf(t) /\ Narrowed(t) /\ n' = n
      /\ \A i \in 0..(n - 1) : Slot(i) \in Data /\ Key(Slot(i)) \in Int
  BY <1>1, Here DEF n
<1>3. /\ call[t].hi < n
      /\ \A i \in 0..(n - 1) : i < call[t].lo => Key(Slot(i)) < Key(call[t].data)
      /\ \A i \in 0..(n - 1) : i > call[t].hi => Key(Slot(i)) > Key(call[t].data)
      /\ call[t].op \in {"insert", "remove", "search"} /\ call[t].data \in Data
      /\ Key(call[t].data) \in Int
  BY <1>1, <1>2, DataKeyed DEF Narrowed, PlaceOf, Key
<1>4. m \in 0..(n - 1) /\ call[t].lo <= m /\ m <= call[t].hi
  BY <1>1, <1>2, <1>3
<1>5. d \in Int
  BY <1>2, <1>3, <1>4
<1> HIDE DEF m, d
<1>6. /\ call' \in [Threads -> CallType]
      /\ \A u \in Threads \ {t} : call'[u] = call[u]
      /\ call[t].mid' = m /\ call[t].diff' = d
      /\ call[t].lo' = IF d > 0 THEN m + 1 ELSE call[t].lo
      /\ call[t].hi' = IF d < 0 THEN m - 1 ELSE call[t].hi
      /\ call[t].at' = IF d = 0 THEN "found" ELSE "find"
      /\ UNCHANGED <<call[t].op, call[t].data, call[t].outer>>
  <2> DEFINE c == [call[t] EXCEPT !.mid = m, !.diff = d,
                     !.lo = IF d > 0 THEN m + 1 ELSE @,
                     !.hi = IF d < 0 THEN m - 1 ELSE @,
                     !.at = IF d = 0 THEN "found" ELSE @]
  <2>1. c \in CallType
    <3>1. /\ m \in Nat /\ m + 1 \in Nat /\ m - 1 \in Int
          /\ (IF d > 0 THEN m + 1 ELSE call[t].lo) \in Nat
          /\ (IF d < 0 THEN m - 1 ELSE call[t].hi) \in Int
      BY <1>2, <1>4
    <3>2. PICK lo \in Nat, hi \in Int, at \in {"found", "find"} :
            /\ lo = IF d > 0 THEN m + 1 ELSE call[t].lo
            /\ hi = IF d < 0 THEN m - 1 ELSE call[t].hi
            /\ at = IF d = 0 THEN "found" ELSE call[t].at
      BY <1>1, <3>1
    <3>3. c = [call[t] EXCEPT !.mid = m, !.diff = d, !.lo = lo, !.hi = hi,
                 !.at = at]
      BY <3>2
    <3>4. QED
      BY <1>2, <1>5, <3>1, <3>3, ZenonT(60) DEF CallType
  <2>2. /\ c.mid = m /\ c.diff = d
        /\ c.lo = IF d > 0 THEN m + 1 ELSE call[t].lo
        /\ c.hi = IF d < 0 THEN m - 1 ELSE call[t].hi
        /\ c.at = IF d = 0 THEN "found" ELSE call[t].at
        /\ c.op = call[t].op /\ c.data = call[t].data /\ c.outer = call[t].outer
    BY <1>2 DEF CallType
  <2>3. call' = [call EXCEPT ![t] = c]
    BY <1>1, <1>2
  <2> HIDE DEF c
  <2>4. /\ call' \in [Threads -> CallType] /\ call'[t] = c
        /\ \A u \in Threads \ {t} : call'[u] = call[u]
    BY <1>2, <2>1, <2>3
  <2>5. QED
    BY <1>1, <2>2, <2>4
<1>7. d = Key(call[t].data) - Key(Slot(m)) /\ Key(Slot(m)) \in Int
  BY <1>2, <1>4 DEF d
<1>8. /\ d > 0 => \A i \in 0..(n - 1) :
           i < m + 1 => Key(Slot(i)) < Key(call[t].data)
      /\ d < 0 => \A i \in 0..(n - 1) :
           i > m - 1 => Key(Slot(i)) > Key(call[t].data)
      /\ d = 0 => Key(Slot(m)) = Key(call[t].data)
  <2>1. ASSUME NEW i \in 0..(n - 1)
        PROVE  /\ i < m => Key(Slot(i)) < Key(Slot(m))
               /\ i > m => Key(Slot(i)) > Key(Slot(m))
               /\ Key(Slot(i)) \in Int
    <3>1. i < m => Key(Slot(i)) < Key(Slot(m))
      BY <1>4, SlotsOrdered
    <3>2. m < i => Key(Slot(m)) < Key(Slot(i))
      BY <1>4, SlotsOrdered
    <3>3. Key(Slot(i)) \in Int
      BY <1>2
    <3>4. i \in Int /\ m \in Int
      BY <1>2, <1>4
    <3>5. QED
      BY <1>7, <3>1, <3>2, <3>3, <3>4
  <2>2. QED
    BY <1>2, <1>3, <1>4, <1>7, <2>1
<1>9. Inside(t) /\ Inside(t)'
  BY <1>1, <1>6 DEF Inside
<1>10. PlaceOf(t)'
  <2>1. /\ call[t].at' \in {"found", "find"} /\ UNCHANGED thread_safe
        /\ UNCHANGED <<call[t].op, call[t].data, call[t].outer>>
    BY <1>6
  <2>2. PlaceOf(t) /\ call[t].at = "find" /\ Inside(t) /\ Inside(t)'
    BY <1>1, <1>2, <1>9
  <2>3. QED
    BY <2>1, <2>2, SMTT(30) DEF PlaceOf
<1>11. Narrowed(t)' /\ Found(t)'
  <2>1. n' = n /\ \A i : Slot(i)' = Slot(i)
    BY <1>1, <1>2 DEF Slot
  <2>2. n \in Nat /\ call[t].lo \in Nat /\ call[t].hi \in Int /\ m \in Int
    BY <1>2, <1>4
  <2>3. CASE d > 0
    <3>1. /\ call[t].at' = "find" /\ call[t].lo' = m + 1 /\ call[t].hi' = call[t].hi
          /\ call[t].mid' = m /\ call[t].diff' = d /\ call[t].data' = call[t].data
      BY <1>5, <1>6, <2>3
    <3>2. \A i \in 0..(n - 1) : i < m + 1 => Key(Slot(i)) < Key(call[t].data)
      BY <1>8, <2>3
    <3>3. Narrowed(t)'
      BY <1>3, <1>4, <1>5, <2>1, <2>2, <2>3, <3>1, <3>2, SMTT(30) DEF Narrowed
    <3>4. QED
      BY <3>1, <3>3 DEF Found
  <2>4. CASE d < 0
    <3>1. /\ call[t].at' = "find" /\ call[t].lo' = call[t].lo /\ call[t].hi' = m - 1
          /\ call[t].mid' = m /\ call[t].diff' = d /\ call[t].data' = call[t].data
      BY <1>5, <1>6, <2>4
    <3>2. \A i \in 0..(n - 1) : i > m - 1 => Key(Slot(i)) > Key(call[t].data)
      BY <1>8, <2>4
    <3>3. Narrowed(t)'
      BY <1>3, <1>4, <1>5, <2>1, <2>2, <2>4, <3>1, <3>2, SMTT(30) DEF Narrowed
    <3>4. QED
      BY <3>1, <3>3 DEF Found
  <2>5. CASE d = 0
    <3>1. /\ call[t].at' = "found" /\ call[t].hi' = call[t].hi
          /\ call[t].mid' = m /\ call[t].data' = call[t].data
      BY <1>6, <2>5
    <3>2. Key(Slot(m)) = Key(call[t].data)
      BY <1>8, <2>5
    <3>3. Narrowed(t)'
      BY <1>3, <2>1, <3>1 DEF Narrowed
    <3>4. m < n
      BY <1>2, <1>4
    <3>5. QED
      BY <2>1, <3>1, <3>2, <3>3, <3>4 DEF Found
  <2>6. QED
    BY <1>5, <2>3, <2>4, <2>5
<1>13. call[t].mid' \in 0..n /\ call[t].hi' < n + 1
  BY <1>2, <1>3, <1>4, <1>6
<1>14. (call[t].at = "loop")' => call[t].at = "loop"
  BY <1>6
<1>15. QED
  BY <1>1, <1>2, <1>6, <1>9, <1>10, <1>11, <1>13, <1>14, LocalStep

\* The range is empty: what is left of it is the insertion point.
LEMMA ExhaustedInv ==
  ASSUME IInv, NEW t \in Threads, Exhausted(t), UNCHANGED thread_safe
  PROVE  IInv'
<1>1. /\ call[t].at = "find" /\ call[t].lo > call[t].hi
      /\ call' = [call EXCEPT ![t].at = "missing"]
      /\ UNCHANGED <<elements, maximum_size, should_not_be_modified, alive, lockvars>>
      /\ Inside(t)
  BY DEF Exhausted, Goto, object, Inside
<1>2. /\ call \in [Threads -> CallType] /\ n \in Nat /\ maximum_size' \in Nat
      /\ call[t].lo \in Nat /\ call[t].hi \in Int /\ call[t].diff \in Int
      /\ call[t].mid \in 0..n /\ Narrowed(t) /\ n' = n
  BY <1>1, Here DEF n
<1>3. InsertionPoint(t) = call[t].lo
  BY <1>1, <1>2 DEF Narrowed, InsertionPoint
<1>4. /\ InsertionPoint(t) \in 0..n
      /\ \A i \in 0..(n - 1) :
           IF i < InsertionPoint(t) THEN Key(Slot(i)) < Key(call[t].data)
                                    ELSE Key(Slot(i)) > Key(call[t].data)
  BY <1>1, <1>2, <1>3 DEF Narrowed
<1>5. /\ call[t].at' = "missing"
      /\ UNCHANGED <<call[t].data, call[t].mid, call[t].diff>>
  BY <1>1, <1>2 DEF CallType
<1>6. InsertionPoint(t)' = InsertionPoint(t)
  BY <1>5 DEF InsertionPoint
<1>7. Found(t)'
  BY <1>1, <1>2, <1>4, <1>5, <1>6 DEF Found, Slot
<1>8. QED
  BY <1>1, <1>2, <1>7, MoveInv

\* The ends of search, of an insert that fails, and of trim.
LEMMA EndInv ==
  ASSUME IInv, NEW t \in Threads,
         SearchEnd(t) \/ InsertFails(t) \/ TrimEnd(t), UNCHANGED thread_safe
  PROVE  IInv'
<1>1. /\ call[t].at \in {"found", "missing", "start"}
      /\ call' = [call EXCEPT ![t].at = "unlock"]
      /\ UNCHANGED <<elements, should_not_be_modified, alive, lockvars>>
      /\ maximum_size' \in {maximum_size, call[t].lo}
  BY DEF SearchEnd, InsertFails, TrimEnd, Return, Goto, In, object
<1>2. maximum_size' \in Nat /\ Inside(t)
  BY <1>1, Here DEF Inside
<1>3. QED
  BY <1>1, <1>2, MoveInv


-----------------------------------------------------------------------------
(***************************************************************************)
(* The modifications, whose thread is alone inside.                        *)
(***************************************************************************)

\* The body of a modification ends: the array is still in order.
LEMMA ChangeInv ==
  ASSUME IInv, NEW t \in Threads,
         call[t].op \in {"insert", "remove"}, call[t].at \in {"found", "missing"},
         elements' \in Seq(Data), Ordered',
         call[t].mid \in 0..n', call[t].hi < n' + 1,
         maximum_size' \in Nat, call' = [call EXCEPT ![t].at = "unlock"],
         UNCHANGED <<thread_safe, should_not_be_modified, alive, lockvars>>
  PROVE  IInv'
<1>1. /\ call \in [Threads -> CallType] /\ PlaceOf(t)
      /\ UNCHANGED <<holds, writer, barred>>
  BY Here DEF lockvars
<1>2. /\ call' \in [Threads -> CallType]
      /\ \A u \in Threads \ {t} : call'[u] = call[u]
      /\ call[t].at' = "unlock"
      /\ UNCHANGED <<call[t].op, call[t].data, call[t].lo, call[t].hi,
                     call[t].mid, call[t].diff, call[t].outer>>
  BY <1>1, ZenonT(60) DEF CallType
<1>3. Inside(t) /\ Inside(t)' /\ call[t].op \in WriteOps
  BY <1>2 DEF Inside, WriteOps
<1>4. \A u \in Threads \ {t} : ~Inside(u)
  BY <1>3, Private
<1>5. alive /\ should_not_be_modified' \in BOOLEAN /\ barred' \in BOOLEAN
  BY <1>1, <1>3 DEF IInv, Sorted, TypeOK, Dead, Quiet, WriteOps
<1>6. LockOf' /\ holds' \in [Threads -> Int] /\ writer' \subseteq Threads
  <2>1. \A u \in Threads :
          /\ Reading(u)' = Reading(u) /\ Writing(u)' = Writing(u)
          /\ (call[u].outer = "traverse")' = (call[u].outer = "traverse")
    BY <1>2, <1>3 DEF Reading, Writing, Inside
  <2>2. QED
    BY <1>1, <2>1, LockKept
<1>7. Alone'
  BY <1>2, ZenonT(60) DEF IInv, Alone, Traversing, In
<1>8. PlaceOf(t)'
  BY <1>1, <1>2, <1>3 DEF PlaceOf, Inside
<1>9. Narrowed(t)' /\ Found(t)'
  BY <1>2 DEF Narrowed, Found
<1>10. call[t].mid' \in 0..n' /\ call[t].hi' < n' + 1
  BY <1>2
<1>11. QED
  BY <1>2, <1>4, <1>5, <1>6, <1>7, <1>8, <1>9, <1>10, Frame

\* An overwrite puts in a datum of the same key.
LEMMA OverwriteInv ==
  ASSUME IInv, NEW t \in Threads, InsertPresent(t), UNCHANGED thread_safe
  PROVE  IInv'
<1>1. /\ call[t].op = "insert" /\ call[t].at = "found"
      /\ \/ elements' = [elements EXCEPT ![call[t].mid + 1] = call[t].data]
         \/ UNCHANGED elements
      /\ call' = [call EXCEPT ![t].at = "unlock"]
      /\ UNCHANGED <<maximum_size, should_not_be_modified, alive, lockvars>>
  BY DEF InsertPresent, In, Return, Goto
<1>2. /\ elements \in Seq(Data) /\ n \in Nat /\ maximum_size' \in Nat
      /\ call[t].mid \in 0..n /\ call[t].hi < n + 1
      /\ call[t].mid < n /\ Key(Slot(call[t].mid)) = Key(call[t].data)
      /\ call[t].data \in Data
  BY <1>1, Here DEF Found, PlaceOf
<1>3. Ordered
  BY DEF IInv, Sorted, Ordered
<1>4. CASE UNCHANGED elements
  <2>1. n' = n /\ Ordered'
    BY <1>3, <1>4 DEF n, Ordered
  <2>2. QED
    BY <1>1, <1>2, <1>4, <2>1, ChangeInv
<1>5. CASE elements' = [elements EXCEPT ![call[t].mid + 1] = call[t].data]
  <2>0. call[t].mid + 1 \in 1..Len(elements)
    BY <1>2 DEF n
  <2>1. PICK i \in 1..Len(elements), d \in Data :
          i = call[t].mid + 1 /\ d = call[t].data
    BY <1>2, <2>0, Zenon
  <2>2. Key(elements[i]) = Key(d)
    BY <1>2, <2>1 DEF Slot
  <2>3. /\ elements' \in Seq(Data) /\ Len(elements') = Len(elements)
        /\ \A j \in 1..Len(elements) :
             elements'[j] = IF j = i THEN d ELSE elements[j]
    BY <1>2, <1>5, <2>1, Replaced
  <2>4. n' = n
    BY <2>3 DEF n
  <2>5. \A j \in 1..n : Key(elements'[j]) = Key(elements[j])
    BY <2>2, <2>3 DEF n
  <2>6. Ordered'
    BY <1>3, <2>4, <2>5 DEF Ordered
  <2>7. QED
    BY <1>1, <1>2, <2>3, <2>4, <2>6, ChangeInv
<1>6. QED
  BY <1>1, <1>4, <1>5

\* An insertion: what is smaller stays before the datum, what is larger
\* comes after it.
LEMMA InsertInv ==
  ASSUME IInv, NEW t \in Threads, InsertNew(t), UNCHANGED thread_safe
  PROVE  IInv'
<1>1. /\ call[t].op = "insert" /\ call[t].at = "missing"
      /\ elements' = InsertAt(elements, InsertionPoint(t) + 1, call[t].data)
      /\ maximum_size' \in {maximum_size, maximum_size + ExpansionSize}
      /\ call' = [call EXCEPT ![t].at = "unlock"]
      /\ UNCHANGED <<should_not_be_modified, alive, lockvars>>
  BY DEF InsertNew, In, Return, Goto
<1>2. /\ elements \in Seq(Data) /\ n \in Nat /\ maximum_size' \in Nat
      /\ call[t].mid \in 0..n /\ call[t].hi < n + 1
      /\ InsertionPoint(t) \in 0..n
      /\ \A i \in 0..(n - 1) :
           IF i < InsertionPoint(t) THEN Key(Slot(i)) < Key(call[t].data)
                                    ELSE Key(Slot(i)) > Key(call[t].data)
      /\ \A i \in 0..(n - 1) : Key(Slot(i)) \in Int
      /\ call[t].data \in Data
  BY <1>1, Here, SizesLegal DEF Found, PlaceOf
<1>3. Ordered
  BY DEF IInv, Sorted, Ordered
<1>4. PICK i \in 1..(Len(elements) + 1), d \in Data :
        i = InsertionPoint(t) + 1 /\ d = call[t].data
  <2>1. InsertionPoint(t) + 1 \in 1..(Len(elements) + 1)
    BY <1>2 DEF n
  <2>2. QED
    BY <1>2, <2>1, Zenon
<1>5. /\ elements' \in Seq(Data) /\ Len(elements') = Len(elements) + 1
      /\ \A j \in 1..(Len(elements) + 1) :
           elements'[j] = IF j < i THEN elements[j]
                          ELSE IF j = i THEN d ELSE elements[j - 1]
  <2>1. elements' = InsertAt(elements, i, d)
    BY <1>1, <1>4
  <2>2. /\ InsertAt(elements, i, d) \in Seq(Data)
        /\ Len(InsertAt(elements, i, d)) = Len(elements) + 1
        /\ \A j \in 1..(Len(elements) + 1) :
             InsertAt(elements, i, d)[j] = IF j < i THEN elements[j]
                                           ELSE IF j = i THEN d ELSE elements[j - 1]
    BY <1>2, Inserted
  <2>3. QED
    BY <2>1, <2>2, Zenon
<1>6. n' = n + 1 /\ i \in 1..(n + 1)
  BY <1>5 DEF n
<1>7. ASSUME NEW j \in 1..n
      PROVE  /\ j < i => Key(elements[j]) < Key(d)
             /\ j >= i => Key(d) < Key(elements[j])
             /\ Key(elements[j]) \in Int
  <2>1. j - 1 \in 0..(n - 1) /\ (j - 1) + 1 = j /\ i - 1 = InsertionPoint(t)
    <3>1. n \in Nat /\ InsertionPoint(t) \in Nat
      BY <1>2
    <3>2. i = InsertionPoint(t) + 1
      BY <1>4
    <3>3. QED
      BY <3>1, <3>2
  <2>2. Slot(j - 1) = elements[j]
    BY <2>1 DEF Slot
  <2>3. /\ j - 1 < i - 1 => Key(elements[j]) < Key(d)
        /\ ~(j - 1 < i - 1) => Key(elements[j]) > Key(d)
        /\ Key(elements[j]) \in Int
    BY <1>2, <1>4, <2>1, <2>2
  <2>4. Key(d) \in Int
    BY DataKeyed DEF Key
  <2>5. /\ j < i => j - 1 < i - 1
        /\ j >= i => ~(j - 1 < i - 1)
    BY <1>2, <1>6
  <2>6. QED
    BY <2>3, <2>4, <2>5
<1>8. Key(d) \in Int
  BY DataKeyed DEF Key
<1>9. ASSUME NEW j \in 1..(n + 1), NEW k \in 1..(n + 1), j < k
      PROVE  Key(elements'[j]) < Key(elements'[k])
  <2>1. /\ elements'[j] = IF j < i THEN elements[j]
                          ELSE IF j = i THEN d ELSE elements[j - 1]
        /\ elements'[k] = IF k < i THEN elements[k]
                          ELSE IF k = i THEN d ELSE elements[k - 1]
    BY <1>5 DEF n
  <2>2. CASE k < i
    <3>1. j \in 1..n /\ k \in 1..n /\ j < i
      BY <1>2, <1>6, <1>9, <2>2
    <3>2. elements'[j] = elements[j] /\ elements'[k] = elements[k]
      BY <2>1, <2>2, <3>1
    <3>3. QED
      BY <1>3, <1>9, <3>1, <3>2 DEF Ordered
  <2>3. CASE k = i
    <3>1. j \in 1..n /\ j < i /\ ~(k < i)
      BY <1>2, <1>6, <1>9, <2>3
    <3>2. elements'[j] = elements[j] /\ elements'[k] = d
      BY <2>1, <2>3, <3>1
    <3>3. QED
      BY <1>7, <3>1, <3>2
  <2>4. CASE k > i
    <3>1. k - 1 \in 1..n /\ k - 1 >= i /\ ~(k < i) /\ k # i
      BY <1>2, <1>6, <2>4
    <3>2. elements'[k] = elements[k - 1]
      BY <2>1, <3>1
    <3>3. CASE j < i
      <4>1. j \in 1..n /\ j < k - 1
        BY <1>2, <1>6, <2>4, <3>3
      <4>2. elements'[j] = elements[j]
        BY <2>1, <3>3
      <4>3. QED
        BY <1>3, <3>1, <3>2, <4>1, <4>2 DEF Ordered
    <3>4. CASE j = i
      <4>1. ~(j < i)
        BY <1>2, <1>6, <3>4
      <4>2. elements'[j] = d
        BY <2>1, <3>4, <4>1
      <4>3. QED
        BY <1>7, <3>1, <3>2, <4>2
    <3>5. CASE j > i
      <4>1. j - 1 \in 1..n /\ j - 1 < k - 1 /\ ~(j < i) /\ j # i
        BY <1>2, <1>6, <1>9, <3>5
      <4>2. elements'[j] = elements[j - 1]
        BY <2>1, <4>1
      <4>3. QED
        BY <1>3, <3>1, <3>2, <4>1, <4>2 DEF Ordered
    <3>6. QED
      BY <1>2, <1>6, <3>3, <3>4, <3>5
  <2>5. QED
    BY <1>2, <1>6, <2>2, <2>3, <2>4
<1>10. Ordered'
  BY <1>6, <1>9 DEF Ordered
<1>11. call[t].mid \in 0..n' /\ call[t].hi < n' + 1
  BY <1>2, <1>6, Here
<1>12. QED
  BY <1>1, <1>2, <1>5, <1>10, <1>11, ChangeInv

\* A removal takes one out and leaves the order of the others.
LEMMA RemoveInv ==
  ASSUME IInv, NEW t \in Threads, RemoveEnd(t), UNCHANGED thread_safe
  PROVE  IInv'
<1>1. /\ call[t].op = "remove"
      /\ \/ /\ call[t].at = "found"
            /\ elements' = RemoveAt(elements, call[t].mid + 1)
         \/ call[t].at = "missing" /\ UNCHANGED elements
      /\ call' = [call EXCEPT ![t].at = "unlock"]
      /\ UNCHANGED <<maximum_size, should_not_be_modified, alive, lockvars>>
  BY DEF RemoveEnd, Return, Goto
<1>2. /\ elements \in Seq(Data) /\ n \in Nat /\ maximum_size' \in Nat
      /\ call[t].mid \in 0..n /\ call[t].hi < n + 1 /\ call[t].hi \in Int
      /\ Found(t) /\ Narrowed(t)
  BY <1>1, Here
<1>3. Ordered
  BY DEF IInv, Sorted, Ordered
<1>4. CASE call[t].at = "missing" /\ UNCHANGED elements
  <2>1. n' = n /\ Ordered'
    BY <1>3, <1>4 DEF n, Ordered
  <2>2. QED
    BY <1>1, <1>2, <1>4, <2>1, ChangeInv
<1>5. CASE call[t].at = "found" /\ elements' = RemoveAt(elements, call[t].mid + 1)
  <2>1. call[t].mid < n /\ call[t].hi < n
    BY <1>2, <1>5 DEF Found, Narrowed
  <2>2. PICK i \in 1..Len(elements) : i = call[t].mid + 1
    BY <1>2, <2>1 DEF n
  <2>3. /\ elements' \in Seq(Data) /\ Len(elements') = Len(elements) - 1
        /\ \A j \in 1..(Len(elements) - 1) :
             elements'[j] = IF j < i THEN elements[j] ELSE elements[j + 1]
    BY <1>2, <1>5, <2>2, Removed
  <2>4. n' = n - 1
    BY <2>3 DEF n
  <2>5. ASSUME NEW j \in 1..(n - 1), NEW k \in 1..(n - 1), j < k
        PROVE  Key(elements'[j]) < Key(elements'[k])
    <3>1. /\ elements'[j] = IF j < i THEN elements[j] ELSE elements[j + 1]
          /\ elements'[k] = IF k < i THEN elements[k] ELSE elements[k + 1]
      BY <2>3 DEF n
    <3>2. PICK a \in 1..n, b \in 1..n :
            /\ a = IF j < i THEN j ELSE j + 1
            /\ b = IF k < i THEN k ELSE k + 1
      BY <1>2
    <3>3. elements'[j] = elements[a] /\ elements'[k] = elements[b]
      BY <3>1, <3>2
    <3>4. a < b
      BY <1>2, <2>2, <2>5, <3>2
    <3>5. QED
      BY <1>3, <3>3, <3>4 DEF Ordered
  <2>6. Ordered'
    BY <2>4, <2>5 DEF Ordered
  <2>7. call[t].mid \in 0..n' /\ call[t].hi < n' + 1
    BY <1>2, <2>1, <2>4
  <2>8. QED
    BY <1>1, <1>2, <1>5, <2>3, <2>6, <2>7, ChangeInv
<1>6. QED
  BY <1>1, <1>4, <1>5


-----------------------------------------------------------------------------
(***************************************************************************)
(* Traverse, trim and reset.                                               *)
(***************************************************************************)

\* The flag goes up for the traversal and comes down after it; without a
\* lock there is no other traversal to keep it up for.
LEMMA TraverseInv ==
  ASSUME IInv, NEW t \in Threads, TraverseStart(t) \/ TraverseEnd(t),
         UNCHANGED thread_safe
  PROVE  IInv'
<1>1. PICK p \in {"loop", "unlock"} :
        /\ call[t].op = "traverse"
        /\ p = "loop" => call[t].at = "start" /\ should_not_be_modified' = TRUE
        /\ p = "unlock" => call[t].at = "loop" /\ should_not_be_modified' = FALSE
        /\ call' = [call EXCEPT ![t].at = p]
        /\ UNCHANGED <<elements, maximum_size, alive, lockvars>>
  BY DEF TraverseStart, TraverseEnd, In, Return, Goto
<1>2. /\ call \in [Threads -> CallType] /\ PlaceOf(t) /\ n' = n
      /\ call[t].mid \in 0..n /\ call[t].hi < n + 1 /\ maximum_size' \in Nat
      /\ UNCHANGED <<holds, writer, barred>>
  BY <1>1, Here DEF lockvars, n
<1>3. /\ call' \in [Threads -> CallType]
      /\ \A u \in Threads \ {t} : call'[u] = call[u]
      /\ call[t].at' = p
      /\ UNCHANGED <<call[t].op, call[t].data, call[t].lo, call[t].hi,
                     call[t].mid, call[t].diff, call[t].outer>>
  BY <1>1, <1>2 DEF CallType
<1>4. Inside(t) /\ Inside(t)' /\ call[t].op \in ReadOps
  BY <1>1, <1>3 DEF Inside, ReadOps
<1>5. alive /\ should_not_be_modified' \in BOOLEAN /\ barred' \in BOOLEAN
  BY <1>1, <1>2 DEF IInv, Sorted, TypeOK, Dead, Quiet
<1>6. LockOf' /\ holds' \in [Threads -> Int] /\ writer' \subseteq Threads
  <2>1. \A u \in Threads :
          /\ Reading(u)' = Reading(u) /\ Writing(u)' = Writing(u)
          /\ (call[u].outer = "traverse")' = (call[u].outer = "traverse")
    BY <1>3, <1>4 DEF Reading, Writing, Inside
  <2>2. QED
    BY <1>2, <2>1, LockKept
<1>7. Alone'
  <2> SUFFICES ASSUME ~thread_safe
               PROVE  Alone'
    BY DEF Alone
  <2>1. \A u \in Threads : call[u].op # "none" => Calls[FALSE][u] # {}
    BY DEF IInv, Alone
  <2>2. ASSUME NEW u \in Threads \ {t}
        PROVE  call[u].op = "none" /\ call[u].at = "out" /\ call[u].outer = "none"
    <3>1. call[u].op = "none"
      BY <1>1, <2>1, UnlockedAlone
    <3>2. QED
      BY <3>1 DEF IInv, PlaceOf
  <2>3. call[t].outer # "traverse"
    BY <1>1, <1>2 DEF PlaceOf
  <2>4. Traversing(t)' => should_not_be_modified'
    BY <1>1, <1>3, <2>3 DEF Traversing, In
  <2>5. \A u \in Threads \ {t} : ~Traversing(u)'
    BY <1>3, <2>2 DEF Traversing, In
  <2>6. QED
    BY <1>3, <2>1, <2>2, <2>3, <2>4, <2>5, ZenonT(60) DEF Alone
<1>8. PlaceOf(t)' /\ Narrowed(t)' /\ Found(t)'
  BY <1>1, <1>2, <1>3, <1>4 DEF PlaceOf, Inside, Narrowed, Found
<1>9. call[t].mid' \in 0..n' /\ call[t].hi' < n' + 1
  BY <1>2, <1>3
<1>10. QED
  BY <1>1, <1>2, <1>3, <1>5, <1>6, <1>7, <1>8, <1>9, Frame

LEMMA TraverseNextInv ==
  ASSUME IInv, NEW t \in Threads, TraverseNext(t), UNCHANGED thread_safe
  PROVE  IInv'
<1>1. /\ call[t].op = "traverse" /\ call[t].at = "loop"
      /\ call' = [call EXCEPT ![t].pos = @ + 1]
      /\ UNCHANGED <<elements, maximum_size, should_not_be_modified, alive, lockvars>>
  BY DEF TraverseNext, In, object
<1>2. /\ call \in [Threads -> CallType] /\ PlaceOf(t)
      /\ call[t].mid \in 0..n /\ call[t].hi < n + 1 /\ maximum_size' \in Nat
  BY <1>1, Here
<1>3. /\ call' \in [Threads -> CallType]
      /\ \A u \in Threads \ {t} : call'[u] = call[u]
      /\ UNCHANGED <<call[t].at, call[t].op, call[t].data, call[t].lo, call[t].hi,
                     call[t].mid, call[t].diff, call[t].outer>>
  BY <1>1, <1>2 DEF CallType
<1>4. Inside(t) /\ Inside(t)'
  BY <1>1, <1>3 DEF Inside
<1>5. PlaceOf(t)' /\ Narrowed(t)' /\ Found(t)'
  BY <1>1, <1>2, <1>3 DEF PlaceOf, Inside, Narrowed, Found
<1>6. call[t].mid' \in 0..n /\ call[t].hi' < n + 1
  BY <1>2, <1>3
<1>7. QED
  BY <1>1, <1>2, <1>3, <1>4, <1>5, <1>6, LocalStep

\* Trim computes its size and goes on to the lock.
LEMMA TrimSizeInv ==
  ASSUME IInv, NEW t \in Threads, TrimSize(t), UNCHANGED thread_safe
  PROVE  IInv'
<1>1. PICK k \in Nat :
        /\ call[t].op = "trim" /\ call[t].at = "size"
        /\ call' = [call EXCEPT ![t].at = "lock", ![t].lo = k]
        /\ UNCHANGED <<elements, maximum_size, should_not_be_modified, alive, lockvars>>
  <2>1. n + INDEX_OBJ_BLOAT \in Nat
    BY Here, SizesLegal
  <2>2. QED
    BY <2>1 DEF TrimSize, In, object
<1>2. /\ call \in [Threads -> CallType] /\ PlaceOf(t) /\ n' = n
      /\ call[t].mid \in 0..n /\ call[t].hi < n + 1 /\ maximum_size' \in Nat
      /\ UNCHANGED <<holds, writer, barred>>
  BY <1>1, Here DEF lockvars, n
<1> DEFINE c == [call[t] EXCEPT !.at = "lock", !.lo = k]
<1>3. /\ c \in CallType /\ c.at = "lock" /\ c.op = "trim" /\ c.hi = call[t].hi
      /\ c.mid = call[t].mid /\ c.diff = call[t].diff
      /\ c.outer = call[t].outer /\ c.data = call[t].data
      /\ call' = [call EXCEPT ![t] = c]
  BY <1>1, <1>2 DEF CallType
<1> HIDE DEF c
<1>4. /\ call' \in [Threads -> CallType] /\ call'[t] = c
      /\ \A u \in Threads \ {t} : call'[u] = call[u]
  BY <1>2, <1>3
<1>5. alive /\ should_not_be_modified' \in BOOLEAN /\ barred' \in BOOLEAN
  BY <1>1, <1>2 DEF IInv, Sorted, TypeOK, Dead, Quiet
<1>6. LockOf' /\ holds' \in [Threads -> Int] /\ writer' \subseteq Threads
  <2>1. \A u \in Threads :
          /\ Reading(u)' = Reading(u) /\ Writing(u)' = Writing(u)
          /\ (call[u].outer = "traverse")' = (call[u].outer = "traverse")
    BY <1>1, <1>3, <1>4 DEF Reading, Writing, Inside
  <2>2. QED
    BY <1>2, <2>1, LockKept
<1>7. Alone'
  <2>1. \A u \in Threads :
          /\ call'[u].op = call[u].op /\ call'[u].outer = call[u].outer
          /\ call'[u].at # call[u].at => call'[u].at = "lock"
    BY <1>1, <1>3, <1>4
  <2>2. \A u \in Threads : Traversing(u)' => Traversing(u)
    BY <2>1 DEF Traversing, In
  <2>3. QED
    BY <1>1, <2>1, <2>2, ZenonT(60) DEF IInv, Alone
<1>8. PlaceOf(t)' /\ Narrowed(t)' /\ Found(t)'
  BY <1>1, <1>2, <1>3, <1>4 DEF PlaceOf, Inside, Narrowed, Found
<1>9. call[t].mid' \in 0..n' /\ call[t].hi' < n' + 1
  BY <1>2, <1>3, <1>4
<1>10. QED
  BY <1>1, <1>2, <1>4, <1>5, <1>6, <1>7, <1>8, <1>9, Frame

\* Reset goes into trim with the write lock, and nobody else inside.
LEMMA ResetInv ==
  ASSUME IInv, NEW t \in Threads, Reset(t), UNCHANGED thread_safe
  PROVE  IInv'
<1> DEFINE c == [Enter("trim", <<0, 0>>) EXCEPT !.outer = "reset"]
<1>1. /\ call[t].op = "reset" /\ call[t].at = "start" /\ call[t].outer = "none"
      /\ elements' = <<>>
      /\ call' = [call EXCEPT ![t] = c]
      /\ UNCHANGED <<maximum_size, should_not_be_modified, alive, holds, writer,
                     barred>>
  BY DEF Reset, In, lockvars
<1>2. /\ call \in [Threads -> CallType] /\ maximum_size' \in Nat
  BY <1>1, Here
<1>3. /\ c \in CallType /\ c.op = "trim" /\ c.at = "size" /\ c.hi = 0 /\ c.mid = 0
      /\ c.diff = 0 /\ c.outer = "reset"
  <2>1. /\ Idle \in CallType /\ Idle.data = <<0, 0>> /\ Idle.hi = 0
        /\ Idle.mid = 0 /\ Idle.diff = 0
    BY DEF Idle, CallType
  <2>2. c = [[Idle EXCEPT !.op = "trim", !.data = <<0, 0>>, !.at = "size"]
               EXCEPT !.outer = "reset"]
    BY DEF Enter
  <2> HIDE DEF c
  <2>3. QED
    BY <2>1, <2>2 DEF CallType, Ops, WriteOps
<1> HIDE DEF c
<1>4. /\ call' \in [Threads -> CallType] /\ call'[t] = c
      /\ \A u \in Threads \ {t} : call'[u] = call[u]
  BY <1>1, <1>2, <1>3
<1>5. Inside(t) /\ call[t].op \in WriteOps
  BY <1>1 DEF Inside, WriteOps
<1>6. \A u \in Threads \ {t} : ~Inside(u)
  BY <1>5, Private
<1>7. alive /\ should_not_be_modified' \in BOOLEAN /\ barred' \in BOOLEAN
  BY <1>1 DEF IInv, Sorted, TypeOK, Dead, Quiet
<1>8. LockOf' /\ holds' \in [Threads -> Int] /\ writer' \subseteq Threads
  <2>1. \A u \in Threads :
          /\ Reading(u)' = Reading(u) /\ Writing(u)' = Writing(u)
          /\ (call[u].outer = "traverse")' = (call[u].outer = "traverse")
    BY <1>1, <1>3, <1>4, <1>5 DEF Reading, Writing, Inside, ReadOps, WriteOps
  <2>2. QED
    BY <1>1, <2>1, LockKept
<1>9. Alone'
  BY <1>1, <1>3, <1>4 DEF IInv, Alone, Traversing, In
<1>10. PlaceOf(t)' /\ Narrowed(t)' /\ Found(t)'
  BY <1>3, <1>4 DEF PlaceOf, Inside, Narrowed, Found
<1>11. n' = 0 /\ elements' \in Seq(Data) /\ Ordered'
  BY <1>1 DEF n, Ordered
<1>12. call[t].mid' \in 0..n' /\ call[t].hi' < n' + 1
  BY <1>3, <1>4, <1>11
<1>13. QED
  BY <1>1, <1>2, <1>4, <1>6, <1>7, <1>8, <1>9, <1>10, <1>11, <1>12, Frame

LEMMA StepInv == IInv /\ [Next]_vars => IInv'
<1> SUFFICES ASSUME IInv, [Next]_vars PROVE IInv'
  OBVIOUS
<1>1. CASE (Destroy /\ UNCHANGED thread_safe) \/ Create
  BY <1>1, LifeInv
<1>2. ASSUME NEW t \in Threads, Step(t), UNCHANGED thread_safe
      PROVE  IInv'
  <2>1. CASE \E f \in Ops, d \in Data : Call(t, f, d) \/ CallbackCall(t, f, d)
    BY <1>2, <2>1, CallInv, CallbackInv
  <2>2. CASE LockRead(t) \/ LockWrite(t)
    BY <1>2, <2>2, LockInv
  <2>3. CASE Body(t)
    BY <1>2, <2>3, StartInv, BisectInv, ExhaustedInv, EndInv, OverwriteInv,
      InsertInv, RemoveInv, TraverseInv, TraverseNextInv, TrimSizeInv, ResetInv,
      UnlockInv, AnnounceInv DEF Body
  <2>4. QED
    BY <1>2, <2>1, <2>2, <2>3 DEF Step
<1>3. CASE UNCHANGED vars
  <2>1. UNCHANGED <<thread_safe, elements, maximum_size, should_not_be_modified,
                    alive, holds, writer, barred, call>>
    BY <1>3 DEF vars, object, lockvars
  <2>2. Sorted'
    BY <2>1 DEF IInv, Sorted, TypeOK, n
  <2>3. LockOf'
    BY <2>1 DEF IInv, LockOf, Lock!NoReaders, ReadLocks, Reading, Writing, Inside
  <2>4. \A t \in Threads : PlaceOf(t)' /\ Narrowed(t)' /\ Found(t)'
    BY <2>1 DEF IInv, PlaceOf, Inside, Narrowed, Found, InsertionPoint, Slot, n
  <2>5. Alone' /\ Dead'
    BY <2>1 DEF IInv, Alone, Dead, Quiet, Traversing, In
  <2>6. QED
    BY <2>2, <2>3, <2>4, <2>5 DEF IInv
<1>4. QED
  BY <1>1, <1>2, <1>3 DEF Next

\* The inductive invariant holds in every reachable state.
THEOREM Invariance == Spec => []IInv
BY InitInv, StepInv, PTL DEF Spec

-----------------------------------------------------------------------------
(***************************************************************************)
(* The properties, and the set of data.                                    *)
(***************************************************************************)

\* The array is sorted with one datum for a key at every step, whoever
\* inserts, removes and traverses.
THEOREM AlwaysSorted == Spec => []Sorted
BY Invariance, PTL DEF IInv

\* What bisection found, and the place it leaves for an insertion, are right
\* for the array as it is when they are used.
THEOREM BisectionSound == Spec => []FindSound
<1>1. IInv => FindSound
  BY DEF IInv, FindSound, Found
<1>2. QED
  BY <1>1, Invariance, PTL

\* No step changes the array between the first and the last element of a
\* traversal: the lock keeps other threads out, the flag the callbacks.
THEOREM TraversalsStand == Spec => TraversalUndisturbed
<1> DEFINE Moving == \E t \in Threads : Traversing(t)
<1>1. IInv /\ [Next]_vars => [Moving => UNCHANGED elements]_vars
  <2> SUFFICES ASSUME IInv, Next, NEW u \in Threads, Traversing(u)
               PROVE  UNCHANGED elements
    OBVIOUS
  <2>1. call[u].op # "none" /\ ~Quiet /\ alive
    BY DEF IInv, PlaceOf, Traversing, In, Quiet, Dead
  <2>2. PICK t \in Threads : Step(t)
    BY <2>1 DEF Next, Destroy, Create
  <2>3. CASE call[t].at \in {"found", "missing"} /\ call[t].op \in {"insert", "remove"}
    <3>1. Inside(t) /\ call[t].op \in WriteOps
      BY <2>3 DEF Inside, WriteOps
    <3>2. u = t
      <4>1. u # t => ~Inside(u) /\ call[u].outer = "none"
        BY <3>1, Private
      <4>2. QED
        BY <4>1 DEF Traversing, In, Inside
    <3>3. call[t].outer = "traverse"
      BY <2>3, <3>2 DEF Traversing, In
    <3>4. CASE thread_safe
      BY <2>3, <3>1, <3>3, <3>4 DEF IInv, PlaceOf, ReadOps
    <3>5. CASE ~thread_safe
      BY <2>3, <3>3, <3>5 DEF IInv, Alone
    <3>6. QED
      BY <3>4, <3>5
  <2>4. CASE call[t].at = "start" /\ call[t].op = "reset" /\ call[t].outer = "none"
    <3>1. Inside(t) /\ call[t].op \in WriteOps
      BY <2>4 DEF Inside, WriteOps
    <3>2. u # t => ~Inside(u) /\ call[u].outer = "none"
      BY <3>1, Private
    <3>3. QED
      BY <2>4, <3>2 DEF Traversing, In, Inside
  <2>5. CASE /\ ~(call[t].at \in {"found", "missing"}
                    /\ call[t].op \in {"insert", "remove"})
             /\ ~(call[t].at = "start" /\ call[t].op = "reset"
                    /\ call[t].outer = "none")
    BY <2>2, <2>5 DEF Step, Call, CallbackCall, LockRead, LockWrite, Body, Start,
      Bisect, Exhausted, SearchEnd, InsertPresent, InsertFails, InsertNew,
      RemoveEnd, TraverseStart, TraverseNext, TraverseEnd, TrimSize, TrimEnd,
      Reset, Unlock, Announce, In, object
  <2>6. QED
    BY <2>3, <2>4, <2>5
<1>2. QED
  BY <1>1, Invariance, PTL DEF Spec, TraversalUndisturbed


\* The data of one key: at most one, where bisection finds it.
LEMMA OneOfAKey ==
  ASSUME IInv, NEW d \in Data
  PROVE  /\ \A i \in 1..n : Key(elements[i]) = Key(d) =>
              /\ Abstract!SameKey(d) = {elements[i]}
              /\ {elements[j] : j \in (1..n) \ {i}}
                   = ToSet(elements) \ Abstract!SameKey(d)
         /\ (\A i \in 1..n : Key(elements[i]) # Key(d)) => Abstract!SameKey(d) = {}
<1>1. elements \in Seq(Data) /\ n \in Nat /\ DOMAIN elements = 1..n
  BY LenProperties DEF IInv, Sorted, TypeOK, n
<1>2. ToSet(elements) = {elements[j] : j \in 1..n}
  BY <1>1 DEF ToSet
<1>3. \A j \in 1..n : Key(elements[j]) \in Int
  BY <1>1, DataKeyed DEF Key
<1>4. \A i, j \in 1..n : Key(elements[i]) = Key(elements[j]) => i = j
  BY <1>1, <1>3 DEF IInv, Sorted
<1>5. Abstract!SameKey(d) = {e \in ToSet(elements) : Key(e) = Key(d)}
  BY DEF Abstract!SameKey, Key
<1>6. ASSUME NEW i \in 1..n, Key(elements[i]) = Key(d)
      PROVE  /\ Abstract!SameKey(d) = {elements[i]}
             /\ {elements[j] : j \in (1..n) \ {i}}
                  = ToSet(elements) \ Abstract!SameKey(d)
  <2>1. \A j \in 1..n : Key(elements[j]) = Key(d) <=> j = i
    BY <1>4, <1>6
  <2>2. Abstract!SameKey(d) = {elements[i]}
    BY <1>2, <1>5, <2>1
  <2>3. \A j \in 1..n : elements[j] = elements[i] => j = i
    BY <1>4
  <2>4. QED
    BY <1>2, <2>2, <2>3
<1>7. QED
  BY <1>2, <1>5, <1>6

\* Every step of the code is one whole change of the set, or none.
LEMMA StepRefines ==
  ASSUME IInv, [Next]_vars
  PROVE  Abstract!IndexNext \/ ToSet(elements)' = ToSet(elements)
<1>1. CASE elements' = elements
  BY <1>1
<1>2. CASE elements' = <<>>
  BY <1>2, ElementsOfEmpty DEF Abstract!IndexNext, Abstract!Empty
<1>3. ASSUME NEW t \in Threads, InsertNew(t)
      PROVE  Abstract!IndexNext
  <2>1. /\ call[t].op = "insert" /\ call[t].at = "missing"
        /\ elements' = InsertAt(elements, InsertionPoint(t) + 1, call[t].data)
    BY <1>3 DEF InsertNew, In
  <2>2. /\ elements \in Seq(Data) /\ n \in Nat /\ call[t].data \in Data
        /\ InsertionPoint(t) \in 0..n
        /\ \A i \in 0..(n - 1) :
             IF i < InsertionPoint(t) THEN Key(Slot(i)) < Key(call[t].data)
                                      ELSE Key(Slot(i)) > Key(call[t].data)
        /\ \A i \in 0..(n - 1) : Key(Slot(i)) \in Int
    BY <2>1, Here DEF Found, PlaceOf
  <2>3. PICK i \in 1..(Len(elements) + 1), d \in Data :
          i = InsertionPoint(t) + 1 /\ d = call[t].data
    BY <2>2 DEF n
  <2>4. ToSet(InsertAt(elements, i, d)) = ToSet(elements) \cup {d}
    BY <2>2, Inserted
  <2>5. \A j \in 1..n : Key(elements[j]) # Key(d)
    <3>1. ASSUME NEW j \in 1..n
          PROVE  Key(elements[j]) # Key(d)
      <4>1. j - 1 \in 0..(n - 1) /\ (j - 1) + 1 = j
        BY <2>2
      <4>2. Slot(j - 1) = elements[j]
        BY <4>1 DEF Slot
      <4>3. Key(d) \in Int
        BY DataKeyed DEF Key
      <4>4. QED
        BY <2>2, <2>3, <4>1, <4>2, <4>3
    <3>2. QED
      BY <3>1
  <2>6. Abstract!SameKey(d) = {}
    BY <2>5, OneOfAKey
  <2>7. Abstract!Put(d)
    BY <2>1, <2>3, <2>4, <2>6 DEF Abstract!Put
  <2>8. QED
    BY <2>7 DEF Abstract!IndexNext
<1>4. ASSUME NEW t \in Threads, InsertPresent(t) \/ RemoveEnd(t),
             elements' # elements
      PROVE  Abstract!IndexNext
  <2>1. /\ call[t].op \in {"insert", "remove"} /\ call[t].at = "found"
        /\ \/ elements' = [elements EXCEPT ![call[t].mid + 1] = call[t].data]
           \/ elements' = RemoveAt(elements, call[t].mid + 1)
    BY <1>4 DEF InsertPresent, RemoveEnd, In
  <2>2. /\ elements \in Seq(Data) /\ n \in Nat /\ call[t].data \in Data
        /\ call[t].mid \in 0..n /\ call[t].mid < n
        /\ Key(Slot(call[t].mid)) = Key(call[t].data)
    BY <2>1, Here DEF Found, PlaceOf
  <2>3. PICK i \in 1..Len(elements), d \in Data :
          i = call[t].mid + 1 /\ d = call[t].data
    <3>1. call[t].mid + 1 \in 1..Len(elements)
      BY <2>2 DEF n
    <3>2. QED
      BY <2>2, <3>1
  <2>4. Key(elements[i]) = Key(d) /\ i \in 1..n
    BY <2>2, <2>3 DEF Slot, n
  <2>5. /\ Abstract!SameKey(d) = {elements[i]}
        /\ {elements[j] : j \in (1..n) \ {i}}
             = ToSet(elements) \ Abstract!SameKey(d)
    BY <2>4, OneOfAKey
  <2>6. ToSet([elements EXCEPT ![i] = d])
          = {elements[j] : j \in (1..n) \ {i}} \cup {d}
    BY <2>2, Replaced DEF n
  <2>7. ToSet(RemoveAt(elements, i)) = {elements[j] : j \in (1..n) \ {i}}
    <3>1. ToSet(RemoveAt(elements, i))
            = {elements[j] : j \in (1..Len(elements)) \ {i}}
      BY <2>2, Removed
    <3>2. QED
      BY <3>1 DEF n
  <2>8. Abstract!Replace(d) \/ Abstract!Delete(d)
    BY <2>1, <2>3, <2>5, <2>6, <2>7 DEF Abstract!Replace, Abstract!Delete
  <2>9. QED
    BY <2>8 DEF Abstract!IndexNext
<1>5. CASE UNCHANGED vars
  BY <1>1, <1>5 DEF vars, object
<1>6. CASE Destroy \/ Create
  BY <1>1, <1>2, <1>6 DEF Destroy, Create
<1>7. ASSUME NEW t \in Threads, Step(t)
      PROVE  \/ elements' = elements \/ elements' = <<>>
             \/ InsertNew(t) \/ InsertPresent(t) \/ RemoveEnd(t)
  BY <1>7 DEF Step, Call, CallbackCall, LockRead, LockWrite, Body, Start,
    Bisect, Exhausted, SearchEnd, InsertFails, TraverseStart, TraverseNext,
    TraverseEnd, TrimSize, TrimEnd, Reset, Unlock, Announce, object
<1>8. QED
  BY <1>1, <1>2, <1>3, <1>4, <1>5, <1>6, <1>7 DEF Next

\* The index implements the set of data with one datum for a key: no step of
\* another thread or of a callback is seen half done.
THEOREM Refinement == Spec => ImplementsSortedIndex
<1>1. Init => ToSet(elements) = {}
  BY ElementsOfEmpty DEF Init
<1>2. IInv /\ [Next]_vars => [Abstract!IndexNext]_(ToSet(elements))
  BY StepRefines
<1>3. QED
  BY <1>1, <1>2, Invariance, PTL
    DEF Spec, ImplementsSortedIndex, Abstract!IndexSpec


-----------------------------------------------------------------------------
(***************************************************************************)
(* Capacity.  index_obj_trim computes the size it will keep before it has  *)
(* the lock, so that an insertion of another thread in between leaves more *)
(* elements than slots.  With one thread that modifies there is none.      *)
(***************************************************************************)
OneModifier ==
  \A t, u \in Threads :
    Calls[TRUE][t] \cap WriteOps # {} /\ Calls[TRUE][u] \cap WriteOps # {} => t = u

\* In a modification, other than one for a callback: that one waits for the
\* lock of its own traversal.
Modifying(t) == call[t].op \in WriteOps /\ call[t].outer # "traverse"

ModifierOf ==
  thread_safe =>
    \A t \in Threads : Modifying(t) => Calls[TRUE][t] \cap WriteOps # {}

\* The size that trim will keep still leaves the bloat.
SizeStands ==
  \A t \in Threads :
    call[t].op = "trim" /\ call[t].at \in {"lock", "start"}
      /\ (thread_safe => Modifying(t))
      => call[t].lo = n + INDEX_OBJ_BLOAT

CapInv == CapacityHolds /\ ModifierOf /\ SizeStands

\* A step that changes the array is one of a modifier, or of no call at all.
LEMMA WhoChanges ==
  ASSUME IInv, NEW t \in Threads, Step(t), elements' # elements
  PROVE  /\ thread_safe => Modifying(t)
         /\ call[t].op # "none"
         /\ call'[t].at \in {"unlock", "size"}
<1>1. /\ call \in [Threads -> CallType] /\ PlaceOf(t)
  BY Here
<1>2. InsertNew(t) \/ InsertPresent(t) \/ RemoveEnd(t) \/ Reset(t)
  BY DEF Step, Call, CallbackCall, LockRead, LockWrite, Body, Start,
    Bisect, Exhausted, SearchEnd, InsertFails, TraverseStart, TraverseNext,
    TraverseEnd, TrimSize, TrimEnd, Unlock, Announce, object
<1>3. /\ call[t].op \in {"insert", "remove", "reset"}
      /\ call[t].at \in {"found", "missing", "start"}
  BY <1>2 DEF InsertNew, InsertPresent, RemoveEnd, Reset, In
<1>4. CASE Reset(t)
  <2>1. call'[t] = [Enter("trim", <<0, 0>>) EXCEPT !.outer = "reset"]
    BY <1>1, <1>4 DEF Reset
  <2>2. call'[t].at = "size"
    BY <2>1 DEF Enter, Idle
  <2>3. QED
    BY <1>1, <1>3, <2>2 DEF Inside, Modifying, PlaceOf, WriteOps, ReadOps
<1>5. CASE ~Reset(t)
  <2>1. call' = [call EXCEPT ![t].at = "unlock"]
    BY <1>2, <1>5 DEF InsertNew, InsertPresent, RemoveEnd, Return, Goto
  <2>2. call'[t].at = "unlock"
    BY <1>1, <2>1 DEF CallType
  <2>3. QED
    BY <1>1, <1>3, <2>2 DEF Inside, Modifying, PlaceOf, WriteOps, ReadOps
<1>6. QED
  BY <1>4, <1>5

\* What a step does to the function of its thread.
LEMMA OpMoves ==
  ASSUME IInv, NEW t \in Threads, Step(t), UNCHANGED thread_safe
  PROVE  /\ \A u \in Threads \ {t} : call'[u] = call[u]
         /\ thread_safe /\ Modifying(t)' =>
              Modifying(t) \/ Calls[TRUE][t] \cap WriteOps # {}
         /\ call'[t].op = "trim" /\ call'[t].at \in {"lock", "start"} =>
              /\ elements' = elements
              /\ call[t].op = "trim" /\ call[t].outer = call'[t].outer
              /\ \/ call[t].at = "size" /\ call'[t].lo = n + INDEX_OBJ_BLOAT
                 \/ call[t].at \in {"lock", "start"} /\ call'[t].lo = call[t].lo
<1>1. /\ call \in [Threads -> CallType] /\ PlaceOf(t)
      /\ n \in Nat /\ n + INDEX_OBJ_BLOAT \in Nat
  BY Here, SizesLegal
<1>2. CASE \E f \in Ops, d \in Data : Call(t, f, d)
  <2>1. PICK f \in Ops, d \in Data : Call(t, f, d)
    BY <1>2
  <2>2. /\ f \in Calls[thread_safe][t] /\ call' = [call EXCEPT ![t] = Enter(f, d)]
    BY <2>1 DEF Call
  <2>3. /\ call'[t].op = f /\ \A u \in Threads \ {t} : call'[u] = call[u]
        /\ (f = "trim" => call'[t].at = "size")
    BY <1>1, <2>2, Entered
  <2>4. thread_safe => f \in Calls[TRUE][t]
    <3>1. thread_safe => thread_safe = TRUE
      BY DEF IInv, Sorted, TypeOK
    <3>2. QED
      BY <2>2, <3>1
  <2>5. QED
    BY <2>3, <2>4 DEF Modifying
<1>3. CASE \E f \in Ops, d \in Data : CallbackCall(t, f, d)
  <2>1. PICK f \in Ops, d \in Data : CallbackCall(t, f, d)
    BY <1>3
  <2>2. call' = [call EXCEPT ![t] = [Enter(f, d) EXCEPT !.outer = "traverse",
                                                        !.opos = call[t].pos]]
    BY <2>1 DEF CallbackCall
  <2>3. /\ call'[t].op = f /\ call'[t].outer = "traverse"
        /\ \A u \in Threads \ {t} : call'[u] = call[u]
        /\ (f = "trim" => call'[t].at = "size")
    BY <1>1, <2>2, Entered DEF CallType
  <2>4. QED
    BY <2>3 DEF Modifying
<1>4. CASE Unlock(t)
  <2>1. call' = [call EXCEPT ![t] = After(call[t])]
    BY <1>4 DEF Unlock
  <2>2. call[t] \in CallType /\ call[t].outer \in {"none", "traverse", "reset"}
    BY <1>1 DEF CallType
  <2>3. /\ call'[t] = After(call[t])
        /\ \A u \in Threads \ {t} : call'[u] = call[u]
    BY <1>1, <2>1
  <2>4. QED
    BY <1>1, <2>2, <2>3, AfterTyped DEF Modifying, PlaceOf, WriteOps
<1>5. CASE Reset(t)
  <2>1. /\ call' = [call EXCEPT ![t] = [Enter("trim", <<0, 0>>) EXCEPT
                                          !.outer = "reset"]]
        /\ call[t].op = "reset" /\ call[t].outer = "none"
    BY <1>5 DEF Reset, In
  <2>2. /\ call'[t] = [Enter("trim", <<0, 0>>) EXCEPT !.outer = "reset"]
        /\ \A u \in Threads \ {t} : call'[u] = call[u]
    BY <1>1, <2>1
  <2>3. call'[t].at = "size"
    BY <2>2 DEF Enter, Idle
  <2>4. QED
    BY <2>1, <2>2, <2>3 DEF Modifying, WriteOps
<1>6. CASE TrimSize(t)
  <2>1. PICK k \in Nat :
          /\ k = n + INDEX_OBJ_BLOAT
          /\ call[t].op = "trim" /\ call[t].at = "size" /\ UNCHANGED elements
          /\ call' = [call EXCEPT ![t].at = "lock", ![t].lo = k]
    BY <1>1, <1>6 DEF TrimSize, In, object
  <2> DEFINE c == [call[t] EXCEPT !.at = "lock", !.lo = k]
  <2>2. /\ call' = [call EXCEPT ![t] = c]
        /\ c.op = call[t].op /\ c.outer = call[t].outer /\ c.lo = k
    BY <1>1, <2>1 DEF CallType
  <2> HIDE DEF c
  <2>3. call'[t] = c /\ \A u \in Threads \ {t} : call'[u] = call[u]
    BY <1>1, <2>2
  <2>4. QED
    BY <2>1, <2>2, <2>3 DEF Modifying
<1>7. CASE LockRead(t) \/ LockWrite(t)
  <2>1. /\ call' = [call EXCEPT ![t].at = "start"] /\ call[t].at = "lock"
        /\ UNCHANGED elements
    BY <1>7 DEF LockRead, LockWrite, Goto, object
  <2>2. /\ UNCHANGED <<call[t].op, call[t].outer, call[t].lo>>
        /\ \A u \in Threads \ {t} : call'[u] = call[u]
    BY <1>1, <2>1 DEF CallType
  <2>3. QED
    BY <2>1, <2>2 DEF Modifying
<1>8. CASE Announce(t)
  <2>1. UNCHANGED <<elements, call>>
    BY <1>8 DEF Announce, object
  <2>2. QED
    BY <1>1, <1>8, <2>1 DEF Announce, Modifying
<1>9. CASE Bisect(t) \/ Start(t)
  <2>1. /\ call[t].op \in {"insert", "remove", "search"}
        /\ UNCHANGED <<call[t].op, call[t].outer>>
        /\ \A u \in Threads \ {t} : call'[u] = call[u]
    <3>1. call[t].op \in {"insert", "remove", "search"}
      BY <1>1, <1>9 DEF Bisect, Start, PlaceOf
    <3>2. CASE Bisect(t)
      <4>1. \E mid, diff, lo, hi, at :
              call' = [call EXCEPT ![t].mid = mid, ![t].diff = diff,
                         ![t].lo = lo, ![t].hi = hi, ![t].at = at]
        BY <3>2, Zenon DEF Bisect
      <4>2. QED
        BY <1>1, <3>1, <4>1 DEF CallType
    <3>3. CASE Start(t)
      BY <1>1, <3>1, <3>3, SMTT(30) DEF Start, Return, Goto, CallType
    <3>4. QED
      BY <1>9, <3>1, <3>2, <3>3
  <2>2. QED
    BY <2>1 DEF Modifying
<1>10. CASE TraverseNext(t)
  <2>1. /\ call[t].op = "traverse" /\ UNCHANGED <<call[t].op, call[t].outer>>
        /\ \A u \in Threads \ {t} : call'[u] = call[u]
    BY <1>1, <1>10 DEF TraverseNext, In, CallType
  <2>2. QED
    BY <2>1 DEF Modifying
<1>11. CASE \/ Exhausted(t) \/ SearchEnd(t) \/ InsertPresent(t) \/ InsertFails(t)
            \/ InsertNew(t) \/ RemoveEnd(t) \/ TraverseStart(t) \/ TraverseEnd(t)
            \/ TrimEnd(t)
  <2>1. PICK p \in {"missing", "unlock", "loop"} :
          call' = [call EXCEPT ![t].at = p]
    BY <1>11 DEF Exhausted, SearchEnd, InsertPresent, InsertFails, InsertNew,
      RemoveEnd, TraverseStart, TraverseEnd, TrimEnd, Return, Goto
  <2>2. /\ UNCHANGED <<call[t].op, call[t].outer>> /\ call'[t].at = p
        /\ \A u \in Threads \ {t} : call'[u] = call[u]
    BY <1>1, <2>1 DEF CallType
  <2>3. QED
    BY <2>2 DEF Modifying
<1>12. QED
  BY <1>2, <1>3, <1>4, <1>5, <1>6, <1>7, <1>8, <1>9, <1>10, <1>11 DEF Step, Body


LEMMA CapInit == Init => CapInv
<1> SUFFICES ASSUME Init PROVE CapInv
  OBVIOUS
<1>1. \A t \in Threads : call[t].op = "none"
  BY DEF Init, Idle
<1>2. CapacityHolds
  BY SizesLegal DEF Init, CapacityHolds, n
<1>3. QED
  BY <1>1, <1>2 DEF CapInv, ModifierOf, SizeStands, Modifying, WriteOps

LEMMA CapStep ==
  ASSUME OneModifier
  PROVE  IInv /\ CapInv /\ [Next]_vars => CapInv'
<1> SUFFICES ASSUME IInv, CapInv, [Next]_vars PROVE CapInv'
  OBVIOUS
<1> USE DEF CapInv
<1>1. CASE UNCHANGED vars
  BY <1>1 DEF vars, object, lockvars, CapacityHolds, ModifierOf, SizeStands,
    Modifying, n
<1>2. CASE (Destroy /\ UNCHANGED thread_safe) \/ Create
  <2>1. /\ \A t \in Threads : call'[t].op = "none"
        /\ elements' = <<>> /\ maximum_size' \in Nat
    BY <1>2, SizesLegal DEF IInv, Dead, Quiet, Destroy, Create
  <2>2. CapacityHolds'
    <3>1. n' = 0
      BY <2>1 DEF n
    <3>2. QED
      BY <2>1, <3>1 DEF CapacityHolds
  <2>3. ModifierOf' /\ SizeStands'
    BY <2>1 DEF ModifierOf, SizeStands, Modifying, WriteOps
  <2>4. QED
    BY <2>2, <2>3
<1>3. ASSUME NEW t \in Threads, Step(t), UNCHANGED thread_safe
      PROVE  CapInv'
  <2>1. /\ \A u \in Threads \ {t} : call'[u] = call[u]
        /\ thread_safe /\ Modifying(t)' =>
             Modifying(t) \/ Calls[TRUE][t] \cap WriteOps # {}
        /\ call'[t].op = "trim" /\ call'[t].at \in {"lock", "start"} =>
             /\ elements' = elements
             /\ call[t].op = "trim" /\ call[t].outer = call'[t].outer
             /\ \/ call[t].at = "size" /\ call'[t].lo = n + INDEX_OBJ_BLOAT
                \/ call[t].at \in {"lock", "start"} /\ call'[t].lo = call[t].lo
    BY <1>3, OpMoves
  <2>2. ModifierOf'
    BY <1>3, <2>1 DEF ModifierOf, Modifying
  <2>3. SizeStands'
    <3>1. ASSUME elements' = elements
          PROVE  SizeStands'
      BY <1>3, <2>1, <3>1 DEF SizeStands, Modifying, n
    <3>2. ASSUME elements' # elements
          PROVE  SizeStands'
      <4>1. /\ thread_safe => Modifying(t)
            /\ call[t].op # "none" /\ call'[t].at \in {"unlock", "size"}
        BY <1>3, <3>2, WhoChanges
      <4>2. ASSUME NEW u \in Threads \ {t}
            PROVE  ~((thread_safe => Modifying(u)) /\ call[u].op = "trim")
        <5>1. CASE thread_safe
          BY <4>1, <5>1 DEF ModifierOf, OneModifier
        <5>2. CASE ~thread_safe
          BY <4>1, <5>2, UnlockedAlone DEF IInv, Alone
        <5>3. QED
          BY <5>1, <5>2
      <4>3. QED
        BY <1>3, <2>1, <4>1, <4>2 DEF SizeStands, Modifying
    <3>3. QED
      BY <3>1, <3>2
  <2>4. CapacityHolds'
    <3>1. elements \in Seq(Data) /\ n \in Nat /\ maximum_size \in Nat
          /\ n <= maximum_size
      BY Here DEF CapacityHolds
    <3>2. CASE InsertNew(t)
      <4>1. /\ call[t].op = "insert" /\ call[t].at = "missing"
            /\ elements' = InsertAt(elements, InsertionPoint(t) + 1, call[t].data)
            /\ n >= maximum_size => ExpansionSize > 0
            /\ maximum_size' = IF n >= maximum_size
                               THEN maximum_size + ExpansionSize ELSE maximum_size
        BY <3>2 DEF InsertNew, In
      <4>2. InsertionPoint(t) \in 0..n /\ call[t].data \in Data
        BY <4>1, Here DEF Found, PlaceOf
      <4>3. PICK i \in 1..(Len(elements) + 1), d \in Data :
              i = InsertionPoint(t) + 1 /\ d = call[t].data
        BY <3>1, <4>2 DEF n
      <4>4. Len(InsertAt(elements, i, d)) = Len(elements) + 1
        BY <3>1, Inserted
      <4>5. n' = n + 1
        BY <4>1, <4>3, <4>4 DEF n
      <4>6. QED
        BY <3>1, <4>1, <4>5, SizesLegal DEF CapacityHolds
    <3>3. CASE TrimEnd(t)
      <4>1. /\ call[t].op = "trim" /\ call[t].at = "start"
            /\ elements' = elements /\ maximum_size' \in {maximum_size, call[t].lo}
        BY <3>3 DEF TrimEnd, In
      <4>2. thread_safe => Modifying(t)
        BY <4>1, Here DEF Modifying, PlaceOf, Inside, ReadOps, WriteOps
      <4>3. call[t].lo = n + INDEX_OBJ_BLOAT
        BY <4>1, <4>2 DEF SizeStands
      <4>4. n' = n
        BY <4>1 DEF n
      <4>5. QED
        BY <3>1, <4>1, <4>3, <4>4, SizesLegal DEF CapacityHolds
    <3>4. CASE InsertPresent(t) \/ RemoveEnd(t)
      <4>1. /\ maximum_size' = maximum_size
            /\ \/ elements' = elements
               \/ /\ call[t].at = "found"
                  /\ \/ elements' = [elements EXCEPT ![call[t].mid + 1] = call[t].data]
                     \/ elements' = RemoveAt(elements, call[t].mid + 1)
        BY <3>4 DEF InsertPresent, RemoveEnd, In
      <4>2. CASE elements' = elements
        BY <3>1, <4>1, <4>2 DEF CapacityHolds, n
      <4>3. CASE elements' # elements
        <5>1. call[t].mid \in 0..n /\ call[t].mid < n
          BY <4>1, <4>3, Here DEF Found
        <5>2. PICK i \in 1..Len(elements) : i = call[t].mid + 1
          BY <3>1, <5>1 DEF n
        <5>3. /\ Len(RemoveAt(elements, i)) = Len(elements) - 1
              /\ Len([elements EXCEPT ![i] = call[t].data]) = Len(elements)
          BY <3>1, Removed
        <5>4. n' <= n
          BY <3>1, <4>1, <4>3, <5>2, <5>3 DEF n
        <5>5. n' \in Nat
          BY <3>1, <4>1, <4>3, <5>2, <5>3, <5>1 DEF n
        <5>6. QED
          BY <3>1, <4>1, <5>4, <5>5 DEF CapacityHolds
      <4>4. QED
        BY <4>2, <4>3
    <3>5. CASE Reset(t)
      <4>1. elements' = <<>> /\ maximum_size' = maximum_size
        BY <3>5 DEF Reset
      <4>2. QED
        BY <3>1, <4>1 DEF CapacityHolds, n
    <3>6. CASE ~(InsertNew(t) \/ TrimEnd(t) \/ InsertPresent(t) \/ RemoveEnd(t)
                   \/ Reset(t))
      <4>1. UNCHANGED <<elements, maximum_size>>
        BY <1>3, <3>6 DEF Step, Call, CallbackCall, LockRead, LockWrite, Body,
          Start, Bisect, Exhausted, SearchEnd, InsertFails, TraverseStart,
          TraverseNext, TraverseEnd, TrimSize, Unlock, Announce, object
      <4>2. QED
        BY <4>1 DEF CapacityHolds, n
    <3>7. QED
      BY <3>2, <3>3, <3>4, <3>5, <3>6
  <2>5. QED
    BY <2>2, <2>3, <2>4
<1>4. QED
  BY <1>1, <1>2, <1>3 DEF Next

\* With one modifier the array always has room for what it holds, whatever
\* the others read and traverse and the callbacks ask for.
THEOREM RoomForAll ==
  ASSUME OneModifier
  PROVE  Spec => []CapacityHolds
<1>1. IInv /\ CapInv /\ [Next]_vars => CapInv'
  BY CapStep
<1>2. CapInv => CapacityHolds
  BY DEF CapInv
<1>3. QED
  BY <1>1, <1>2, CapInit, Invariance, PTL DEF Spec

=============================================================================
