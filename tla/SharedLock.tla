---------------------------- MODULE SharedLock -----------------------------
(***************************************************************************)
(* The read/write lock of SHMEM/shared_memory_utils.c, shared by processes *)
(* that may die at any step.  A robust, recursive pthread mutex guards the *)
(* counts and the writer's id.  Each access to the mutex and to a field is *)
(* a step, since a process may die between any two.                        *)
(*                                                                         *)
(* rwlock_write_lock and rwlock_write_lock_unblocked pass the engine its   *)
(* last two arguments in the wrong order.  The engine takes the boolean    *)
(* for the thread id, so that all blocking writers are thread 1 and all    *)
(* unblocked ones thread 0, and the thread id, cut to a byte, for block.   *)
(***************************************************************************)
EXTENDS Integers, FiniteSets

CONSTANTS
  Procs,      \* the processes (or threads) that share the lock
  Readers,    \* those that ask for the read lock
  Writers,    \* those that ask for the write lock, blocking
  Unblocked,  \* those that ask for it with rwlock_write_lock_unblocked
  ZeroByte,   \* those whose thread id is a multiple of 256
  MaxNest,    \* write locks one process nests ("re-enterable")
  MaxDeaths,  \* processes that die
  Nobody

ASSUME UsersAreProcs ==
  Readers \cup Writers \cup Unblocked \cup ZeroByte \subseteq Procs
ASSUME ProcsFinite == IsFiniteSet(Procs) /\ Nobody \notin Procs
ASSUME BoundsNatural == MaxNest \in Nat \ {0} /\ MaxDeaths \in Nat

VARIABLES
  owner, depth,                       \* the mutex: who has it, how often
  readers, writers, writer_thread_id, \* the other fields of rwlock_t
  op, at,   \* op[p], at[p]: the function p is in, and where
  dead,     \* the processes that died
  reading,  \* reading[p]: read locks p was given and has not given back
  writing   \* writing[p]: write locks p was given and has not given back

mutex == <<owner, depth>>
fields == <<readers, writers, writer_thread_id>>
granted == <<reading, writing>>
vars == <<mutex, fields, op, at, dead, granted>>

TRUE_ID == 1   \* (pid_t) TRUE
FALSE_ID == 0  \* (pid_t) FALSE

ReadOps == {"read_lock", "read_lock_unblocked"}
WriteOps == {"write_lock", "write_lock_unblocked"}
Ops == ReadOps \cup WriteOps \cup {"read_unlock", "write_unlock"}

\* What the engines get: block, and the writer's thread id.
Blocks(p) == IF op[p] \in ReadOps THEN op[p] = "read_lock" ELSE p \notin ZeroByte
Id(p) == IF op[p] = "write_lock" THEN TRUE_ID ELSE FALSE_ID

\* rwlock_init
Init ==
  /\ owner = Nobody /\ depth = 0
  /\ readers = 0 /\ writers = 0 /\ writer_thread_id = 0
  /\ op = [p \in Procs |-> "none"]
  /\ at = [p \in Procs |-> "out"]
  /\ dead = {}
  /\ reading = [p \in Procs |-> 0] /\ writing = [p \in Procs |-> 0]

Goto(p, place) == at' = [at EXCEPT ![p] = place]

-----------------------------------------------------------------------------
(***************************************************************************)
(* The callers.  A process holds one read lock or some write locks, never  *)
(* both, and gives back what it holds.                                     *)
(***************************************************************************)
Call(p, f) ==
  /\ op[p] = "none"
  /\ op' = [op EXCEPT ![p] = f]
  /\ Goto(p, "mutex")
  /\ UNCHANGED <<mutex, fields, dead, granted>>

CallRead(p, f) ==
  /\ p \in Readers /\ f \in ReadOps
  /\ reading[p] = 0 /\ writing[p] = 0
  /\ Call(p, f)

CallWrite(p, f) ==
  /\ \/ f = "write_lock" /\ p \in Writers
     \/ f = "write_lock_unblocked" /\ p \in Unblocked
  /\ reading[p] = 0 /\ writing[p] < MaxNest
  /\ Call(p, f)

CallUnlock(p) ==
  \/ reading[p] > 0 /\ Call(p, "read_unlock")
  \/ writing[p] > 0 /\ Call(p, "write_unlock")

-----------------------------------------------------------------------------
(***************************************************************************)
(* safe_lock_mutex.  A dead owner leaves the mutex to the next to ask,     *)
(* with EOWNERDEAD; pthread_mutex_consistent makes it usable, and continue *)
(* goes back to lock again a mutex that is already locked, recursively.    *)
(* The second attempt succeeds, so the 16 attempts are never used up.      *)
(***************************************************************************)
Entry(f) == CASE f \in ReadOps -> "test"
              [] f \in WriteOps -> "mark"
              [] OTHER -> "drop"

\* Mutant: the mutex is taken whoever has it.
MutexIgnored(p) ==
  /\ at[p] \in {"mutex", "again"}
  /\ owner' = p /\ depth' = 1
  /\ Goto(p, IF at[p] = "mutex" THEN Entry(op[p])
             ELSE IF op[p] \in ReadOps THEN "test" ELSE "try")
  /\ UNCHANGED <<fields, op, dead, granted>>

MutexLock(p) ==
  /\ at[p] \in {"mutex", "again"}
  /\ owner \in {Nobody, p}
  /\ owner' = p /\ depth' = depth + 1
  /\ Goto(p, IF at[p] = "mutex" THEN Entry(op[p])
             ELSE IF op[p] \in ReadOps THEN "test" ELSE "try")
  /\ UNCHANGED <<fields, op, dead, granted>>

OwnerDead(p) ==
  /\ at[p] \in {"mutex", "again"}
  /\ owner \in dead
  /\ owner' = p /\ depth' = 1
  /\ UNCHANGED <<fields, op, at, dead, granted>>

Release == depth' = depth - 1 /\ owner' = IF depth = 1 THEN Nobody ELSE owner

\* pthread_mutex_unlock and return.
Return(p) ==
  /\ at[p] = "return"
  /\ Release
  /\ op' = [op EXCEPT ![p] = "none"]
  /\ Goto(p, "out")
  /\ UNCHANGED <<fields, dead, granted>>

\* pthread_mutex_unlock, then sched_yield and the mutex again; or FALSE.
Retry(p) ==
  /\ at[p] = "refused"
  /\ Release
  /\ IF Blocks(p) THEN Goto(p, "again") /\ UNCHANGED op
     ELSE Goto(p, "out") /\ op' = [op EXCEPT ![p] = "none"]
  /\ UNCHANGED <<fields, dead, granted>>

-----------------------------------------------------------------------------
\* Mutant: a reader looks for a writer that writes, not for one that waits.
ReadTestsId(p) ==
  /\ at[p] = "test"
  /\ Goto(p, IF writer_thread_id # 0 THEN "refused" ELSE "count")
  /\ UNCHANGED <<mutex, fields, op, dead, granted>>

\* rwlock_read_lock_engine: no writer may be pending or writing.
ReadTest(p) ==
  /\ at[p] = "test"
  /\ Goto(p, IF writers > 0 THEN "refused" ELSE "count")
  /\ UNCHANGED <<mutex, fields, op, dead, granted>>

ReadCount(p) ==
  /\ at[p] = "count"
  /\ readers' = readers + 1
  /\ reading' = [reading EXCEPT ![p] = @ + 1]
  /\ Goto(p, "return")
  /\ UNCHANGED <<mutex, writers, writer_thread_id, op, dead, writing>>

\* rwlock_write_lock_engine: the request is counted once, then tried.
WriteMark(p) ==
  /\ at[p] = "mark"
  /\ writers' = writers + 1
  /\ Goto(p, "try")
  /\ UNCHANGED <<mutex, readers, writer_thread_id, op, dead, granted>>

\* Mutant: readers are not waited for.
GetsWriteOverReaders(p) == writer_thread_id = 0 \/ writer_thread_id = Id(p)

\* thread_can_get_the_write_lock
GetsWrite(p) ==
  /\ readers <= 0
  /\ writer_thread_id = 0 \/ writer_thread_id = Id(p)

WriteTry(p) ==
  /\ at[p] = "try"
  /\ Goto(p, IF GetsWrite(p) THEN "enter" ELSE "refused")
  /\ UNCHANGED <<mutex, fields, op, dead, granted>>

WriteEnter(p) ==
  /\ at[p] = "enter"
  /\ writer_thread_id' = Id(p)
  /\ writing' = [writing EXCEPT ![p] = @ + 1]
  /\ Goto(p, "return")
  /\ UNCHANGED <<mutex, readers, writers, op, dead, reading>>

\* rwlock_read_unlock
ReadDrop(p) ==
  /\ op[p] = "read_unlock" /\ at[p] = "drop"
  /\ readers' = readers - 1
  /\ reading' = [reading EXCEPT ![p] = @ - 1]
  /\ Goto(p, "return")
  /\ UNCHANGED <<mutex, writers, writer_thread_id, op, dead, writing>>

\* Mutant: the unlock clears the count, and with it the other requests.
DropUncounts(p) ==
  /\ op[p] = "write_unlock" /\ at[p] = "drop"
  /\ writers' = 0
  /\ writing' = [writing EXCEPT ![p] = @ - 1]
  /\ Goto(p, "forget")
  /\ UNCHANGED <<mutex, readers, writer_thread_id, op, dead, reading>>

\* rwlock_write_unlock: the count, then the id.
WriteDrop(p) ==
  /\ op[p] = "write_unlock" /\ at[p] = "drop"
  /\ writers' = writers - 1
  /\ writing' = [writing EXCEPT ![p] = @ - 1]
  /\ Goto(p, "forget")
  /\ UNCHANGED <<mutex, readers, writer_thread_id, op, dead, reading>>

WriteForget(p) ==
  /\ at[p] = "forget"
  /\ writer_thread_id' = 0
  /\ Goto(p, "return")
  /\ UNCHANGED <<mutex, readers, writers, op, dead, granted>>

-----------------------------------------------------------------------------
\* A process dies wherever it is: what it held and counted stays.
Die(p) ==
  /\ Cardinality(dead) < MaxDeaths
  /\ dead' = dead \cup {p}
  /\ UNCHANGED <<mutex, fields, op, at, granted>>

Step(p) ==
  \/ OwnerDead(p)
  \/ Return(p) \/ Retry(p)
  \/ ReadTest(p) \/ ReadCount(p)
  \/ WriteMark(p) \/ WriteTry(p) \/ WriteEnter(p)
  \/ ReadDrop(p) \/ WriteDrop(p) \/ WriteForget(p)

Next == \E p \in Procs \ dead :
  \/ \E f \in Ops : CallRead(p, f) \/ CallWrite(p, f)
  \/ CallUnlock(p)
  \/ MutexLock(p)
  \/ Step(p)
  \/ Die(p)

Spec == Init /\ [][Next]_vars

\* A live process runs on and gives back what it holds; the mutex is handed
\* out so that one who keeps asking gets it (sched_yield between attempts).
Alive(p) == p \notin dead
Fairness == \A p \in Procs :
  /\ SF_vars(Alive(p) /\ MutexLock(p))
  /\ WF_vars(Alive(p) /\ Step(p))
  /\ WF_vars(Alive(p) /\ CallUnlock(p))

FairSpec == Spec /\ Fairness

-----------------------------------------------------------------------------
Outside == {"out", "mutex", "again"}
Inside == {"test", "count", "mark", "try", "enter", "drop", "forget", "refused",
           "return"}

TypeOK ==
  /\ owner \in Procs \cup {Nobody} /\ depth \in Nat
  /\ owner = Nobody <=> depth = 0
  /\ readers \in Nat /\ writers \in Nat
  /\ writer_thread_id \in {FALSE_ID, TRUE_ID}
  /\ op \in [Procs -> Ops \cup {"none"}]
  /\ at \in [Procs -> Outside \cup Inside]
  /\ dead \subseteq Procs
  /\ reading \in [Procs -> 0..1] /\ writing \in [Procs -> 0..MaxNest]

\* "A read access can be given only if there are no writers, pending or
\* active" (shared_memory_utils.c:246-247): no reader is in beside a writer,
\* though the writers do not keep each other out, and whoever has died.
ReadersExcludeWriters ==
  \A p, q \in Procs : ~(reading[p] > 0 /\ writing[q] > 0)

\* A writer whose request is counted and not granted yet.
Pending(p) ==
  /\ op[p] \in WriteOps
  /\ at[p] \in {"try", "refused", "again", "enter"}

\* "If writers are pending, further read accesses are not granted"
\* (:253-254): between the test of writers and readers++ no writer appears.
PendingHoldsReaders ==
  [][ (\E p \in Procs : reading'[p] > reading[p])
      => \A q \in Procs : ~Pending(q) /\ writing[q] = 0 ]_vars

\* The read locks given; the write locks given or asked for and counted.
ReadsGiven == {p \in Procs : reading[p] > 0}
Requested(p) == writing[p] + (IF Pending(p) THEN 1 ELSE 0)
Requests == {r \in Procs \X (1..MaxNest) : r[2] <= Requested(r[1])}

\* Every variable has its type, readers counts the read locks given, and each
\* write request, waiting or granted, is counted once: an unlock takes away
\* its own.  A refusal of a ZeroByte process stays counted, so that the count
\* is then too large, never too small.
WritersCounted ==
  /\ TypeOK
  /\ readers = Cardinality(ReadsGiven)
  /\ Cardinality(Requests) <= writers
  /\ ZeroByte = {} => writers = Cardinality(Requests)

\* "Readers cannot lock out a writer indefinitely" (:254-255), nor can other
\* writers, as long as nobody has died.
WriterServed == \A p \in Writers :
  op[p] = "write_lock" ~> writing[p] > 0 \/ dead # {}

\* shared_memory_utils.h:206, "Only one active writer at a time".
OneWriter == \A p, q \in Procs : writing[p] > 0 /\ writing[q] > 0 => p = q

\* safe_lock_mutex "tries to recover" when the owner has died
\* (shared_memory_utils.c:213-216): whoever returns has let go of the mutex.
MutexGivenBack == \A p \in Procs : op[p] = "none" => owner # p
=============================================================================
