------------------------------- MODULE RWLock -------------------------------
(***************************************************************************)
(* What a lock_obj_t promises to the objects that embed one, with every    *)
(* detail of the spin loops removed: the list in the header comment of     *)
(* lock_object.h.  Many read locks, or one write lock; a thread may hold   *)
(* several read locks; and once a writer has announced itself (barred)     *)
(* no read lock is granted until a write lock has come and gone.           *)
(***************************************************************************)
EXTENDS Naturals

CONSTANT Threads

VARIABLES
  holds,    \* holds[t]: the read locks thread t holds
  writer,   \* the set of threads that hold the write lock
  barred    \* a writer is waiting or writing

absvars == <<holds, writer, barred>>

AbsInit ==
  /\ holds = [t \in Threads |-> 0]
  /\ writer = {}
  /\ barred = FALSE

\* A write lock is free of readers before it is granted.
NoReaders == \A t \in Threads : holds[t] = 0

GrantRead(t) ==
  /\ ~barred
  /\ writer = {}
  /\ holds' = [holds EXCEPT ![t] = @ + 1]
  /\ UNCHANGED <<writer, barred>>

DropRead(t) ==
  /\ holds[t] > 0
  /\ holds' = [holds EXCEPT ![t] = @ - 1]
  /\ UNCHANGED <<writer, barred>>

\* A writer announces itself: from here on readers are held back.
Bar ==
  /\ barred' = TRUE
  /\ UNCHANGED <<holds, writer>>

GrantWrite(t) ==
  /\ barred
  /\ writer = {}
  /\ NoReaders
  /\ writer' = {t}
  /\ UNCHANGED <<holds, barred>>

DropWrite(t) ==
  /\ writer = {t}
  /\ writer' = {}
  /\ barred' = FALSE
  /\ UNCHANGED holds

AbsNext ==
  \/ Bar
  \/ \E t \in Threads : \/ GrantRead(t)
                        \/ DropRead(t)
                        \/ GrantWrite(t)
                        \/ DropWrite(t)

AbsSpec == AbsInit /\ [][AbsNext]_absvars
=============================================================================
