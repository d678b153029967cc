---------------------------- MODULE IndexObject -----------------------------
(***************************************************************************)
(* index_object.c: a sorted array of pointers searched by bisection, under *)
(* the read/write lock of RWLock when it is made thread safe.  A function  *)
(* is a call, the wait for the lock, its body and the release; each turn   *)
(* of the bisection is a step.  A traversal calls the user's function for  *)
(* every element, and that function may call the index again; reset calls  *)
(* trim.  One such call is nested (outer).                                 *)
(*                                                                         *)
(* A datum is <<key, tag>>: the comparer looks at the key alone.  Indexes  *)
(* count from 0 as in C, so slot i is elements[i + 1] and n is the length. *)
(***************************************************************************)
EXTENDS Integers, SequencesExt

CONSTANTS
  Threads,
  Calls,            \* Calls[m][t]: the functions thread t calls, m tells
                    \* whether the index is thread safe
  CallbackCalls,    \* CallbackCalls[m]: those a traversal's callback calls
  Data,             \* what is stored: pairs of a key and a tag
  InitialSize,      \* maximum_size given to index_obj_init
  ExpansionSize,    \* expansion_size given to index_obj_init
  INDEX_OBJ_BLOAT

ReadOps == {"search", "traverse"}
WriteOps == {"insert", "remove", "trim", "reset"}
Ops == ReadOps \cup WriteOps

ASSUME SizesLegal ==
  InitialSize \in Nat \ {0, 1} /\ ExpansionSize \in Nat /\ INDEX_OBJ_BLOAT \in Nat
ASSUME DataKeyed == \A d \in Data : d[1] \in Int
ASSUME CallsTyped ==
  Calls \in [BOOLEAN -> [Threads -> SUBSET Ops]]
  /\ CallbackCalls \in [BOOLEAN -> SUBSET Ops]

\* Without a lock the index has one user, and his callbacks do not traverse
\* (the inner traversal would clear the flag of the outer) or reset (which
\* does not look at the flag).
ASSUME UnlockedAlone ==
  \A t, u \in Threads : Calls[FALSE][t] # {} /\ Calls[FALSE][u] # {} => t = u
ASSUME CallbacksHeedFlag ==
  "traverse" \notin CallbackCalls[FALSE] /\ "reset" \notin CallbackCalls[FALSE]

VARIABLES
  thread_safe,             \* make_it_thread_safe, as given to index_obj_init
  elements, maximum_size, should_not_be_modified,  \* fields of index_obj_t
  alive,                   \* initialised and not destroyed
  holds, writer, barred,   \* its lock, as in RWLock
  call                     \* call[t]: the function t is in and its locals

object == <<elements, maximum_size, should_not_be_modified, alive>>
lockvars == <<holds, writer, barred>>
vars == <<thread_safe, object, lockvars, call>>

Lock == INSTANCE RWLock

n == Len(elements)

Idle == [op |-> "none", at |-> "out", data |-> <<0, 0>>, lo |-> 0, hi |-> 0,
         mid |-> 0, diff |-> 0, pos |-> 0,
         outer |-> "none", opos |-> 0]

In(t, f, place) == call[t].op = f /\ call[t].at = place
Goto(t, place) == call' = [call EXCEPT ![t].at = place]
\* The way out, whatever errno is returned: no property looks at it.
Return(t) == Goto(t, "unlock")

Init ==
  /\ thread_safe \in BOOLEAN
  /\ elements = <<>> /\ maximum_size = InitialSize
  /\ should_not_be_modified = FALSE /\ alive = TRUE
  /\ Lock!AbsInit
  /\ call = [t \in Threads |-> Idle]

-----------------------------------------------------------------------------
\* Calls, from outside, from a traversal's callback and from reset.
Enter(f, d) ==
  [Idle EXCEPT !.op = f, !.data = d,
               !.at = IF f = "trim" THEN "size" ELSE "lock"]

Call(t, f, d) ==
  /\ alive
  /\ call[t].op = "none"
  /\ f \in Calls[thread_safe][t]
  /\ call' = [call EXCEPT ![t] = Enter(f, d)]
  /\ UNCHANGED <<object, lockvars>>

\* The function called at element pos may call the index, once.
CallbackCall(t, f, d) ==
  /\ In(t, "traverse", "loop") /\ call[t].outer = "none"
  /\ call[t].pos < n
  /\ f \in CallbackCalls[thread_safe]
  /\ call' = [call EXCEPT ![t] = [Enter(f, d) EXCEPT !.outer = "traverse",
                                                     !.opos = call[t].pos]]
  /\ UNCHANGED <<object, lockvars>>

-----------------------------------------------------------------------------
\* OBJ_READ_LOCK, OBJ_WRITE_LOCK and the releases; none when not thread safe.
Announce(t) ==
  /\ thread_safe /\ ~barred
  /\ call[t].at = "lock" /\ call[t].op \in WriteOps
  /\ Lock!Bar
  /\ UNCHANGED <<object, call>>

LockRead(t) ==
  /\ call[t].at = "lock" /\ call[t].op \in ReadOps
  /\ IF thread_safe THEN Lock!GrantRead(t) ELSE UNCHANGED lockvars
  /\ Goto(t, "start")
  /\ UNCHANGED object

LockWrite(t) ==
  /\ call[t].at = "lock" /\ call[t].op \in WriteOps
  /\ IF thread_safe THEN Lock!GrantWrite(t) ELSE UNCHANGED lockvars
  /\ Goto(t, "start")
  /\ UNCHANGED object

\* A nested call returns into the traversal, at the next element, or into
\* reset, which has nothing left but to unlock.
After(c) ==
  CASE c.outer = "none"     -> Idle
    [] c.outer = "traverse" -> [Idle EXCEPT !.op = "traverse", !.at = "loop",
                                            !.pos = c.opos + 1]
    [] c.outer = "reset"    -> [Idle EXCEPT !.op = "reset", !.at = "unlock"]

\* Mutant: a search or a traversal that does not release the lock.
UnlockForgotten(t) ==
  /\ call[t].at = "unlock"
  /\ IF ~thread_safe \/ call[t].op \in ReadOps THEN UNCHANGED lockvars
                                               ELSE Lock!DropWrite(t)
  /\ call' = [call EXCEPT ![t] = After(@)]
  /\ UNCHANGED object

Unlock(t) ==
  /\ call[t].at = "unlock"
  /\ IF ~thread_safe THEN UNCHANGED lockvars
     ELSE IF call[t].op \in ReadOps THEN Lock!DropRead(t) ELSE Lock!DropWrite(t)
  /\ call' = [call EXCEPT ![t] = After(@)]
  /\ UNCHANGED object

-----------------------------------------------------------------------------
(***************************************************************************)
(* index_find_position: bisection, and the insertion point it leaves.      *)
(***************************************************************************)
Key(d) == d[1]
Slot(i) == elements[i + 1]

\* Mutant: the flag of a running traversal is not looked at.
StartIgnoresFlag(t) ==
  /\ call[t].at = "start" /\ call[t].op \in {"insert", "remove", "search"}
  /\ call' = [call EXCEPT ![t].at = "find", ![t].hi = n - 1]
  /\ UNCHANGED <<object, lockvars>>

\* Insert and remove refuse an index that is being traversed.
Start(t) ==
  /\ call[t].at = "start" /\ call[t].op \in {"insert", "remove", "search"}
  /\ IF should_not_be_modified /\ call[t].op # "search"
     THEN Return(t)
     ELSE call' = [call EXCEPT ![t].at = "find", ![t].hi = n - 1]
  /\ UNCHANGED <<object, lockvars>>

Bisect(t) ==
  /\ call[t].at = "find"
  /\ call[t].lo <= call[t].hi
  /\ LET mid == (call[t].hi + call[t].lo) \div 2
         diff == Key(call[t].data) - Key(Slot(mid))
     IN call' = [call EXCEPT
          ![t].mid = mid,
          ![t].diff = diff,
          ![t].lo = IF diff > 0 THEN mid + 1 ELSE @,
          ![t].hi = IF diff < 0 THEN mid - 1 ELSE @,
          ![t].at = IF diff = 0 THEN "found" ELSE @]
  /\ UNCHANGED <<object, lockvars>>

\* Mutant: the loop ends at lo < hi and never looks at a last element.
ExhaustedEarly(t) ==
  /\ call[t].at = "find"
  /\ call[t].lo >= call[t].hi
  /\ Goto(t, "missing")
  /\ UNCHANGED <<object, lockvars>>

Exhausted(t) ==
  /\ call[t].at = "find"
  /\ call[t].lo > call[t].hi
  /\ Goto(t, "missing")
  /\ UNCHANGED <<object, lockvars>>

\* Mutant: the insertion point is the last element looked at.
InsertionAtMid(t) == call[t].mid

InsertionPoint(t) ==
  IF call[t].diff > 0 THEN call[t].mid + 1 ELSE call[t].mid

-----------------------------------------------------------------------------
\* thread_unsafe_index_obj_search
SearchEnd(t) ==
  /\ call[t].op = "search"
  /\ \/ call[t].at = "found" /\ Return(t)
     \/ call[t].at = "missing" /\ Return(t)
  /\ UNCHANGED <<object, lockvars>>

\* thread_unsafe_index_obj_insert: the caller asked to overwrite, or not.
InsertPresent(t) ==
  /\ In(t, "insert", "found")
  /\ \/ elements' = [elements EXCEPT ![call[t].mid + 1] = call[t].data]
     \/ UNCHANGED elements
  /\ Return(t)
  /\ UNCHANGED <<maximum_size, should_not_be_modified, alive, lockvars>>

\* Full, and not allowed to expand (ENOSPC) or no memory to (ENOMEM).
InsertFails(t) ==
  /\ In(t, "insert", "missing")
  /\ n >= maximum_size
  /\ Return(t)
  /\ UNCHANGED <<object, lockvars>>

\* Mutant: a full array is written to without being expanded.
InsertNeverGrows(t) ==
  /\ In(t, "insert", "missing")
  /\ n >= maximum_size => ExpansionSize > 0
  /\ elements' = InsertAt(elements, InsertionPoint(t) + 1, call[t].data)
  /\ Return(t)
  /\ UNCHANGED <<maximum_size, should_not_be_modified, alive, lockvars>>

\* Expand if full (the allocation succeeds), shift right, fill in.
InsertNew(t) ==
  /\ In(t, "insert", "missing")
  /\ n >= maximum_size => ExpansionSize > 0
  /\ maximum_size' = IF n >= maximum_size THEN maximum_size + ExpansionSize
                                          ELSE maximum_size
  /\ elements' = InsertAt(elements, InsertionPoint(t) + 1, call[t].data)
  /\ Return(t)
  /\ UNCHANGED <<should_not_be_modified, alive, lockvars>>

\* Mutant: one element too few is pulled left, the last one.
RemovePullsTooFew(t) ==
  /\ In(t, "remove", "found")
  /\ elements' = [j \in 1..(n - 1) |-> IF j <= call[t].mid \/ j = n - 1
                                       THEN elements[j] ELSE elements[j + 1]]
  /\ Return(t)
  /\ UNCHANGED <<maximum_size, should_not_be_modified, alive, lockvars>>

\* thread_unsafe_index_obj_remove: pull what follows left by one.
RemoveEnd(t) ==
  /\ call[t].op = "remove"
  /\ \/ /\ call[t].at = "found"
        /\ elements' = RemoveAt(elements, call[t].mid + 1)
        /\ Return(t)
     \/ /\ call[t].at = "missing"
        /\ Return(t)
        /\ UNCHANGED elements
  /\ UNCHANGED <<maximum_size, should_not_be_modified, alive, lockvars>>

-----------------------------------------------------------------------------
\* index_obj_traverse: the flag keeps callbacks from changing the array.
TraverseStart(t) ==
  /\ In(t, "traverse", "start")
  /\ should_not_be_modified' = TRUE
  /\ Goto(t, "loop")
  /\ UNCHANGED <<elements, maximum_size, alive, lockvars>>

\* The callback returns without a nested call.
TraverseNext(t) ==
  /\ In(t, "traverse", "loop")
  /\ call[t].pos < n
  /\ call' = [call EXCEPT ![t].pos = @ + 1]
  /\ UNCHANGED <<object, lockvars>>

\* The last element is done, or the callback failed at one.
TraverseEnd(t) ==
  /\ In(t, "traverse", "loop")
  /\ should_not_be_modified' = FALSE
  /\ Return(t)
  /\ UNCHANGED <<elements, maximum_size, alive, lockvars>>

\* index_obj_trim: the size it will keep is computed before the lock.
TrimSize(t) ==
  /\ In(t, "trim", "size")
  /\ call' = [call EXCEPT ![t].at = "lock", ![t].lo = n + INDEX_OBJ_BLOAT]
  /\ UNCHANGED <<object, lockvars>>

TrimEnd(t) ==
  /\ In(t, "trim", "start")
  /\ \/ /\ maximum_size > call[t].lo
        /\ maximum_size' = call[t].lo
        /\ Return(t)
     \/ /\ maximum_size > call[t].lo
        /\ Return(t)
        /\ UNCHANGED maximum_size
     \/ /\ maximum_size <= call[t].lo
        /\ Return(t)
        /\ UNCHANGED maximum_size
  /\ UNCHANGED <<elements, should_not_be_modified, alive, lockvars>>

\* index_obj_reset: empties the array and calls trim, lock in hand.
Reset(t) ==
  /\ In(t, "reset", "start")
  /\ call[t].outer = "none"
  /\ elements' = <<>>
  /\ call' = [call EXCEPT ![t] = [Enter("trim", <<0, 0>>) EXCEPT
                                     !.outer = "reset"]]
  /\ UNCHANGED <<maximum_size, should_not_be_modified, alive, lockvars>>

-----------------------------------------------------------------------------
\* index_obj_destroy and a new index_obj_init, by the object's only user.
Quiet == \A t \in Threads : call[t].op = "none"

Destroy ==
  /\ alive /\ Quiet
  /\ elements' = <<>> /\ maximum_size' = 0
  /\ should_not_be_modified' = FALSE /\ alive' = FALSE
  /\ barred' = FALSE
  /\ UNCHANGED <<holds, writer, call>>

Create ==
  /\ ~alive
  /\ thread_safe' \in BOOLEAN
  /\ maximum_size' = InitialSize /\ alive' = TRUE
  /\ UNCHANGED <<elements, should_not_be_modified, lockvars, call>>

Body(t) ==
  \/ Start(t) \/ Bisect(t) \/ Exhausted(t)
  \/ SearchEnd(t) \/ InsertPresent(t) \/ InsertFails(t) \/ InsertNew(t)
  \/ RemoveEnd(t)
  \/ TraverseStart(t) \/ TraverseNext(t) \/ TraverseEnd(t)
  \/ TrimSize(t) \/ TrimEnd(t) \/ Reset(t)
  \/ Unlock(t) \/ Announce(t)

Step(t) ==
  \/ \E f \in Ops, d \in Data : Call(t, f, d) \/ CallbackCall(t, f, d)
  \/ LockRead(t) \/ LockWrite(t)
  \/ Body(t)

Next ==
  \/ (Destroy \/ \E t \in Threads : Step(t)) /\ UNCHANGED thread_safe
  \/ Create

Spec == Init /\ [][Next]_vars

\* A running call goes on.  The lock serves a waiting writer (WriterNotStarved
\* of LockObject), hence the strong fairness of LockWrite; it promises
\* readers nothing against a stream of writers, so LockRead is weakly fair.
Fairness == \A t \in Threads :
  /\ WF_vars(Body(t) /\ UNCHANGED thread_safe)
  /\ WF_vars(LockRead(t) /\ UNCHANGED thread_safe)
  /\ SF_vars(LockWrite(t) /\ UNCHANGED thread_safe)

FairSpec == Spec /\ Fairness

-----------------------------------------------------------------------------
CallType ==
  [op : Ops \cup {"none"},
   at : {"out", "size", "lock", "start", "find", "found", "missing", "loop",
         "unlock"},
   data : Data \cup {<<0, 0>>}, lo : Nat, hi : Int, mid : Nat, diff : Int,
   pos : Nat, outer : {"none", "traverse", "reset"}, opos : Nat]

TypeOK ==
  /\ thread_safe \in BOOLEAN
  /\ elements \in Seq(Data)
  /\ maximum_size \in Nat
  /\ should_not_be_modified \in BOOLEAN /\ alive \in BOOLEAN
  /\ holds \in [Threads -> 0..2] /\ writer \subseteq Threads
  /\ barred \in BOOLEAN
  /\ call \in [Threads -> CallType]
  /\ \A t \in Threads : call[t].mid \in 0..n /\ call[t].hi < n + 1

\* Every variable has its type, and the array is sorted with one datum for a
\* key, at every step.
Sorted ==
  /\ TypeOK
  /\ \A i, j \in 1..n : i < j => Key(elements[i]) < Key(elements[j])

\* index_object.h:80-83: the array has room for what it holds; "if more ...
\* are needed, then the object self expands".
CapacityHolds == n <= maximum_size

\* Bisection answers for the array as it is when the answer is used: the
\* datum is at mid, or every key before the insertion point is smaller and
\* every key from it on is larger.
FindSound ==
  \A t \in Threads :
    /\ call[t].at = "found" =>
         call[t].mid < n /\ Key(Slot(call[t].mid)) = Key(call[t].data)
    /\ call[t].at = "missing" =>
         /\ InsertionPoint(t) \in 0..n
         /\ \A i \in 0..(n - 1) :
              IF i < InsertionPoint(t) THEN Key(Slot(i)) < Key(call[t].data)
                                       ELSE Key(Slot(i)) > Key(call[t].data)

\* index_object.c:95, "being traversed, cannot be changed": no step changes
\* the array while a traversal is between its first and last element.
Traversing(t) ==
  \/ In(t, "traverse", "loop")
  \/ call[t].outer = "traverse"
TraversalUndisturbed ==
  [][(\E t \in Threads : Traversing(t)) => UNCHANGED elements]_vars

\* A modification that starts returns, whatever readers come and go.
ModificationReturns ==
  \A t \in Threads : call[t].op \in WriteOps ~> call[t].op \notin WriteOps

\* Every change of the array is one whole change of the set of data.
Abstract == INSTANCE SortedIndex WITH content <- ToSet(elements)
ImplementsSortedIndex == Abstract!IndexSpec
=============================================================================
