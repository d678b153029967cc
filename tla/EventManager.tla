---------------------------- MODULE EventManager ----------------------------
(***************************************************************************)
(* event_manager.c: who is to be called back for which events.  An object  *)
(* event or an attribute event (its kind) of some object type is announced *)
(* to those that registered for all types and then to those of that type.  *)
(* A type's registrants are in a container, found by an index; a           *)
(* registrant is the pair of a function and its argument, both addresses.  *)
(*                                                                         *)
(* The manager is not thread safe here: in a thread safe one a callback    *)
(* that calls the manager waits for the lock its own announcement holds.   *)
(* A call that is refused (EBUSY, EEXIST) changes nothing and is no step;  *)
(* an announcement is a step for each callback, between which the callback *)
(* may call any function of the manager but destroy.                       *)
(*                                                                         *)
(* Two things are not as the header has them, and history says where, so   *)
(* that the properties claim no more than the code does.  Addresses are    *)
(* compared by their differences in an int, which need not order them      *)
(* (ordered: it has wherever a list was changed).  And the end of an       *)
(* announcement clears the flag, also under one whose callback made it     *)
(* (lists: whether the lists can and did change under an announcement).    *)
(***************************************************************************)
EXTENDS Integers, SequencesExt

CONSTANTS
  Types,              \* object types
  ALL_OBJECT_TYPES,
  Registrants,        \* pairs <<fptr, extra_arg>> of addresses
  HALF_INT,           \* ints go from -HALF_INT to HALF_INT - 1
  MaxRegistrations,   \* bound: entries of all lists together
  MaxNesting          \* bound: announcements within callbacks, with the outer

ConstantsOK ==
  /\ ALL_OBJECT_TYPES \notin Types
  /\ Registrants \subseteq Int \X Int
  /\ HALF_INT \in Nat \ {0}

Kinds == {"object", "attribute"}
Scopes == Types \cup {ALL_OBJECT_TYPES}

VARIABLES
  alive,                    \* initialised and not destroyed
  should_not_be_modified,
  registrants,              \* the lists: by kind and scope where one exists
  announcing,               \* the announcements under way, innermost last
  registered,               \* history: the registrations asked for
  ordered                   \* history: every call has compared in order

vars ==
  <<alive, should_not_be_modified, registrants, announcing, registered, ordered>>

Empty == [k \in Kinds |-> [scope \in {ALL_OBJECT_TYPES} |-> <<>>]]

Init ==
  /\ alive = TRUE
  /\ should_not_be_modified = FALSE
  /\ registrants = Empty
  /\ announcing = <<>>
  /\ registered = {} /\ ordered = TRUE

event_manager_init ==
  /\ ~alive
  /\ alive' = TRUE
  /\ UNCHANGED <<should_not_be_modified, registrants, announcing, registered,
                 ordered>>

Top == Last(announcing)

\* Calls come from outside, or from a callback of the innermost announcement.
CallerRuns == announcing # <<>> => Top.place > 0

-----------------------------------------------------------------------------
\* The difference of two addresses, kept in an int.
Difference(a, b) == ((a - b + HALF_INT) % (2 * HALF_INT)) - HALF_INT

compare_f_and_args(r, s) ==
  LET byFunction == Difference(r[1], s[1])
  IN IF byFunction # 0 THEN byFunction ELSE Difference(r[2], s[2])

\* The comparison is an order of these registrants.
Ordered(some) ==
  \A r, s, u \in some :
    /\ compare_f_and_args(r, s) = 0 <=> r = s
    /\ compare_f_and_args(r, s) < 0 <=> compare_f_and_args(s, r) > 0
    /\ compare_f_and_args(r, s) < 0 /\ compare_f_and_args(s, u) < 0
         => compare_f_and_args(r, u) < 0

\* thread_unsafe_ordered_list_search: the elements passed on the way to r,
\* and whether the one that stopped it is r.
Passed(list, r) ==
  Min({i \in 0..Len(list) :
         i = Len(list) \/ compare_f_and_args(list[i + 1], r) >= 0})
Found(list, r) ==
  LET i == Passed(list, r) + 1
  IN i \in DOMAIN list /\ compare_f_and_args(list[i], r) = 0

\* get_relevant_structures without creation finds a list.
HasList(k, scope) == scope \in DOMAIN registrants[k]

already_registered(k, scope, r) ==
  HasList(k, scope) /\ Found(registrants[k][scope], r)

\* The list of a kind and scope, made with its container if it is missing.
ListOf(k, scope) ==
  IF HasList(k, scope) THEN registrants[k][scope] ELSE <<>>

\* A call that names r compares it with those in the list.
Comparable(k, scope, r) == Ordered(ToSet(ListOf(k, scope)) \cup {r})

Entries ==
  {e \in Kinds \X Scopes \X (1..MaxRegistrations) :
     e[3] \in DOMAIN ListOf(e[1], e[2])}

SetList(k, scope, list) ==
  registrants' = [registrants EXCEPT ![k] =
    [s \in DOMAIN @ \cup {scope} |-> IF s = scope THEN list ELSE @[s]]]

\* The lists change, by the call of a callback under each announcement in
\* which a callback has announced before.
ListsChange ==
  announcing' = [i \in DOMAIN announcing |->
    IF announcing[i].lists = "shut" THEN announcing[i]
    ELSE [announcing[i] EXCEPT !.lists = "changed", !.told = <<>>,
                               !.due = [r \in Registrants |-> 0]]]

\* Mutant: the flag is not asked.
RegisterAnyTime(k, scope, r) ==
  LET list == ListOf(k, scope) IN
  /\ alive /\ CallerRuns
  /\ ~Found(list, r)
  /\ Cardinality(Entries) < MaxRegistrations
  /\ SetList(k, scope, InsertAt(list, Passed(list, r) + 1, r))
  /\ registered' = registered \cup {<<k, scope, r>>}
  /\ ordered' = (ordered /\ Comparable(k, scope, r))
  /\ ListsChange
  /\ UNCHANGED <<alive, should_not_be_modified>>

\* register_for_object_events, register_for_attribute_events
Register(k, scope, r) ==
  LET list == ListOf(k, scope) IN
  /\ alive /\ CallerRuns /\ ~should_not_be_modified
  /\ ~Found(list, r)
  /\ Cardinality(Entries) < MaxRegistrations
  /\ SetList(k, scope, InsertAt(list, Passed(list, r) + 1, r))
  /\ registered' = registered \cup {<<k, scope, r>>}
  /\ ordered' = (ordered /\ Comparable(k, scope, r))
  /\ ListsChange
  /\ UNCHANGED <<alive, should_not_be_modified>>

\* There is memory for the container and none for the pair.
RegisterNoMemory(k, scope) ==
  /\ alive /\ CallerRuns /\ ~should_not_be_modified
  /\ ~HasList(k, scope)
  /\ SetList(k, scope, <<>>)
  /\ ListsChange
  /\ UNCHANGED <<alive, should_not_be_modified, registered, ordered>>

\* Mutant: the container goes with the first of its registrants.
UnRegisterAll(k, scope, r) ==
  /\ alive /\ CallerRuns /\ ~should_not_be_modified
  /\ HasList(k, scope)
  /\ IF scope # ALL_OBJECT_TYPES
     THEN registrants' = [registrants EXCEPT ![k] =
                            Restrict(@, DOMAIN @ \ {scope})]
     ELSE registrants' = [registrants EXCEPT ![k][scope] =
                            IF Found(@, r) THEN RemoveAt(@, Passed(@, r) + 1)
                            ELSE @]
  /\ registered' = registered \ {<<k, scope, r>>}
  /\ ordered' = (ordered /\ Comparable(k, scope, r))
  /\ ListsChange
  /\ UNCHANGED <<alive, should_not_be_modified>>

\* un_register_from_object_events, un_register_from_attribute_events: a
\* container whose list has become empty, or was, goes too.
UnRegister(k, scope, r) ==
  /\ alive /\ CallerRuns /\ ~should_not_be_modified
  /\ HasList(k, scope)
  /\ LET list == registrants[k][scope]
         rest == IF Found(list, r) THEN RemoveAt(list, Passed(list, r) + 1)
                 ELSE list
     IN IF rest = <<>> /\ scope # ALL_OBJECT_TYPES
        THEN registrants' = [registrants EXCEPT ![k] =
                               Restrict(@, DOMAIN @ \ {scope})]
        ELSE SetList(k, scope, rest)
  /\ registered' = registered \ {<<k, scope, r>>}
  /\ ordered' = (ordered /\ Comparable(k, scope, r))
  /\ ListsChange
  /\ UNCHANGED <<alive, should_not_be_modified>>

-----------------------------------------------------------------------------
(***************************************************************************)
(* Announcements.  place is how far the walk through the list of the scope *)
(* has come; told is history, the callbacks made, and due the number of    *)
(* calls each registrant was owed at the start.  lists is history too:     *)
(* the lists are shut by the flag, open since a callback has announced     *)
(* (the flag was cleared at its end), or changed by a callback since.  A   *)
(* walk whose list has changed is at a node that may have moved or may be  *)
(* gone: it may end after any call, and nothing is claimed of whom it      *)
(* tells.                                                                  *)
(***************************************************************************)
Owed(k, type) ==
  [r \in Registrants |->
     Cardinality({scope \in {ALL_OBJECT_TYPES, type} :
                    <<k, scope, r>> \in registered})]

Begun(k, type) ==
  [kind |-> k, type |-> type, scope |-> ALL_OBJECT_TYPES, place |-> 0,
   told |-> <<>>, due |-> Owed(k, type), lists |-> "shut"]

\* From a callback it is one within the announcement that called it.
announce_event(k, type) ==
  /\ alive
  /\ Len(announcing) < MaxNesting
  /\ CallerRuns
  /\ should_not_be_modified' = TRUE
  /\ announcing' = Append(
       [i \in DOMAIN announcing |->
          [announcing[i] EXCEPT !.lists = IF @ = "shut" THEN "open" ELSE @]],
       Begun(k, type))
  /\ UNCHANGED <<alive, registrants, registered, ordered>>

Walking ==
  /\ announcing # <<>>
  /\ HasList(Top.kind, Top.scope)
  /\ Top.place < Len(registrants[Top.kind][Top.scope])

Ends == announcing # <<>> /\ (Walking => Top.lists = "changed")

\* notify_all_registrants, one turn: the next in the list is called.
Notify ==
  /\ Walking
  /\ announcing' = [announcing EXCEPT
       ![Len(announcing)].place = @ + 1,
       ![Len(announcing)].told =
          IF Top.lists = "changed" THEN @
          ELSE Append(@, registrants[Top.kind][Top.scope][Top.place + 1])]
  /\ UNCHANGED <<alive, should_not_be_modified, registrants, registered, ordered>>

\* Those of all types are through, those of the event's type are next.
NotifyType ==
  /\ Ends
  /\ Top.scope = ALL_OBJECT_TYPES
  /\ announcing' = [announcing EXCEPT ![Len(announcing)].scope = Top.type,
                                      ![Len(announcing)].place = 0]
  /\ UNCHANGED <<alive, should_not_be_modified, registrants, registered, ordered>>

Through == Ends /\ Top.scope # ALL_OBJECT_TYPES

announce_event_returns ==
  /\ Through
  /\ announcing' = Front(announcing)
  /\ should_not_be_modified' = FALSE
  /\ UNCHANGED <<alive, registrants, registered, ordered>>

\* The handler of containers takes the manager first and is called with it
\* last, null: there are no containers when this is called.
event_manager_destroy ==
  /\ alive /\ announcing = <<>>
  /\ \A k \in Kinds : DOMAIN registrants[k] = {ALL_OBJECT_TYPES}
  /\ alive' = FALSE
  /\ registrants' = Empty
  /\ registered' = {} /\ ordered' = TRUE
  /\ UNCHANGED <<should_not_be_modified, announcing>>

Next ==
  \/ event_manager_init \/ event_manager_destroy
  \/ Notify \/ NotifyType \/ announce_event_returns
  \/ \E k \in Kinds :
       \/ \E type \in Types : announce_event(k, type)
       \/ \E scope \in Scopes : \/ RegisterNoMemory(k, scope)
                                \/ \E r \in Registrants :
                                     \/ Register(k, scope, r)
                                     \/ UnRegister(k, scope, r)

Spec == Init /\ [][Next]_vars

-----------------------------------------------------------------------------
\* Whoever has registered and not unregistered since is found registered,
\* nobody else is, and no list has anybody twice, as long as the comparison
\* has ordered those it was used on, and orders those asked for.  (Addresses
\* that are too far apart are taken for one another, or lost: Difference.)
Registered ==
  ordered =>
    \A k \in Kinds, scope \in Scopes :
      /\ IsInjective(ListOf(k, scope))
      /\ \A r \in Registrants : Comparable(k, scope, r) =>
           (already_registered(k, scope, r) <=> <<k, scope, r>> \in registered)

\* By its end an announcement has called each registrant once for each
\* registration that matched the event when it began, whatever its callbacks
\* tried meanwhile: unless one of them has announced, within this one, and one
\* then changed the lists, which the flag no longer keeps it from; and unless
\* registrants have compared out of order.
ToldAsRegistered ==
  Through /\ Top.lists # "changed" /\ ordered =>
    \A r \in Registrants :
      Cardinality({i \in DOMAIN Top.told : Top.told[i] = r}) = Top.due[r]
=============================================================================
