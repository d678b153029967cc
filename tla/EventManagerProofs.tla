------------------------- MODULE EventManagerProofs -------------------------
(***************************************************************************)
(* For any object types, registrants, numbers of registrations and depth   *)
(* of nested announcements: as long as the addresses that were compared    *)
(* have compared in order, the event manager knows who is registered, and  *)
(* an announcement under which no list has changed reaches each of them    *)
(* once for each registration.  That order holds throughout when no two    *)
(* addresses are further apart than an int reaches.                        *)
(***************************************************************************)
EXTENDS EventManager, DataLemmas

\* No two addresses are further apart than an int reaches.
Near(a, b) == -HALF_INT <= a - b /\ a - b < HALF_INT
AddressesNear ==
  \A r, s \in Registrants : Near(r[1], s[1]) /\ Near(r[2], s[2])

LEMMA DifferenceNear ==
  ASSUME ConstantsOK, NEW a \in Int, NEW b \in Int
  PROVE  Difference(a, b) \in Int /\ (Near(a, b) => Difference(a, b) = a - b)
<1> DEFINE d == a - b + HALF_INT
           w == 2 * HALF_INT
<1>1. HALF_INT \in Nat \ {0} /\ d \in Int /\ w \in Nat \ {0}
  BY DEF ConstantsOK
<1>2. Near(a, b) => d \in 0..(w - 1)
  BY <1>1 DEF Near
<1> HIDE DEF w
<1>3. d % w \in Int
  BY <1>1
<1>4. d \in 0..(w - 1) => d % w = d
  BY <1>1
<1>5. Difference(a, b) = (d % w) - HALF_INT
  BY DEF Difference, w
<1>6. QED
  BY <1>1, <1>2, <1>3, <1>4, <1>5

\* Addresses as the loader and the heap give them to a program that is not
\* too large are ordered.
LEMMA NearOrdered ==
  ASSUME ConstantsOK, AddressesNear
  PROVE  Ordered(Registrants)
<1>1. \A r \in Registrants : r[1] \in Int /\ r[2] \in Int /\ r = <<r[1], r[2]>>
  BY DEF ConstantsOK
<1>2. \A r, s \in Registrants :
        compare_f_and_args(r, s) = IF r[1] # s[1] THEN r[1] - s[1] ELSE r[2] - s[2]
  <2> SUFFICES ASSUME NEW r \in Registrants, NEW s \in Registrants
               PROVE  compare_f_and_args(r, s)
                        = IF r[1] # s[1] THEN r[1] - s[1] ELSE r[2] - s[2]
    OBVIOUS
  <2>1. Difference(r[1], s[1]) = r[1] - s[1] /\ Difference(r[2], s[2]) = r[2] - s[2]
    BY <1>1, DifferenceNear DEF AddressesNear
  <2>2. QED
    BY <1>1, <2>1 DEF compare_f_and_args
<1>3. QED
  BY <1>1, <1>2 DEF Ordered

LEMMA CompareInt ==
  ASSUME ConstantsOK, NEW r \in Registrants, NEW s \in Registrants
  PROVE  compare_f_and_args(r, s) \in Int /\ compare_f_and_args(r, r) = 0
<1>1. r[1] \in Int /\ r[2] \in Int /\ s[1] \in Int /\ s[2] \in Int
  BY DEF ConstantsOK
<1>2. compare_f_and_args(r, s) \in Int
  BY <1>1, DifferenceNear DEF compare_f_and_args
<1>3. \A a \in Int : Difference(a, a) = 0
  <2> SUFFICES ASSUME NEW a \in Int PROVE Difference(a, a) = 0
    OBVIOUS
  <2>1. a - a = 0 /\ Near(a, a)
    BY DEF Near, ConstantsOK
  <2>2. QED
    BY <2>1, DifferenceNear
<1>4. QED
  BY <1>1, <1>2, <1>3 DEF compare_f_and_args

\* Those in a list and whoever is compared with them.
LEMMA InListOf ==
  ASSUME NEW list \in Seq(Registrants), NEW r \in Registrants
  PROVE  /\ ToSet(list) \cup {r} \in SUBSET Registrants
         /\ list \in Seq(ToSet(list) \cup {r})
<1>1. ToSet(list) \subseteq Registrants
  BY ElementsTyped
<1>2. \A i \in 1..Len(list) : list[i] \in ToSet(list) \cup {r}
  BY DEF ToSet
<1> DEFINE W == ToSet(list) \cup {r}
<1> HIDE DEF W
<1>3. \A i \in 1..Len(list) : list[i] \in W
  BY <1>2 DEF W
<1>4. list \in Seq(W)
  BY <1>3
<1>5. QED
  BY <1>1, <1>4 DEF W

-----------------------------------------------------------------------------
(***************************************************************************)
(* An ordered list: search, insertion, removal.                            *)
(***************************************************************************)
Ascending(list) ==
  \A i, j \in 1..Len(list) : i < j => compare_f_and_args(list[i], list[j]) < 0

\* An ascending list has nobody twice.
LEMMA AscendingInjective ==
  ASSUME ConstantsOK, NEW list \in Seq(Registrants), Ascending(list)
  PROVE  IsInjective(list)
<1>1. \A i, j \in 1..Len(list) : i < j => list[i] # list[j]
  <2> SUFFICES ASSUME NEW i \in 1..Len(list), NEW j \in 1..Len(list), i < j
               PROVE  list[i] # list[j]
    OBVIOUS
  <2>1. list[i] \in Registrants /\ list[j] \in Registrants
        /\ compare_f_and_args(list[i], list[j]) < 0
    BY DEF Ascending
  <2>2. compare_f_and_args(list[i], list[i]) = 0
    BY <2>1, CompareInt
  <2>3. QED
    BY <2>1, <2>2
<1>2. \A i, j \in 1..Len(list) : i < j \/ j < i \/ i = j
  OBVIOUS
<1>3. QED
  BY <1>1, <1>2 DEF IsInjective

\* Whatever the comparison says, the search stops within the list.
LEMMA PassedTyped ==
  ASSUME ConstantsOK, NEW list \in Seq(Registrants), NEW r
  PROVE  /\ Passed(list, r) \in 0..Len(list)
         /\ Passed(list, r) = Len(list)
              \/ compare_f_and_args(list[Passed(list, r) + 1], r) >= 0
         /\ \A i \in 0..Len(list) :
              i = Len(list) \/ compare_f_and_args(list[i + 1], r) >= 0
                => Passed(list, r) <= i
         /\ Found(list, r) => Passed(list, r) + 1 \in 1..Len(list)
<1> DEFINE n == Len(list)
           stops == {i \in 0..n : i = n \/ compare_f_and_args(list[i + 1], r) >= 0}
           p == Passed(list, r)
<1>1. n \in Nat
  OBVIOUS
<1>2. p \in stops /\ \A i \in stops : p <= i
  <2>1. p = Min(stops) /\ stops \subseteq Nat /\ n \in stops
    BY <1>1 DEF Passed
  <2> HIDE DEF stops, p
  <2>2. QED
    BY <2>1, LeastOf
<1>3. Found(list, r) => p + 1 \in 1..n
  BY DEF Found
<1>4. QED
  BY <1>2, <1>3

\* The search stops at the place of r, or where r belongs.
LEMMA SearchStops ==
  ASSUME ConstantsOK, NEW W \in SUBSET Registrants, Ordered(W), NEW list \in Seq(W),
         Ascending(list), NEW r \in W
  PROVE  /\ Passed(list, r) \in 0..Len(list)
         /\ \A j \in 1..Len(list) :
              j <= Passed(list, r) <=> compare_f_and_args(list[j], r) < 0
         /\ Found(list, r) <=> r \in ToSet(list)
         /\ Found(list, r) =>
              Passed(list, r) + 1 \in 1..Len(list) /\ list[Passed(list, r) + 1] = r
<1> DEFINE n == Len(list)
           c(j) == compare_f_and_args(list[j], r)
           stops == {i \in 0..n : i = n \/ compare_f_and_args(list[i + 1], r) >= 0}
           p == Passed(list, r)
<1>1. /\ n \in Nat /\ list \in Seq(Registrants) /\ r \in Registrants
      /\ \A j \in 1..n : list[j] \in W /\ c(j) \in Int
  BY CompareInt, SMTT(30)
<1>2. p \in stops /\ \A i \in stops : p <= i
  BY <1>1, PassedTyped
<1> HIDE DEF p
<1>3. \A j \in 1..n : j <= p => c(j) < 0
  <2> SUFFICES ASSUME NEW j \in 1..n, j <= p, ~(c(j) < 0) PROVE FALSE
    OBVIOUS
  <2>1. j - 1 \in 0..n /\ j - 1 + 1 = j
    BY <1>1
  <2>2. c(j) >= 0
    BY <1>1
  <2>3. j - 1 \in stops
    BY <2>1, <2>2
  <2>4. p \in 0..n /\ p <= j - 1
    BY <1>2, <2>3
  <2>5. QED
    BY <2>1, <2>4
<1>4. \A j \in 1..n : j > p => ~(c(j) < 0)
  <2> SUFFICES ASSUME NEW j \in 1..n, j > p PROVE ~(c(j) < 0)
    OBVIOUS
  <2>1. p + 1 \in 1..n /\ c(p + 1) >= 0
    BY <1>1, <1>2
  <2>2. CASE j = p + 1
    BY <1>1, <2>1, <2>2
  <2>3. CASE j > p + 1
    <3>1. compare_f_and_args(list[p + 1], list[j]) < 0
      BY <2>1, <2>3 DEF Ascending
    <3>2. c(p + 1) = 0 => list[p + 1] = r
      BY <1>1, <2>1 DEF Ordered
    <3>3. c(p + 1) > 0 => compare_f_and_args(r, list[p + 1]) < 0
      BY <1>1, <2>1 DEF Ordered
    <3>4. compare_f_and_args(r, list[j]) < 0
      BY <1>1, <2>1, <3>1, <3>2, <3>3 DEF Ordered
    <3>5. QED
      BY <1>1, <3>4 DEF Ordered
  <2>4. QED
    BY <1>1, <1>2, <2>2, <2>3
<1>5. Found(list, r) <=> p + 1 \in 1..n /\ c(p + 1) = 0
  BY <1>1 DEF Found, p
<1>6. Found(list, r) => p + 1 \in 1..n /\ list[p + 1] = r
  BY <1>1, <1>5 DEF Ordered
<1>7. ASSUME r \in ToSet(list)
      PROVE  Found(list, r)
  <2>1. PICK j \in 1..n : list[j] = r
    BY <1>7 DEF ToSet
  <2>2. c(j) = 0
    BY <2>1 DEF Ordered
  <2>3. p < j /\ p + 1 \in 1..n /\ c(p + 1) >= 0
    BY <1>1, <1>2, <1>3, <2>2
  <2>4. CASE p + 1 = j
    BY <1>5, <2>2, <2>4
  <2>5. CASE p + 1 < j
    <3>1. compare_f_and_args(list[p + 1], list[j]) < 0
      BY <2>3, <2>5 DEF Ascending
    <3>2. QED
      BY <1>1, <2>1, <2>3, <3>1
  <2>6. QED
    BY <1>1, <1>2, <2>3, <2>4, <2>5
<1>8. Found(list, r) => r \in ToSet(list)
  BY <1>6 DEF ToSet
<1>9. QED
  BY <1>1, <1>2, <1>3, <1>4, <1>6, <1>7, <1>8 DEF p

LEMMA InsertAscends ==
  ASSUME ConstantsOK, NEW W \in SUBSET Registrants, Ordered(W), NEW list \in Seq(W),
         Ascending(list), NEW r \in W, ~Found(list, r)
  PROVE  LET new == InsertAt(list, Passed(list, r) + 1, r) IN
         /\ Ascending(new)
         /\ ToSet(new) = ToSet(list) \cup {r}
<1> DEFINE n == Len(list)
           p == Passed(list, r)
           new == InsertAt(list, p + 1, r)
<1>1. /\ p \in 0..n /\ p + 1 \in 1..(n + 1)
      /\ \A j \in 1..n : j <= p <=> compare_f_and_args(list[j], r) < 0
      /\ r \notin ToSet(list)
  BY SearchStops
<1>2. \A j \in 1..n : list[j] \in W /\ compare_f_and_args(list[j], r) \in Int
                      /\ list[j] # r
  <2>1. \A j \in 1..n : list[j] \in W /\ list[j] \in ToSet(list)
    BY DEF ToSet
  <2>2. QED
    BY <1>1, <2>1, CompareInt
<1>3. \A j \in 1..n : j > p => compare_f_and_args(r, list[j]) < 0
  <2> SUFFICES ASSUME NEW j \in 1..n, j > p
               PROVE  compare_f_and_args(r, list[j]) < 0
    OBVIOUS
  <2>1. ~(compare_f_and_args(list[j], r) < 0) /\ compare_f_and_args(list[j], r) # 0
    BY <1>1, <1>2 DEF Ordered
  <2>2. compare_f_and_args(list[j], r) > 0
    BY <1>2, <2>1
  <2>3. QED
    BY <1>2, <2>2 DEF Ordered
<1> HIDE DEF p
<1>4. /\ new \in Seq(W) /\ Len(new) = n + 1
      /\ \A j \in 1..(n + 1) :
           new[j] = IF j < p + 1 THEN list[j] ELSE IF j = p + 1 THEN r ELSE list[j - 1]
      /\ ToSet(new) = ToSet(list) \cup {r}
  <2> DEFINE k == p + 1
  <2>1. k \in 1..(n + 1)
    BY <1>1
  <2> HIDE DEF k
  <2>2. /\ InsertAt(list, k, r) \in Seq(W)
        /\ Len(InsertAt(list, k, r)) = n + 1
        /\ \A j \in 1..(n + 1) :
             InsertAt(list, k, r)[j]
               = IF j < k THEN list[j] ELSE IF j = k THEN r ELSE list[j - 1]
        /\ ToSet(InsertAt(list, k, r)) = ToSet(list) \cup {r}
    BY <2>1, Inserted
  <2>3. QED
    BY <2>2 DEF k
<1> HIDE DEF new
<1>5. ASSUME NEW i \in 1..(n + 1), NEW j \in 1..(n + 1), i < j
      PROVE  compare_f_and_args(new[i], new[j]) < 0
  <2>1. CASE j < p + 1
    <3>1. i \in 1..n /\ j \in 1..n /\ new[i] = list[i] /\ new[j] = list[j]
      BY <1>1, <1>4, <1>5, <2>1
    <3>2. QED
      BY <1>5, <3>1 DEF Ascending
  <2>2. CASE j = p + 1
    <3>1. i \in 1..n /\ i <= p /\ new[i] = list[i] /\ new[j] = r
      BY <1>1, <1>4, <1>5, <2>2
    <3>2. QED
      BY <1>1, <3>1
  <2>3. CASE j > p + 1
    <3>1. j - 1 \in 1..n /\ j - 1 > p /\ new[j] = list[j - 1]
      BY <1>1, <1>4, <1>5, <2>3
    <3>2. CASE i < p + 1
      <4>1. i \in 1..n /\ i < j - 1 /\ new[i] = list[i]
        BY <1>1, <1>4, <2>3, <3>2
      <4>2. QED
        BY <3>1, <4>1 DEF Ascending
    <3>3. CASE i = p + 1
      BY <1>3, <1>4, <3>1, <3>3
    <3>4. CASE i > p + 1
      <4>1. i - 1 \in 1..n /\ i - 1 < j - 1 /\ new[i] = list[i - 1]
        BY <1>1, <1>4, <1>5, <3>4
      <4>2. QED
        BY <3>1, <4>1 DEF Ascending
    <3>5. QED
      BY <1>1, <3>2, <3>3, <3>4
  <2>4. QED
    BY <1>1, <2>1, <2>2, <2>3
<1>6. QED
  BY <1>4, <1>5 DEF Ascending, new, p

LEMMA RemoveAscends ==
  ASSUME ConstantsOK, NEW W \in SUBSET Registrants, Ordered(W), NEW list \in Seq(W),
         Ascending(list), NEW r \in W, Found(list, r)
  PROVE  LET new == RemoveAt(list, Passed(list, r) + 1) IN
         /\ Ascending(new)
         /\ ToSet(new) = ToSet(list) \ {r}
<1> DEFINE n == Len(list)
           k == Passed(list, r) + 1
           new == RemoveAt(list, k)
<1>1. k \in 1..n /\ list[k] = r
  BY SearchStops
<1> HIDE DEF k
<1>2. /\ new \in Seq(W) /\ Len(new) = n - 1
      /\ \A j \in 1..(n - 1) : new[j] = IF j < k THEN list[j] ELSE list[j + 1]
      /\ ToSet(new) = {list[j] : j \in (1..n) \ {k}}
  BY <1>1, Removed
<1> HIDE DEF new
<1>3. \A i, j \in 1..(n - 1) : i < j => compare_f_and_args(new[i], new[j]) < 0
  <2> SUFFICES ASSUME NEW i \in 1..(n - 1), NEW j \in 1..(n - 1), i < j
               PROVE  compare_f_and_args(new[i], new[j]) < 0
    OBVIOUS
  <2> DEFINE x == IF i < k THEN i ELSE i + 1
             y == IF j < k THEN j ELSE j + 1
  <2>1. x \in 1..n /\ y \in 1..n /\ x < y
    BY <1>1
  <2>2. new[i] = list[x] /\ new[j] = list[y]
    BY <1>2
  <2> HIDE DEF x, y
  <2>3. QED
    BY <2>1, <2>2 DEF Ascending
<1>4. ToSet(new) = ToSet(list) \ {r}
  <2>1. IsInjective(list)
    <3>1. list \in Seq(Registrants)
      OBVIOUS
    <3>2. QED
      BY <3>1, AscendingInjective
  <2>2. \A j \in 1..n : list[j] = r <=> j = k
    BY <1>1, <2>1 DEF IsInjective
  <2>3. ToSet(list) = {list[j] : j \in 1..n}
    BY DEF ToSet
  <2>4. {list[j] : j \in (1..n) \ {k}} = {list[j] : j \in 1..n} \ {r}
    BY <1>1, <2>2
  <2>5. QED
    BY <1>2, <2>3, <2>4
<1>5. QED
  BY <1>2, <1>3, <1>4 DEF Ascending, new, k

-----------------------------------------------------------------------------
(***************************************************************************)
(* Who is registered.                                                      *)
(***************************************************************************)
Lists == UNION {[S -> Seq(Registrants)] : S \in SUBSET Scopes}

TypeOK ==
  /\ alive \in BOOLEAN /\ should_not_be_modified \in BOOLEAN
  /\ registrants \in [Kinds -> Lists]
  /\ registered \subseteq Kinds \X Scopes \X Registrants
  /\ ordered \in BOOLEAN

\* Each list ascends and has those registered.
ListsRight ==
  \A k \in Kinds, scope \in Scopes :
    /\ Ascending(ListOf(k, scope))
    /\ \A r \in Registrants :
         r \in ToSet(ListOf(k, scope)) <=> <<k, scope, r>> \in registered

IInv ==
  /\ TypeOK
  /\ \A k \in Kinds : HasList(k, ALL_OBJECT_TYPES)
  /\ ordered => ListsRight

\* The list of a kind and scope, missing or not.
LEMMA ListTyped ==
  ASSUME TypeOK, NEW k \in Kinds, NEW scope \in Scopes
  PROVE  ListOf(k, scope) \in Seq(Registrants)
<1>1. PICK D \in SUBSET Scopes : registrants[k] \in [D -> Seq(Registrants)]
  BY DEF TypeOK, Lists
<1>2. CASE HasList(k, scope)
  BY <1>1, <1>2 DEF ListOf, HasList
<1>3. CASE ~HasList(k, scope)
  BY <1>3 DEF ListOf
<1>4. QED
  BY <1>2, <1>3

\* What SetList does to one list.
LEMMA ListSet ==
  ASSUME TypeOK, NEW k \in Kinds, NEW scope \in Scopes, NEW list \in Seq(Registrants),
         SetList(k, scope, list)
  PROVE  /\ registrants' \in [Kinds -> Lists]
         /\ HasList(k, scope)' /\ ListOf(k, scope)' = list
         /\ \A l \in Kinds, s \in Scopes : <<l, s>> # <<k, scope>> =>
              (HasList(l, s)' <=> HasList(l, s)) /\ ListOf(l, s)' = ListOf(l, s)
<1> DEFINE old == registrants[k]
           new == [s \in DOMAIN old \cup {scope} |-> IF s = scope THEN list ELSE old[s]]
<1>1. registrants' = [registrants EXCEPT ![k] = new] /\ registrants \in [Kinds -> Lists]
  BY DEF SetList, TypeOK
<1>2. PICK S \in SUBSET Scopes : old \in [S -> Seq(Registrants)]
  BY DEF TypeOK, Lists
<1>3. new \in [S \cup {scope} -> Seq(Registrants)]
  BY <1>2
<1>4. new \in Lists
  BY <1>3 DEF Lists
<1>5. registrants' \in [Kinds -> Lists] /\ registrants'[k] = new
      /\ \A l \in Kinds : l # k => registrants'[l] = registrants[l]
  <2> HIDE DEF new
  <2>1. QED
    BY <1>1, <1>4
<1>6. HasList(k, scope)' /\ ListOf(k, scope)' = list
  BY <1>5 DEF HasList, ListOf
<1>7. ASSUME NEW l \in Kinds, NEW s \in Scopes, <<l, s>> # <<k, scope>>
      PROVE  (HasList(l, s)' <=> HasList(l, s)) /\ ListOf(l, s)' = ListOf(l, s)
  <2>1. CASE l = k
    <3>1. s # scope
      BY <1>7, <2>1
    <3>2. QED
      BY <1>2, <1>5, <2>1, <3>1 DEF HasList, ListOf
  <2>2. CASE l # k
    BY <1>5, <2>2 DEF HasList, ListOf
  <2>3. QED
    BY <2>1, <2>2
<1>8. QED
  BY <1>5, <1>6, <1>7

\* And what the removal of a container does.
LEMMA ListDropped ==
  ASSUME TypeOK, NEW k \in Kinds, NEW scope \in Scopes,
         registrants' = [registrants EXCEPT ![k] = Restrict(@, DOMAIN @ \ {scope})]
  PROVE  /\ registrants' \in [Kinds -> Lists]
         /\ ~HasList(k, scope)' /\ ListOf(k, scope)' = <<>>
         /\ \A l \in Kinds, s \in Scopes : <<l, s>> # <<k, scope>> =>
              (HasList(l, s)' <=> HasList(l, s)) /\ ListOf(l, s)' = ListOf(l, s)
<1> DEFINE old == registrants[k]
           new == Restrict(old, DOMAIN old \ {scope})
<1>1. registrants' = [registrants EXCEPT ![k] = new] /\ registrants \in [Kinds -> Lists]
  BY DEF TypeOK
<1>2. PICK S \in SUBSET Scopes : old \in [S -> Seq(Registrants)]
  BY DEF TypeOK, Lists
<1>3. new = [s \in S \ {scope} |-> old[s]] /\ new \in [S \ {scope} -> Seq(Registrants)]
  BY <1>2 DEF Restrict
<1> HIDE DEF new
<1>4. new \in Lists
  BY <1>3 DEF Lists
<1>5. registrants' \in [Kinds -> Lists] /\ registrants'[k] = new
      /\ \A l \in Kinds : l # k => registrants'[l] = registrants[l]
  BY <1>1, <1>4
<1>6. ~HasList(k, scope)' /\ ListOf(k, scope)' = <<>>
  BY <1>3, <1>5 DEF HasList, ListOf
<1>7. ASSUME NEW l \in Kinds, NEW s \in Scopes, <<l, s>> # <<k, scope>>
      PROVE  (HasList(l, s)' <=> HasList(l, s)) /\ ListOf(l, s)' = ListOf(l, s)
  <2>1. CASE l = k
    <3>1. s # scope
      BY <1>7, <2>1
    <3>2. QED
      BY <1>2, <1>3, <1>5, <2>1, <3>1 DEF HasList, ListOf
  <2>2. CASE l # k
    BY <1>5, <2>2 DEF HasList, ListOf
  <2>3. QED
    BY <2>1, <2>2
<1>8. QED
  BY <1>5, <1>6, <1>7

\* A change of one list, and of the registrations with it, keeps IInv.
LEMMA OneListChanges ==
  ASSUME IInv, NEW k \in Kinds, NEW scope \in Scopes, NEW list \in Seq(Registrants),
         NEW Q \in SUBSET (Kinds \X Scopes \X Registrants),
         ordered' \in BOOLEAN,
         ordered' => /\ ordered
                     /\ Ascending(list)
                     /\ \A r \in Registrants : r \in ToSet(list) <=> <<k, scope, r>> \in Q,
         \A t \in Kinds \X Scopes \X Registrants :
           <<t[1], t[2]>> # <<k, scope>> => (t \in Q <=> t \in registered),
         registered' = Q, UNCHANGED alive, UNCHANGED should_not_be_modified,
         registrants' \in [Kinds -> Lists], ListOf(k, scope)' = list,
         scope = ALL_OBJECT_TYPES => HasList(k, scope)',
         \A l \in Kinds, s \in Scopes : <<l, s>> # <<k, scope>> =>
           (HasList(l, s)' <=> HasList(l, s)) /\ ListOf(l, s)' = ListOf(l, s)
  PROVE  IInv'
<1>1. TypeOK'
  BY DEF IInv, TypeOK
<1>2. \A l \in Kinds : HasList(l, ALL_OBJECT_TYPES)'
  BY DEF IInv, Scopes
<1>3. ASSUME ordered', NEW l \in Kinds, NEW s \in Scopes
      PROVE  /\ Ascending(ListOf(l, s)')
             /\ \A r \in Registrants :
                  r \in ToSet(ListOf(l, s)') <=> <<l, s, r>> \in registered'
  <2>1. CASE <<l, s>> = <<k, scope>>
    BY <1>3, <2>1
  <2>2. CASE <<l, s>> # <<k, scope>>
    <3>1. ListOf(l, s)' = ListOf(l, s)
      BY <2>2
    <3>2. \A r \in Registrants : <<l, s, r>> \in Q <=> <<l, s, r>> \in registered
      BY <2>2
    <3>3. QED
      BY <1>3, <3>1, <3>2 DEF IInv, ListsRight
  <2>3. QED
    BY <2>1, <2>2
<1>4. QED
  BY <1>1, <1>2, <1>3 DEF IInv, ListsRight, Ascending

\* The containers of all types, empty.
LEMMA EmptyTyped == [scope \in {ALL_OBJECT_TYPES} |-> <<>>] \in Lists
<1>1. {ALL_OBJECT_TYPES} \in SUBSET Scopes
  BY DEF Scopes
<1>2. [scope \in {ALL_OBJECT_TYPES} |-> <<>>] \in [{ALL_OBJECT_TYPES} -> Seq(Registrants)]
  <2>1. <<>> \in Seq(Registrants)
    OBVIOUS
  <2>2. QED
    BY <2>1
<1>3. QED
  BY <1>1, <1>2 DEF Lists

LEMMA InitInv == Init => IInv
<1> SUFFICES ASSUME Init PROVE IInv
  OBVIOUS
<1>1. <<>> \in Seq(Registrants)
  OBVIOUS
<1>2. /\ registrants = [k \in Kinds |-> [scope \in {ALL_OBJECT_TYPES} |-> <<>>]]
      /\ registered = {}
  BY DEF Init, Empty
<1>3. [scope \in {ALL_OBJECT_TYPES} |-> <<>>] \in Lists
  BY EmptyTyped
<1>4. TypeOK
  BY <1>2, <1>3 DEF Init, TypeOK
<1>5. \A k \in Kinds, scope \in Scopes : ListOf(k, scope) = <<>>
  BY <1>2 DEF ListOf, HasList
<1>6. ListsRight
  <2> SUFFICES ASSUME NEW k \in Kinds, NEW scope \in Scopes
               PROVE  /\ Ascending(ListOf(k, scope))
                      /\ \A r \in Registrants :
                           r \in ToSet(ListOf(k, scope)) <=> <<k, scope, r>> \in registered
    BY DEF ListsRight
  <2>1. ListOf(k, scope) = <<>> /\ ToSet(<<>>) = {} /\ Len(<<>>) = 0
    BY <1>5, ElementsOfEmpty
  <2>2. QED
    BY <1>1, <1>2, <2>1 DEF Ascending
<1>7. QED
  BY <1>2, <1>4, <1>6 DEF IInv, HasList

\* In an order of those in it and of r, a list with r put in or taken out
\* where the search for r stops ascends, and r is in it or is not.
LEMMA ListsAscend ==
  ASSUME ConstantsOK, NEW list \in Seq(Registrants), NEW r \in Registrants
  PROVE  /\ InsertAt(list, Passed(list, r) + 1, r) \in Seq(Registrants)
         /\ Found(list, r) => RemoveAt(list, Passed(list, r) + 1) \in Seq(Registrants)
         /\ Ascending(list) /\ Ordered(ToSet(list) \cup {r}) =>
              /\ Found(list, r) <=> r \in ToSet(list)
              /\ ~Found(list, r) =>
                   /\ Ascending(InsertAt(list, Passed(list, r) + 1, r))
                   /\ ToSet(InsertAt(list, Passed(list, r) + 1, r)) = ToSet(list) \cup {r}
              /\ Found(list, r) =>
                   /\ Ascending(RemoveAt(list, Passed(list, r) + 1))
                   /\ ToSet(RemoveAt(list, Passed(list, r) + 1)) = ToSet(list) \ {r}
<1> DEFINE p == Passed(list, r) + 1
<1>1. p \in 1..(Len(list) + 1) /\ (Found(list, r) => p \in 1..Len(list))
  BY PassedTyped
<1> HIDE DEF p
<1>2. /\ InsertAt(list, p, r) \in Seq(Registrants)
      /\ Found(list, r) => RemoveAt(list, p) \in Seq(Registrants)
  BY <1>1, Inserted, Removed
<1>3. PICK W \in SUBSET Registrants :
        W = ToSet(list) \cup {r} /\ list \in Seq(W) /\ r \in W
  <2> DEFINE X == ToSet(list) \cup {r}
  <2>1. X \in SUBSET Registrants /\ list \in Seq(X) /\ r \in X
    BY InListOf
  <2> HIDE DEF X
  <2>2. \E W \in SUBSET Registrants : W = X /\ list \in Seq(W) /\ r \in W
    BY <2>1
  <2>3. QED
    BY <2>2 DEF X
<1>4. ASSUME Ascending(list), Ordered(W)
      PROVE  /\ Found(list, r) <=> r \in ToSet(list)
             /\ ~Found(list, r) =>
                  /\ Ascending(InsertAt(list, p, r))
                  /\ ToSet(InsertAt(list, p, r)) = ToSet(list) \cup {r}
             /\ Found(list, r) =>
                  /\ Ascending(RemoveAt(list, p))
                  /\ ToSet(RemoveAt(list, p)) = ToSet(list) \ {r}
  <2>1. Found(list, r) <=> r \in ToSet(list)
    BY <1>3, <1>4, SearchStops
  <2>2. ~Found(list, r) =>
          /\ Ascending(InsertAt(list, p, r))
          /\ ToSet(InsertAt(list, p, r)) = ToSet(list) \cup {r}
    BY <1>3, <1>4, InsertAscends DEF p
  <2>3. Found(list, r) =>
          /\ Ascending(RemoveAt(list, p))
          /\ ToSet(RemoveAt(list, p)) = ToSet(list) \ {r}
    BY <1>3, <1>4, RemoveAscends DEF p
  <2>4. QED
    BY <2>1, <2>2, <2>3
<1>5. QED
  BY <1>2, <1>3, <1>4 DEF p

LEMMA RegisterInv ==
  ASSUME ConstantsOK, IInv, NEW k \in Kinds, NEW scope \in Scopes,
         NEW r \in Registrants, Register(k, scope, r)
  PROVE  IInv'
<1> DEFINE list == ListOf(k, scope)
           new == InsertAt(list, Passed(list, r) + 1, r)
           Q == registered \cup {<<k, scope, r>>}
<1>1. /\ SetList(k, scope, new) /\ registered' = Q /\ ~Found(list, r)
      /\ UNCHANGED alive /\ UNCHANGED should_not_be_modified
      /\ ordered' = (ordered /\ Ordered(ToSet(list) \cup {r}))
  BY DEF Register, Comparable
<1>2. list \in Seq(Registrants) /\ ordered \in BOOLEAN /\ (ordered => Ascending(list))
      /\ (ordered => \A s \in Registrants :
                        s \in ToSet(list) <=> <<k, scope, s>> \in registered)
  BY ListTyped DEF IInv, ListsRight, TypeOK
<1> HIDE DEF list
<1>3. new \in Seq(Registrants)
  BY <1>2, ListsAscend
<1>4. ordered' => ordered /\ Ascending(new) /\ ToSet(new) = ToSet(list) \cup {r}
  BY <1>1, <1>2, ListsAscend
<1>5. Q \in SUBSET (Kinds \X Scopes \X Registrants)
      /\ \A t \in Kinds \X Scopes \X Registrants :
           <<t[1], t[2]>> # <<k, scope>> => (t \in Q <=> t \in registered)
  BY DEF IInv, TypeOK
<1>6. ordered' => \A s \in Registrants : s \in ToSet(new) <=> <<k, scope, s>> \in Q
  BY <1>2, <1>4
<1> HIDE DEF new, Q
<1>7. PICK l \in Seq(Registrants), P \in SUBSET (Kinds \X Scopes \X Registrants) :
        l = new /\ P = Q
  BY <1>3, <1>5
<1>8. /\ registrants' \in [Kinds -> Lists]
      /\ HasList(k, scope)' /\ ListOf(k, scope)' = l
      /\ \A m \in Kinds, s \in Scopes : <<m, s>> # <<k, scope>> =>
           (HasList(m, s)' <=> HasList(m, s)) /\ ListOf(m, s)' = ListOf(m, s)
  <2>1. TypeOK /\ SetList(k, scope, l)
    BY <1>1, <1>7 DEF IInv
  <2>2. QED
    BY <2>1, ListSet
<1>9. ordered' \in BOOLEAN
  BY <1>1
<1>10. QED
  BY <1>1, <1>4, <1>5, <1>6, <1>7, <1>8, <1>9, OneListChanges

LEMMA NoMemoryInv ==
  ASSUME ConstantsOK, IInv, NEW k \in Kinds, NEW scope \in Scopes,
         RegisterNoMemory(k, scope)
  PROVE  IInv'
<1>1. /\ <<>> \in Seq(Registrants) /\ Ascending(<<>>) /\ ToSet(<<>>) = {}
  BY ElementsOfEmpty DEF Ascending
<1>2. /\ SetList(k, scope, <<>>) /\ registered' = registered
      /\ UNCHANGED alive /\ UNCHANGED should_not_be_modified /\ ordered' = ordered
  BY DEF RegisterNoMemory
<1>3. ordered => \A r \in Registrants : <<k, scope, r>> \notin registered
  <2>1. ListOf(k, scope) = <<>>
    BY DEF RegisterNoMemory, ListOf
  <2>2. QED
    BY <1>1, <2>1 DEF IInv, ListsRight
<1>4. PICK Q \in SUBSET (Kinds \X Scopes \X Registrants) : Q = registered
  BY DEF IInv, TypeOK
<1>5. /\ registrants' \in [Kinds -> Lists]
      /\ HasList(k, scope)' /\ ListOf(k, scope)' = <<>>
      /\ \A m \in Kinds, s \in Scopes : <<m, s>> # <<k, scope>> =>
           (HasList(m, s)' <=> HasList(m, s)) /\ ListOf(m, s)' = ListOf(m, s)
  BY <1>1, <1>2, ListSet DEF IInv
<1>6. ordered' \in BOOLEAN
  BY <1>2 DEF IInv, TypeOK
<1>7. QED
  BY <1>1, <1>2, <1>3, <1>4, <1>5, <1>6, OneListChanges

LEMMA UnRegisterInv ==
  ASSUME ConstantsOK, IInv, NEW k \in Kinds, NEW scope \in Scopes,
         NEW r \in Registrants, UnRegister(k, scope, r)
  PROVE  IInv'
<1> DEFINE list == ListOf(k, scope)
           rest == IF Found(list, r) THEN RemoveAt(list, Passed(list, r) + 1) ELSE list
           Q == registered \ {<<k, scope, r>>}
<1>1. /\ registered' = Q /\ UNCHANGED alive /\ UNCHANGED should_not_be_modified
      /\ ordered' = (ordered /\ Ordered(ToSet(list) \cup {r}))
      /\ \/ /\ rest = <<>> /\ scope # ALL_OBJECT_TYPES
            /\ registrants' = [registrants EXCEPT ![k] = Restrict(@, DOMAIN @ \ {scope})]
         \/ SetList(k, scope, rest)
  BY DEF UnRegister, ListOf, Comparable
<1>2. list \in Seq(Registrants) /\ ordered \in BOOLEAN /\ (ordered => Ascending(list))
      /\ (ordered => \A s \in Registrants :
                        s \in ToSet(list) <=> <<k, scope, s>> \in registered)
  BY ListTyped DEF IInv, ListsRight, TypeOK
<1> HIDE DEF list
<1>3. /\ rest \in Seq(Registrants)
      /\ ordered' => ordered /\ Ascending(rest) /\ ToSet(rest) = ToSet(list) \ {r}
  <2>1. CASE Found(list, r)
    BY <1>1, <1>2, <2>1, ListsAscend
  <2>2. CASE ~Found(list, r)
    <3>1. rest = list
      BY <2>2
    <3>2. ordered' => ordered /\ Ascending(list) /\ r \notin ToSet(list)
      BY <1>1, <1>2, <2>2, ListsAscend
    <3> HIDE DEF rest
    <3>3. QED
      BY <1>2, <3>1, <3>2
  <2>3. QED
    BY <2>1, <2>2
<1>4. Q \in SUBSET (Kinds \X Scopes \X Registrants)
      /\ \A t \in Kinds \X Scopes \X Registrants :
           <<t[1], t[2]>> # <<k, scope>> => (t \in Q <=> t \in registered)
  BY DEF IInv, TypeOK
<1> HIDE DEF rest
<1>5. ordered' => \A s \in Registrants : s \in ToSet(rest) <=> <<k, scope, s>> \in Q
  BY <1>2, <1>3
<1> HIDE DEF Q
<1>6. PICK l \in Seq(Registrants), P \in SUBSET (Kinds \X Scopes \X Registrants) :
        l = rest /\ P = Q
  BY <1>3, <1>4
<1>7. /\ registrants' \in [Kinds -> Lists]
      /\ ListOf(k, scope)' = l /\ (scope = ALL_OBJECT_TYPES => HasList(k, scope)')
      /\ \A m \in Kinds, s \in Scopes : <<m, s>> # <<k, scope>> =>
           (HasList(m, s)' <=> HasList(m, s)) /\ ListOf(m, s)' = ListOf(m, s)
  <2>1. CASE SetList(k, scope, rest)
    <3>1. TypeOK /\ SetList(k, scope, l)
      BY <1>6, <2>1 DEF IInv
    <3>2. QED
      BY <3>1, ListSet
  <2>2. CASE ~SetList(k, scope, rest)
    BY <1>1, <1>6, <2>2, ListDropped DEF IInv
  <2>3. QED
    BY <2>1, <2>2
<1>8. ordered' \in BOOLEAN
  BY <1>1
<1>9. QED
  BY <1>1, <1>3, <1>4, <1>5, <1>6, <1>7, <1>8, OneListChanges

LEMMA StepInv ==
  ASSUME ConstantsOK
  PROVE  IInv /\ [Next]_vars => IInv'
<1> SUFFICES ASSUME IInv, [Next]_vars PROVE IInv'
  OBVIOUS
<1>1. CASE event_manager_destroy
  <2>1. registrants' = Empty /\ registered' = {} /\ alive' = FALSE /\ ordered' = TRUE
        /\ should_not_be_modified' = should_not_be_modified
    BY <1>1 DEF event_manager_destroy
  <2>2. <<>> \in Seq(Registrants) /\ ToSet(<<>>) = {} /\ Ascending(<<>>)
    BY ElementsOfEmpty DEF Ascending
  <2>3. [scope \in {ALL_OBJECT_TYPES} |-> <<>>] \in Lists
    BY EmptyTyped
  <2>4. TypeOK'
    BY <2>1, <2>3 DEF IInv, TypeOK, Empty
  <2>5. \A k \in Kinds, scope \in Scopes : ListOf(k, scope)' = <<>>
    BY <2>1 DEF ListOf, HasList, Empty
  <2>6. \A k \in Kinds : HasList(k, ALL_OBJECT_TYPES)'
    BY <2>1 DEF HasList, Empty
  <2>7. ListsRight'
    BY <2>1, <2>2, <2>5 DEF ListsRight, Ascending
  <2>8. QED
    BY <2>4, <2>6, <2>7 DEF IInv
<1>2. CASE UNCHANGED <<registrants, registered, ordered>> /\ alive' \in BOOLEAN
             /\ should_not_be_modified' \in BOOLEAN
  BY <1>2 DEF IInv, TypeOK, ListsRight, ListOf, HasList
<1>3. CASE event_manager_init \/ Notify \/ NotifyType \/ announce_event_returns
  BY <1>2, <1>3 DEF IInv, TypeOK, event_manager_init, Notify, NotifyType,
    announce_event_returns
<1>4. ASSUME NEW k \in Kinds, NEW type \in Types, announce_event(k, type)
      PROVE  IInv'
  BY <1>2, <1>4 DEF IInv, TypeOK, announce_event
<1>5. CASE UNCHANGED vars
  BY <1>2, <1>5 DEF IInv, TypeOK, vars
<1>6. QED
  BY <1>1, <1>3, <1>4, <1>5, RegisterInv, NoMemoryInv, UnRegisterInv DEF Next

\* The inductive invariant holds in every reachable state: as long as the
\* comparison has ordered those it was used on, each list ascends in it and
\* has those who registered and did not unregister.
THEOREM Invariance ==
  ASSUME ConstantsOK
  PROVE  Spec => []IInv
<1>1. IInv /\ [Next]_vars => IInv'
  BY StepInv
<1>2. QED
  BY <1>1, InitInv, PTL DEF Spec

\* Whoever has registered and not unregistered since is found registered,
\* nobody else is, and no list has anybody twice, as long as the comparison
\* has ordered those it was used on, and orders those asked for.
THEOREM WhoIsRegistered ==
  ASSUME ConstantsOK
  PROVE  Spec => []Registered
<1>1. IInv => Registered
  <2> SUFFICES ASSUME IInv, ordered, NEW k \in Kinds, NEW scope \in Scopes
               PROVE  /\ IsInjective(ListOf(k, scope))
                      /\ \A r \in Registrants : Comparable(k, scope, r) =>
                           (already_registered(k, scope, r) <=> <<k, scope, r>> \in registered)
    BY DEF Registered
  <2> DEFINE list == ListOf(k, scope)
  <2>1. /\ list \in Seq(Registrants) /\ Ascending(list)
        /\ \A r \in Registrants : r \in ToSet(list) <=> <<k, scope, r>> \in registered
    BY ListTyped DEF IInv, ListsRight
  <2>2. \A r : already_registered(k, scope, r) <=> HasList(k, scope) /\ Found(list, r)
    BY DEF already_registered, ListOf
  <2>3. ~HasList(k, scope) => list = <<>>
    BY DEF ListOf
  <2>4. \A r : Comparable(k, scope, r) <=> Ordered(ToSet(list) \cup {r})
    BY DEF Comparable
  <2> HIDE DEF list
  <2>5. IsInjective(list)
    BY <2>1, AscendingInjective
  <2>6. ASSUME NEW r \in Registrants, Ordered(ToSet(list) \cup {r})
        PROVE  already_registered(k, scope, r) <=> <<k, scope, r>> \in registered
    <3>1. Found(list, r) <=> r \in ToSet(list)
      BY <2>1, <2>6, ListsAscend
    <3>2. QED
      BY <2>1, <2>2, <2>3, <3>1, ElementsOfEmpty
  <2>7. QED
    BY <2>4, <2>5, <2>6 DEF list
<1>2. QED
  BY <1>1, Invariance, PTL

\* Addresses that are not too far apart always compare in order, so that
\* there the two properties below and above hold without a condition on it.
THEOREM NearStaysOrdered ==
  ASSUME ConstantsOK, AddressesNear
  PROVE  Spec => []ordered
<1>1. Ordered(Registrants)
  BY NearOrdered
<1>2. ASSUME IInv, NEW k \in Kinds, NEW scope \in Scopes, NEW r \in Registrants
      PROVE  Comparable(k, scope, r)
  <2>1. ToSet(ListOf(k, scope)) \cup {r} \subseteq Registrants
    BY <1>2, ListTyped, InListOf DEF IInv
  <2>2. QED
    BY <1>1, <2>1 DEF Comparable, Ordered
<1>3. Init => ordered
  BY DEF Init
<1>4. IInv /\ ordered /\ [Next]_vars => ordered'
  <2> SUFFICES ASSUME IInv, ordered, [Next]_vars PROVE ordered'
    OBVIOUS
  <2>1. CASE \/ event_manager_init \/ event_manager_destroy \/ Notify \/ NotifyType
             \/ announce_event_returns \/ UNCHANGED vars
    BY <2>1 DEF event_manager_init, event_manager_destroy, Notify, NotifyType,
      announce_event_returns, vars
  <2>2. ASSUME NEW k \in Kinds, NEW type \in Types, announce_event(k, type)
        PROVE  ordered'
    BY <2>2 DEF announce_event
  <2>3. ASSUME NEW k \in Kinds, NEW scope \in Scopes, RegisterNoMemory(k, scope)
        PROVE  ordered'
    BY <2>3 DEF RegisterNoMemory
  <2>4. ASSUME NEW k \in Kinds, NEW scope \in Scopes, NEW r \in Registrants,
               Register(k, scope, r) \/ UnRegister(k, scope, r)
        PROVE  ordered'
    <3>1. ordered' = (ordered /\ Comparable(k, scope, r))
      BY <2>4 DEF Register, UnRegister
    <3>2. QED
      BY <1>2, <3>1
  <2>5. QED
    BY <2>1, <2>2, <2>3, <2>4 DEF Next
<1>5. QED
  BY <1>3, <1>4, Invariance, PTL DEF Spec

-----------------------------------------------------------------------------
(***************************************************************************)
(* Announcements.  One in which no callback has announced keeps the flag   *)
(* up, so that it is the innermost and the lists and what is owed stand;   *)
(* and one under which no list has changed has told the lists as far as    *)
(* its place.                                                              *)
(***************************************************************************)
Announcements ==
  [kind : Kinds, type : Types, scope : Scopes, place : Nat,
   told : Seq(Registrants), due : [Registrants -> Nat],
   lists : {"shut", "open", "changed"}]

Progress(a) ==
  LET all == ListOf(a.kind, ALL_OBJECT_TYPES)
      typed == ListOf(a.kind, a.type)
  IN /\ a.due = Owed(a.kind, a.type)
     /\ a.scope \in {ALL_OBJECT_TYPES, a.type}
     /\ a.scope = ALL_OBJECT_TYPES => a.place <= Len(all) /\ Len(a.told) = a.place
     /\ a.scope # ALL_OBJECT_TYPES =>
          a.place <= Len(typed) /\ Len(a.told) = Len(all) + a.place
     /\ \A i \in 1..Len(a.told) :
          a.told[i] = IF i <= Len(all) THEN all[i] ELSE typed[i - Len(all)]

Right(s) ==
  /\ s \in Seq(Announcements)
  /\ \A i \in 1..Len(s) :
       /\ s[i].lists = "shut" => i = Len(s) /\ should_not_be_modified
       /\ s[i].lists # "changed" => Progress(s[i])

AnnouncementsRight == Right(announcing)

\* What is owed is a number: registrations of at most two scopes.
LEMMA OwedTyped ==
  ASSUME NEW k, NEW type
  PROVE  Owed(k, type) \in [Registrants -> Nat]
<1>1. ASSUME NEW r \in Registrants
      PROVE  Cardinality({scope \in {ALL_OBJECT_TYPES, type} :
                            <<k, scope, r>> \in registered}) \in Nat
  <2> DEFINE S == {ALL_OBJECT_TYPES} \cup {type}
             T == {scope \in {ALL_OBJECT_TYPES, type} : <<k, scope, r>> \in registered}
  <2>1. IsFiniteSet(S)
    BY FS_Singleton, FS_AddElement
  <2>2. T \in SUBSET S
    OBVIOUS
  <2> HIDE DEF S, T
  <2>3. IsFiniteSet(T)
    BY <2>1, <2>2, FS_Subset
  <2>4. Cardinality(T) \in Nat
    BY <2>3, FS_CardinalityType
  <2>5. QED
    BY <2>4 DEF T
<1>2. QED
  BY <1>1 DEF Owed

\* Progress depends on the lists and the registrations alone.
LEMMA ProgressKept ==
  ASSUME NEW a, Progress(a), UNCHANGED <<registrants, registered>>
  PROVE  Progress(a)'
BY DEF Progress, ListOf, HasList, Owed

\* What announcing is after a step.
LEMMA RightAfter ==
  ASSUME NEW s, announcing' = s, Right(s)'
  PROVE  AnnouncementsRight'
BY DEF AnnouncementsRight, Right, Progress

LEMMA TopIsLast ==
  ASSUME AnnouncementsRight, announcing # <<>>
  PROVE  /\ Len(announcing) \in 1..Len(announcing)
         /\ Top = announcing[Len(announcing)] /\ Top \in Announcements
         /\ Top.lists # "changed" => Progress(Top)
<1>1. Len(announcing) \in 1..Len(announcing)
  BY DEF AnnouncementsRight, Right
<1>2. Top = announcing[Len(announcing)]
  BY DEF Top, Last
<1>3. QED
  BY <1>1, <1>2 DEF AnnouncementsRight, Right

\* A step of the innermost announcement.
LEMMA LastStep ==
  ASSUME AnnouncementsRight, announcing # <<>>, NEW c \in Announcements,
         announcing' = [announcing EXCEPT ![Len(announcing)] = c],
         UNCHANGED <<should_not_be_modified, registrants, registered>>,
         c.lists = Top.lists, c.lists # "changed" => Progress(c)
  PROVE  AnnouncementsRight'
<1> DEFINE n == Len(announcing)
<1>1. n \in 1..n /\ Top = announcing[n] /\ announcing \in Seq(Announcements)
  BY TopIsLast DEF AnnouncementsRight, Right
<1>2. /\ announcing' \in Seq(Announcements) /\ Len(announcing') = n
      /\ \A j \in 1..n : announcing'[j] = IF j = n THEN c ELSE announcing[j]
  BY <1>1, Replaced
<1>3. PICK s : s = announcing'
  OBVIOUS
<1>4. ASSUME NEW i \in 1..n
      PROVE  /\ s[i].lists = "shut" => i = n /\ should_not_be_modified'
             /\ s[i].lists # "changed" => Progress(s[i])'
  <2>1. PICK o : o = announcing[i]
    OBVIOUS
  <2>2. CASE i = n
    <3>1. s[i] = c
      BY <1>2, <1>3, <2>2
    <3>2. c.lists = "shut" => should_not_be_modified
      BY <1>1 DEF AnnouncementsRight, Right
    <3>3. c.lists # "changed" => Progress(c)'
      BY ProgressKept
    <3>4. QED
      BY <2>2, <3>1, <3>2, <3>3
  <2>3. CASE i # n
    <3>1. s[i] = o
      BY <1>2, <1>3, <2>1, <2>3
    <3>2. o.lists # "shut" /\ (o.lists # "changed" => Progress(o))
      BY <2>1, <2>3 DEF AnnouncementsRight, Right
    <3>3. o.lists # "changed" => Progress(o)'
      BY <3>2, ProgressKept
    <3>4. QED
      BY <3>1, <3>2, <3>3
  <2>4. QED
    BY <2>2, <2>3
<1>5. Right(s)'
  BY <1>2, <1>3, <1>4 DEF Right
<1>6. QED
  BY <1>3, <1>5, RightAfter

\* One turn of the walk.
LEMMA TurnProgress ==
  ASSUME ConstantsOK, IInv, NEW a \in Announcements, NEW d \in Announcements, Progress(a),
         a.place < Len(ListOf(a.kind, a.scope)),
         d.kind = a.kind, d.type = a.type, d.scope = a.scope, d.due = a.due,
         d.place = a.place + 1,
         d.told = Append(a.told, ListOf(a.kind, a.scope)[a.place + 1])
  PROVE  Progress(d)
<1> DEFINE all == ListOf(a.kind, ALL_OBJECT_TYPES)
           typed == ListOf(a.kind, a.type)
           list == ListOf(a.kind, a.scope)
<1>2. /\ all \in Seq(Registrants) /\ typed \in Seq(Registrants)
      /\ list \in Seq(Registrants)
  BY ListTyped DEF Announcements, Scopes, IInv
<1>4. list[a.place + 1] \in Registrants /\ a.place + 1 \in 1..Len(list)
  BY <1>2 DEF Announcements
<1>5. Progress(d)
  <2>1. /\ d.told \in Seq(Registrants) /\ Len(d.told) = Len(a.told) + 1
        /\ a.told \in Seq(Registrants) /\ a.place \in Nat /\ d.place = a.place + 1
        /\ \A i \in 1..Len(a.told) : d.told[i] = a.told[i]
        /\ d.told[Len(a.told) + 1] = list[a.place + 1]
        /\ d.kind = a.kind /\ d.type = a.type /\ d.scope = a.scope /\ d.due = a.due
    <3>1. a.told \in Seq(Registrants) /\ a.place \in Nat
      BY DEF Announcements
    <3>2. PICK told \in Seq(Registrants), x \in Registrants :
            told = a.told /\ x = list[a.place + 1]
      BY <1>4, <3>1
    <3>3. /\ Append(told, x) \in Seq(Registrants) /\ Len(Append(told, x)) = Len(told) + 1
          /\ \A i \in 1..Len(told) : Append(told, x)[i] = told[i]
          /\ Append(told, x)[Len(told) + 1] = x
      OBVIOUS
    <3>4. QED
      BY <3>1, <3>2, <3>3
  <2>2. /\ a.due = Owed(a.kind, a.type)
        /\ a.scope \in {ALL_OBJECT_TYPES, a.type}
        /\ a.scope = ALL_OBJECT_TYPES => a.place <= Len(all) /\ Len(a.told) = a.place
        /\ a.scope # ALL_OBJECT_TYPES =>
             a.place <= Len(typed) /\ Len(a.told) = Len(all) + a.place
        /\ \A i \in 1..Len(a.told) :
             a.told[i] = IF i <= Len(all) THEN all[i] ELSE typed[i - Len(all)]
    BY DEF Progress
  <2>3. /\ a.scope = ALL_OBJECT_TYPES => list = all
        /\ a.scope # ALL_OBJECT_TYPES => list = typed
    BY <2>2
  <2> HIDE DEF all, typed, list
  <2>4. d.told[Len(a.told) + 1]
          = IF Len(a.told) + 1 <= Len(all) THEN all[Len(a.told) + 1]
            ELSE typed[Len(a.told) + 1 - Len(all)]
    <3>1. CASE a.scope = ALL_OBJECT_TYPES
      BY <1>2, <1>4, <2>1, <2>2, <2>3, <3>1
    <3>2. CASE a.scope # ALL_OBJECT_TYPES
      BY <1>2, <1>4, <2>1, <2>2, <2>3, <3>2
    <3>3. QED
      BY <3>1, <3>2
  <2>5. \A i \in 1..Len(d.told) :
          d.told[i] = IF i <= Len(all) THEN all[i] ELSE typed[i - Len(all)]
    <3> SUFFICES ASSUME NEW i \in 1..Len(d.told)
                 PROVE  d.told[i] = IF i <= Len(all) THEN all[i] ELSE typed[i - Len(all)]
      OBVIOUS
    <3>1. CASE i = Len(a.told) + 1
      BY <2>4, <3>1
    <3>2. CASE i \in 1..Len(a.told)
      BY <2>1, <2>2, <3>2
    <3>3. QED
      BY <2>1, <3>1, <3>2
  <2>6. /\ d.scope = ALL_OBJECT_TYPES => d.place <= Len(all) /\ Len(d.told) = d.place
        /\ d.scope # ALL_OBJECT_TYPES =>
             d.place <= Len(typed) /\ Len(d.told) = Len(all) + d.place
    <3>1. CASE a.scope = ALL_OBJECT_TYPES
      <4>1. Len(d.told) = d.place /\ d.place <= Len(all)
        BY <1>2, <1>4, <2>1, <2>2, <2>3, <3>1
      <4>2. QED
        BY <2>1, <3>1, <4>1
    <3>2. CASE a.scope # ALL_OBJECT_TYPES
      <4>1. Len(d.told) = Len(all) + d.place /\ d.place <= Len(typed)
        <5>1. Len(all) \in Nat /\ Len(typed) \in Nat /\ list = typed
          BY <1>2, <2>3, <3>2
        <5>2. Len(a.told) = Len(all) + a.place
          BY <2>2, <3>2
        <5>3. QED
          BY <1>4, <2>1, <5>1, <5>2
      <4>2. QED
        BY <2>1, <3>2, <4>1
    <3>3. QED
      BY <3>1, <3>2
  <2>7. QED
    BY <2>1, <2>2, <2>5, <2>6 DEF Progress, all, typed
<1>6. QED
  BY <1>5

LEMMA NotifyRight ==
  ASSUME ConstantsOK, IInv, AnnouncementsRight, Notify
  PROVE  AnnouncementsRight'
<1> DEFINE a == Top
           list == ListOf(a.kind, a.scope)
           p == a.place + 1
           t == IF a.lists = "changed" THEN a.told ELSE Append(a.told, list[p])
           c == [a EXCEPT !.place = p, !.told = t]
<1>1. /\ announcing # <<>> /\ a \in Announcements /\ a = announcing[Len(announcing)]
      /\ a.lists # "changed" => Progress(a)
      /\ UNCHANGED <<should_not_be_modified, registrants, registered>>
      /\ Len(announcing) \in 1..Len(announcing)
  BY TopIsLast DEF Notify, Walking
<1>2. /\ list = registrants[a.kind][a.scope] /\ a.place < Len(list)
      /\ list \in Seq(Registrants)
  BY <1>1, ListTyped DEF Notify, Walking, ListOf, IInv, Announcements
<1>3. announcing' = [announcing EXCEPT ![Len(announcing)] = c]
  <2>1. announcing' = [announcing EXCEPT
          ![Len(announcing)].place = @ + 1,
          ![Len(announcing)].told =
             IF a.lists = "changed" THEN @ ELSE Append(@, list[p])]
    BY <1>2 DEF Notify
  <2>2. announcing' = [announcing EXCEPT ![Len(announcing)] =
          [[announcing[Len(announcing)] EXCEPT !.place = announcing[Len(announcing)].place + 1]
             EXCEPT !.told = IF a.lists = "changed" THEN @ ELSE Append(@, list[p])]]
    BY <1>1, <2>1 DEF AnnouncementsRight, Right
  <2>3. QED
    BY <1>1, <2>2 DEF Announcements
<1>4. list[p] \in Registrants /\ p \in Nat /\ t \in Seq(Registrants)
  BY <1>1, <1>2 DEF Announcements
<1>5. /\ c.kind = a.kind /\ c.type = a.type /\ c.scope = a.scope /\ c.due = a.due
      /\ c.place = p /\ c.told = t /\ c.lists = a.lists /\ c \in Announcements
  <2> HIDE DEF p, t, a
  <2>1. QED
    BY <1>1, <1>4 DEF Announcements
<1> HIDE DEF c
<1>6. a.lists # "changed" => Progress(c)
  <2> SUFFICES ASSUME a.lists # "changed" PROVE Progress(c)
    OBVIOUS
  <2>1. c.told = Append(a.told, list[a.place + 1]) /\ c.place = a.place + 1
    BY <1>5
  <2> HIDE DEF a, p, t
  <2>2. QED
    BY <1>1, <1>2, <1>5, <2>1, TurnProgress
<1>7. QED
  BY <1>1, <1>3, <1>5, <1>6, LastStep

LEMMA NotifyTypeRight ==
  ASSUME ConstantsOK, IInv, AnnouncementsRight, NotifyType
  PROVE  AnnouncementsRight'
<1> DEFINE a == Top
           all == ListOf(a.kind, ALL_OBJECT_TYPES)
           typed == ListOf(a.kind, a.type)
           c == [a EXCEPT !.scope = a.type, !.place = 0]
<1>1. /\ announcing # <<>> /\ a \in Announcements /\ a = announcing[Len(announcing)]
      /\ a.lists # "changed" => Progress(a)
      /\ UNCHANGED <<should_not_be_modified, registrants, registered>>
      /\ Len(announcing) \in 1..Len(announcing)
      /\ a.scope = ALL_OBJECT_TYPES /\ (Walking => a.lists = "changed")
  BY TopIsLast DEF NotifyType, Ends
<1>2. /\ all \in Seq(Registrants) /\ typed \in Seq(Registrants)
      /\ a.type # ALL_OBJECT_TYPES /\ a.place \in Nat
  BY <1>1, ListTyped DEF Announcements, Scopes, ConstantsOK, IInv
<1>3. announcing' = [announcing EXCEPT ![Len(announcing)] = c]
  <2>1. announcing' = [announcing EXCEPT ![Len(announcing)].scope = a.type,
                                         ![Len(announcing)].place = 0]
    BY DEF NotifyType
  <2>2. announcing' = [announcing EXCEPT ![Len(announcing)] =
          [[announcing[Len(announcing)] EXCEPT !.scope = a.type] EXCEPT !.place = 0]]
    BY <1>1, <2>1 DEF AnnouncementsRight, Right
  <2>3. QED
    BY <1>1, <2>2
<1>4. /\ c.kind = a.kind /\ c.type = a.type /\ c.scope = a.type /\ c.due = a.due
      /\ c.place = 0 /\ c.told = a.told /\ c.lists = a.lists /\ c \in Announcements
  <2> HIDE DEF a
  <2>1. QED
    BY <1>1 DEF Announcements, Scopes
<1> HIDE DEF c
<1>5. a.lists # "changed" => Progress(c)
  <2> SUFFICES ASSUME a.lists # "changed" PROVE Progress(c)
    OBVIOUS
  <2>1. HasList(a.kind, ALL_OBJECT_TYPES) /\ all = registrants[a.kind][ALL_OBJECT_TYPES]
    BY <1>1 DEF IInv, Announcements, ListOf
  <2>2. ~(a.place < Len(all))
    BY <1>1, <2>1 DEF Walking
  <2>3. a.place <= Len(all) /\ Len(a.told) = a.place
    BY <1>1 DEF Progress
  <2>4. Len(a.told) = Len(all)
    BY <1>2, <2>2, <2>3
  <2> HIDE DEF a
  <2>5. QED
    BY <1>1, <1>2, <1>4, <2>4 DEF Progress
<1>6. QED
  BY <1>1, <1>3, <1>4, <1>5, LastStep

LEMMA AnnounceRight ==
  ASSUME ConstantsOK, IInv, AnnouncementsRight,
         NEW k \in Kinds, NEW type \in Types, announce_event(k, type)
  PROVE  AnnouncementsRight'
<1> DEFINE n == Len(announcing)
           to(a) == [a EXCEPT !.lists = IF @ = "shut" THEN "open" ELSE @]
           outer == [i \in 1..n |-> to(announcing[i])]
<1>1. /\ announcing \in Seq(Announcements) /\ n \in Nat
      /\ \A i \in 1..n : announcing[i] \in Announcements
      /\ should_not_be_modified' /\ UNCHANGED <<registrants, registered>>
  BY DEF AnnouncementsRight, Right, announce_event
<1>2. \A a \in Announcements :
        /\ to(a) \in Announcements /\ to(a).lists # "shut"
        /\ to(a).lists # "changed" => a.lists # "changed"
        /\ to(a).kind = a.kind /\ to(a).type = a.type /\ to(a).scope = a.scope
        /\ to(a).due = a.due /\ to(a).place = a.place /\ to(a).told = a.told
  BY DEF Announcements
<1>3. /\ outer \in Seq(Announcements) /\ Len(outer) = n
      /\ \A i \in 1..n : outer[i] = to(announcing[i])
  <2> HIDE DEF to
  <2>1. QED
    BY <1>1, <1>2
<1>4. Begun(k, type) \in Announcements
  <2>1. <<>> \in Seq(Registrants)
    OBVIOUS
  <2>2. Owed(k, type) \in [Registrants -> Nat]
    BY OwedTyped
  <2>3. QED
    BY <2>1, <2>2 DEF Begun, Announcements, Scopes
<1>5. Progress(Begun(k, type))
  <2>1. ListOf(k, ALL_OBJECT_TYPES) \in Seq(Registrants)
    BY ListTyped DEF Scopes, IInv
  <2>2. QED
    BY <2>1 DEF Progress, Begun
<1>6. announcing' = Append(outer, Begun(k, type))
  BY <1>1 DEF announce_event
<1>7. \A i \in 1..n : outer[i].lists # "shut"
                     /\ (outer[i].lists # "changed" => Progress(outer[i]))
  <2> SUFFICES ASSUME NEW i \in 1..n
               PROVE  /\ outer[i].lists # "shut"
                      /\ outer[i].lists # "changed" => Progress(outer[i])
    OBVIOUS
  <2>1. announcing[i].lists # "changed" => Progress(announcing[i])
    BY DEF AnnouncementsRight, Right
  <2>2. announcing[i] \in Announcements /\ outer[i] = to(announcing[i])
    BY <1>1, <1>3
  <2>3. PICK a \in Announcements : a = announcing[i]
    BY <2>2
  <2>4. PICK o : o = outer[i] /\ o = to(a)
    BY <2>2, <2>3
  <2> HIDE DEF to, outer
  <2>5. /\ o.lists # "shut" /\ (o.lists # "changed" => a.lists # "changed")
        /\ o.kind = a.kind /\ o.type = a.type /\ o.scope = a.scope
        /\ o.due = a.due /\ o.place = a.place /\ o.told = a.told
    BY <1>2, <2>4
  <2>6. a.lists # "changed" => Progress(o)
    BY <2>1, <2>3, <2>5 DEF Progress
  <2>7. QED
    BY <2>4, <2>5, <2>6
<1> HIDE DEF outer
<1>8. PICK s \in Seq(Announcements), b \in Announcements : s = outer /\ b = Begun(k, type)
  BY <1>3, <1>4
<1>9. PICK z : z = announcing'
  OBVIOUS
<1>10. /\ z \in Seq(Announcements) /\ Len(z) = n + 1
       /\ \A i \in 1..n : z[i] = outer[i]
       /\ z[n + 1] = b
  BY <1>3, <1>6, <1>8, <1>9
<1>11. ASSUME NEW i \in 1..(n + 1)
       PROVE  /\ z[i].lists = "shut" => i = n + 1
              /\ z[i].lists # "changed" => Progress(z[i])'
  <2>1. CASE i \in 1..n
    <3>1. PICK o : o = outer[i]
      OBVIOUS
    <3>2. /\ z[i] = o /\ o.lists # "shut"
          /\ o.lists # "changed" => Progress(o)
      BY <1>7, <1>10, <2>1, <3>1
    <3>3. o.lists # "changed" => Progress(o)'
      BY <1>1, <3>2, ProgressKept
    <3>4. QED
      BY <3>2, <3>3
  <2>2. CASE i = n + 1
    <3>1. Progress(b)
      BY <1>5, <1>8
    <3>2. Progress(b)'
      BY <1>1, <3>1, ProgressKept
    <3>3. QED
      BY <1>10, <2>2, <3>2
  <2>3. QED
    BY <1>1, <2>1, <2>2
<1>12. Right(z)'
  BY <1>1, <1>10, <1>11 DEF Right
<1>13. QED
  BY <1>9, <1>12, RightAfter

\* Only the announcements that go on are left.
LEMMA ReturnRight ==
  ASSUME AnnouncementsRight, announce_event_returns
  PROVE  AnnouncementsRight'
<1> DEFINE n == Len(announcing)
<1>1. /\ announcing \in Seq(Announcements) /\ n \in Nat /\ n # 0
      /\ announcing' = Front(announcing) /\ UNCHANGED <<registrants, registered>>
  BY DEF AnnouncementsRight, Right, announce_event_returns, Through, Ends
<1>2. PICK s : s = announcing'
  OBVIOUS
<1>3. /\ s \in Seq(Announcements) /\ Len(s) = n - 1
      /\ \A i \in 1..(n - 1) : s[i] = announcing[i]
  <2>1. s = [i \in 1..(n - 1) |-> announcing[i]]
    BY <1>1, <1>2 DEF Front
  <2>2. QED
    BY <1>1, <2>1
<1>4. ASSUME NEW i \in 1..(n - 1)
      PROVE  s[i].lists # "shut" /\ (s[i].lists # "changed" => Progress(s[i])')
  <2>1. PICK o : o = announcing[i]
    OBVIOUS
  <2>2. /\ s[i] = o /\ o.lists # "shut"
        /\ o.lists # "changed" => Progress(o)
    BY <1>1, <1>3, <2>1 DEF AnnouncementsRight, Right
  <2>3. o.lists # "changed" => Progress(o)'
    BY <1>1, <2>2, ProgressKept
  <2>4. QED
    BY <2>2, <2>3
<1>5. Right(s)'
  BY <1>3, <1>4 DEF Right
<1>6. QED
  BY <1>2, <1>5, RightAfter

\* The lists change where no announcement keeps the flag up.
LEMMA ChangeRight ==
  ASSUME AnnouncementsRight, ~should_not_be_modified, ListsChange
  PROVE  AnnouncementsRight'
<1> DEFINE n == Len(announcing)
           none == [r \in Registrants |-> 0]
           to(a) == [a EXCEPT !.lists = "changed", !.told = <<>>, !.due = none]
<1>1. /\ announcing \in Seq(Announcements) /\ n \in Nat
      /\ \A i \in 1..n : announcing[i] \in Announcements /\ announcing[i].lists # "shut"
  BY DEF AnnouncementsRight, Right
<1>2. \A a \in Announcements : to(a) \in Announcements /\ to(a).lists = "changed"
  <2>1. none \in [Registrants -> Nat] /\ <<>> \in Seq(Registrants)
    OBVIOUS
  <2> HIDE DEF none
  <2>2. QED
    BY <2>1 DEF Announcements
<1>3. announcing' = [i \in 1..n |-> to(announcing[i])]
  <2>1. announcing' = [i \in DOMAIN announcing |->
          IF announcing[i].lists = "shut" THEN announcing[i] ELSE to(announcing[i])]
    BY Zenon DEF ListsChange
  <2> HIDE DEF to
  <2>2. QED
    BY <1>1, <2>1
<1> HIDE DEF to
<1>4. PICK s : s = announcing'
  OBVIOUS
<1>5. /\ s \in Seq(Announcements) /\ Len(s) = n
      /\ \A i \in 1..n : s[i].lists = "changed"
  BY <1>1, <1>2, <1>3, <1>4
<1>6. Right(s)'
  BY <1>5 DEF Right
<1>7. QED
  BY <1>4, <1>6, RightAfter

LEMMA AnnouncementsInv ==
  ASSUME ConstantsOK
  PROVE  IInv /\ AnnouncementsRight /\ [Next]_vars => AnnouncementsRight'
<1> SUFFICES ASSUME IInv, AnnouncementsRight, [Next]_vars PROVE AnnouncementsRight'
  OBVIOUS
<1>1. CASE event_manager_init \/ UNCHANGED vars
  <2>1. UNCHANGED <<announcing, should_not_be_modified, registrants, registered>>
    BY <1>1 DEF event_manager_init, vars
  <2>2. PICK s : s = announcing
    OBVIOUS
  <2>3. \A o : Progress(o) => Progress(o)'
    BY <2>1, ProgressKept
  <2>4. Right(s)'
    BY <2>1, <2>2, <2>3, Zenon DEF AnnouncementsRight, Right
  <2>5. QED
    BY <2>1, <2>2, <2>4, RightAfter
<1>2. CASE event_manager_destroy
  BY <1>2 DEF event_manager_destroy, AnnouncementsRight, Right
<1>3. ASSUME NEW k \in Kinds, NEW scope \in Scopes,
             \/ RegisterNoMemory(k, scope)
             \/ \E r \in Registrants : Register(k, scope, r) \/ UnRegister(k, scope, r)
      PROVE  AnnouncementsRight'
  <2>1. ~should_not_be_modified /\ ListsChange
    BY <1>3 DEF RegisterNoMemory, Register, UnRegister
  <2>2. QED
    BY <2>1, ChangeRight
<1>4. QED
  BY <1>1, <1>2, <1>3, NotifyRight, NotifyTypeRight, AnnounceRight, ReturnRight DEF Next

\* A list that has nobody twice has r at one place or at none.
LEMMA PlacesOf ==
  ASSUME NEW list \in Seq(Registrants), IsInjective(list), NEW r
  PROVE  /\ r \in ToSet(list) =>
              \E i \in 1..Len(list) : \A j \in 1..Len(list) : list[j] = r <=> j = i
         /\ r \notin ToSet(list) => \A j \in 1..Len(list) : list[j] # r
<1>1. DOMAIN list = 1..Len(list) /\ ToSet(list) = {list[i] : i \in 1..Len(list)}
  BY DEF ToSet
<1>2. \A i, j \in 1..Len(list) : list[i] = list[j] => i = j
  BY <1>1 DEF IsInjective
<1>3. QED
  BY <1>1, <1>2

Places(t, r) == {i \in DOMAIN t : t[i] = r}

OneAfterOther(t, A, B) ==
  /\ Len(t) = Len(A) + Len(B)
  /\ \A i \in 1..Len(t) : t[i] = IF i <= Len(A) THEN A[i] ELSE B[i - Len(A)]

\* The places of r in one list after the other are as many as the scopes it
\* is registered for.
LEMMA TwoLists ==
  ASSUME NEW A \in Seq(Registrants), NEW B \in Seq(Registrants), NEW t \in Seq(Registrants),
         IsInjective(A), IsInjective(B), OneAfterOther(t, A, B),
         NEW r, NEW x, NEW y, x # y, NEW Z \in SUBSET {x, y},
         x \in Z <=> r \in ToSet(A), y \in Z <=> r \in ToSet(B)
  PROVE  Cardinality(Places(t, r)) = Cardinality(Z)
<1> USE DEF Places, OneAfterOther
<1> DEFINE m == Len(A)
           n == Len(B)
           I == {i \in DOMAIN t : t[i] = r}
<1>1. m \in Nat /\ n \in Nat /\ DOMAIN t = 1..(m + n)
  OBVIOUS
<1> HIDE DEF m, n
<1>2. \A i \in 1..m : i \in DOMAIN t /\ t[i] = A[i]
  BY <1>1 DEF m, n
<1>3. \A i \in 1..n : m + i \in DOMAIN t /\ t[m + i] = B[i]
  <2> SUFFICES ASSUME NEW i \in 1..n PROVE m + i \in DOMAIN t /\ t[m + i] = B[i]
    OBVIOUS
  <2>1. m + i \in 1..(m + n) /\ ~(m + i <= m) /\ m + i - m = i
    BY <1>1
  <2>2. QED
    BY <1>1, <2>1 DEF m, n
<1>4. \A k \in DOMAIN t : k \in 1..m \/ \E j \in 1..n : k = m + j
  <2> SUFFICES ASSUME NEW k \in DOMAIN t, k \notin 1..m
               PROVE  \E j \in 1..n : k = m + j
    OBVIOUS
  <2>1. k - m \in 1..n /\ k = m + (k - m)
    BY <1>1
  <2>2. QED
    BY <2>1
<1>5. \A k : k \in I <=> (k \in 1..m /\ A[k] = r)
                       \/ (\E j \in 1..n : k = m + j /\ B[j] = r)
  BY <1>2, <1>3, <1>4
<1>6. /\ r \in ToSet(A) => \E i \in 1..m : \A k \in 1..m : A[k] = r <=> k = i
      /\ r \notin ToSet(A) => \A k \in 1..m : A[k] # r
      /\ r \in ToSet(B) => \E j \in 1..n : \A k \in 1..n : B[k] = r <=> k = j
      /\ r \notin ToSet(B) => \A k \in 1..n : B[k] # r
  BY PlacesOf DEF m, n
<1> HIDE DEF I
<1>7. CASE r \in ToSet(A) /\ r \in ToSet(B)
  <2>1. PICK i \in 1..m : \A k \in 1..m : A[k] = r <=> k = i
    BY <1>6, <1>7
  <2>2. PICK j \in 1..n : \A k \in 1..n : B[k] = r <=> k = j
    BY <1>6, <1>7
  <2>3. i # m + j
    BY <1>1
  <2>4. I = {i} \cup {m + j}
    BY <1>5, <2>1, <2>2
  <2>5. Z = {x} \cup {y}
    BY <1>7
  <2>6. \A u, v : u # v => Cardinality({u} \cup {v}) = 2
    <3> SUFFICES ASSUME NEW u, NEW v, u # v PROVE Cardinality({u} \cup {v}) = 2
      OBVIOUS
    <3>1. IsFiniteSet({u}) /\ Cardinality({u}) = 1
      BY FS_Singleton
    <3>2. Cardinality({u} \cup {v}) = IF v \in {u} THEN Cardinality({u}) ELSE Cardinality({u}) + 1
      BY <3>1, FS_AddElement
    <3>3. Cardinality({u} \cup {v}) = Cardinality({u}) + 1
      BY <3>2, Zenon
    <3> DEFINE one == Cardinality({u})
               two == Cardinality({u} \cup {v})
    <3>4. one = 1 /\ two = one + 1
      BY <3>1, <3>3
    <3> HIDE DEF one, two
    <3>5. two = 2
      BY <3>4
    <3>6. QED
      BY <3>5 DEF two
  <2>7. Cardinality(I) = 2 /\ Cardinality(Z) = 2
    BY <2>3, <2>4, <2>5, <2>6
  <2>8. QED
    BY <2>7 DEF I
<1>8. CASE r \in ToSet(A) /\ r \notin ToSet(B)
  <2>1. PICK i \in 1..m : \A k \in 1..m : A[k] = r <=> k = i
    BY <1>6, <1>8
  <2>2. I = {i} /\ Z = {x}
    BY <1>5, <1>6, <1>8, <2>1
  <2>3. QED
    BY <2>2, FS_Singleton DEF I
<1>9. CASE r \notin ToSet(A) /\ r \in ToSet(B)
  <2>1. PICK j \in 1..n : \A k \in 1..n : B[k] = r <=> k = j
    BY <1>6, <1>9
  <2>2. I = {m + j} /\ Z = {y}
    BY <1>5, <1>6, <1>9, <2>1
  <2>3. QED
    BY <2>2, FS_Singleton DEF I
<1>10. CASE r \notin ToSet(A) /\ r \notin ToSet(B)
  <2>1. I = {} /\ Z = {}
    BY <1>5, <1>6, <1>10
  <2>2. QED
    BY <2>1 DEF I
<1>11. QED
  BY <1>7, <1>8, <1>9, <1>10

\* By its end an announcement has called each registrant once for each
\* registration that matched the event when it began, whatever its callbacks
\* tried meanwhile, however deep they announced themselves: unless a list was
\* changed under it, or registrants have compared out of order.
THEOREM ToldOnce ==
  ASSUME ConstantsOK
  PROVE  Spec => []ToldAsRegistered
<1>1. IInv /\ AnnouncementsRight => ToldAsRegistered
  <2> SUFFICES ASSUME IInv, AnnouncementsRight, Through, Top.lists # "changed", ordered,
                      NEW r \in Registrants
               PROVE  Cardinality({i \in DOMAIN Top.told : Top.told[i] = r}) = Top.due[r]
    BY DEF ToldAsRegistered
  <2> DEFINE a == Top
             all == ListOf(a.kind, ALL_OBJECT_TYPES)
             typed == ListOf(a.kind, a.type)
             Z == {scope \in {ALL_OBJECT_TYPES, a.type} : <<a.kind, scope, r>> \in registered}
  <2>1. /\ Top = a /\ a \in Announcements /\ Progress(a)
        /\ a.scope # ALL_OBJECT_TYPES /\ ~Walking /\ announcing # <<>>
    BY TopIsLast DEF Through, Ends
  <2>2. /\ a.kind \in Kinds /\ a.type \in Types /\ a.type # ALL_OBJECT_TYPES
        /\ a.told \in Seq(Registrants) /\ a.place \in Nat /\ a.scope = a.type
    BY <2>1 DEF Announcements, ConstantsOK, Progress
  <2>3. /\ all \in Seq(Registrants) /\ typed \in Seq(Registrants)
        /\ ALL_OBJECT_TYPES \in Z <=> r \in ToSet(all)
        /\ a.type \in Z <=> r \in ToSet(typed)
        /\ Ascending(all) /\ Ascending(typed)
    BY <2>2, ListTyped DEF Scopes, IInv, ListsRight
  <2>4. Len(a.told) = Len(all) + Len(typed)
    <3>1. ~HasList(a.kind, a.type) => Len(typed) = 0
      BY DEF ListOf
    <3>2. HasList(a.kind, a.type) => ~(a.place < Len(typed))
      BY <2>1, <2>2 DEF Walking, ListOf
    <3>3. a.place <= Len(typed) /\ Len(a.told) = Len(all) + a.place
      BY <2>1 DEF Progress
    <3>4. Len(all) \in Nat /\ Len(typed) \in Nat
      BY <2>3
    <3>5. QED
      BY <2>2, <3>1, <3>2, <3>3, <3>4
  <2>5. \A i \in 1..Len(a.told) :
          a.told[i] = IF i <= Len(all) THEN all[i] ELSE typed[i - Len(all)]
    BY <2>1 DEF Progress
  <2>6. IsInjective(all) /\ IsInjective(typed)
    BY <2>3, AscendingInjective
  <2>7. a.due[r] = Cardinality(Z) /\ Z \in SUBSET {ALL_OBJECT_TYPES, a.type}
    BY <2>1 DEF Progress, Owed
  <2> HIDE DEF all, typed, Z
  <2>8. Cardinality(Places(a.told, r)) = Cardinality(Z)
    <3>1. OneAfterOther(a.told, all, typed)
      BY <2>4, <2>5 DEF OneAfterOther
    <3> DEFINE t == a.told
               x == ALL_OBJECT_TYPES
               y == a.type
    <3>2. /\ t \in Seq(Registrants) /\ x # y /\ Z \in SUBSET {x, y}
          /\ all \in Seq(Registrants) /\ typed \in Seq(Registrants)
          /\ IsInjective(all) /\ IsInjective(typed)
          /\ OneAfterOther(t, all, typed)
          /\ (x \in Z <=> r \in ToSet(all)) /\ (y \in Z <=> r \in ToSet(typed))
      BY <2>2, <2>3, <2>6, <2>7, <3>1
    <3> HIDE DEF t, x, y
    <3>3. Cardinality(Places(t, r)) = Cardinality(Z)
      BY <3>2, TwoLists
    <3>4. QED
      BY <3>3 DEF t
  <2>9. QED
    BY <2>1, <2>7, <2>8 DEF Places
<1>2. Init => AnnouncementsRight
  BY DEF Init, AnnouncementsRight, Right
<1>3. IInv /\ AnnouncementsRight /\ [Next]_vars => AnnouncementsRight'
  BY AnnouncementsInv
<1>4. QED
  BY <1>1, <1>2, <1>3, Invariance, PTL DEF Spec
=============================================================================
