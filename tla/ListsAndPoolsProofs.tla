------------------------- MODULE ListsAndPoolsProofs ------------------------
(***************************************************************************)
(* For every value of the constants: the two lists, the buffer manager,    *)
(* the allocator in shared memory and the two bit lists keep what their    *)
(* calls asked for.  Each has an inductive invariant, shown of its initial *)
(* states and its steps; ContainerProofs makes theorems about the          *)
(* containers of them.                                                     *)
(***************************************************************************)
EXTENDS ListsAndPools, DataLemmas

-----------------------------------------------------------------------------
(***************************************************************************)
(* The linked list.  Its links are those of the sequence o of its nodes;   *)
(* every insertion, wherever the code makes it, inserts into o at some     *)
(* place k, and every removal removes from it.                             *)
(***************************************************************************)
ListNode == [next : Node \cup {Null}, prev : Node \cup {Null}, data : Data]

At(o, i) == IF i \in 1..Len(o) THEN o[i] ELSE Null

Chained(o, h, t, nodes) ==
  /\ h = At(o, 1) /\ t = At(o, Len(o))
  /\ nodes \in [ToSet(o) -> ListNode]
  /\ \A i \in 1..Len(o) : /\ nodes[o[i]].next = At(o, i + 1)
                          /\ nodes[o[i]].prev = At(o, i - 1)

ListInv ==
  /\ order \in Seq(Node) /\ IsInjective(order)
  /\ list_n = Len(order) /\ n_max \in Nat /\ (n_max > 0 => list_n <= n_max)
  /\ Chained(order, list_head, tail, list_node)
  /\ ~list_alive => order = <<>>

\* A node is at one place only, and Null is at none.
LEMMA OnePlace ==
  ASSUME Null \notin Node, NEW o \in Seq(Node), IsInjective(o),
         NEW j \in 1..Len(o), NEW i \in Int
  PROVE  At(o, i) = o[j] <=> i = j
<1>1. o[j] \in Node /\ DOMAIN o = 1..Len(o)
  OBVIOUS
<1>2. CASE i \in 1..Len(o)
  BY <1>1, <1>2 DEF At, IsInjective
<1>3. CASE i \notin 1..Len(o)
  BY <1>1, <1>3 DEF At
<1>4. QED
  BY <1>2, <1>3

\* The nodes of a sequence that a node has been put into.
LEMMA AtInserted ==
  ASSUME NEW D, NEW o \in Seq(D), NEW k \in 1..(Len(o) + 1), NEW x \in D, NEW j \in Int
  PROVE  At(InsertAt(o, k, x), j) = IF j < k THEN At(o, j)
                                    ELSE IF j = k THEN x ELSE At(o, j - 1)
<1>1. /\ Len(InsertAt(o, k, x)) = Len(o) + 1 /\ Len(o) \in Nat
      /\ \A i \in 1..(Len(o) + 1) :
           InsertAt(o, k, x)[i] = IF i < k THEN o[i] ELSE IF i = k THEN x ELSE o[i - 1]
  BY Inserted
<1>2. CASE j \in 1..(Len(o) + 1)
  <2>1. At(InsertAt(o, k, x), j) = InsertAt(o, k, x)[j]
    BY <1>1, <1>2 DEF At
  <2>2. j < k => At(o, j) = o[j]
    BY <1>1, <1>2 DEF At
  <2>3. j > k => At(o, j - 1) = o[j - 1]
    BY <1>1, <1>2 DEF At
  <2>4. QED
    BY <1>1, <1>2, <2>1, <2>2, <2>3
<1>3. CASE j \notin 1..(Len(o) + 1)
  BY <1>1, <1>3 DEF At
<1>4. QED
  BY <1>2, <1>3

LEMMA AtRemoved ==
  ASSUME NEW D, NEW o \in Seq(D), NEW k \in 1..Len(o), NEW j \in Int
  PROVE  At(RemoveAt(o, k), j) = IF j < k THEN At(o, j) ELSE At(o, j + 1)
<1>1. /\ Len(RemoveAt(o, k)) = Len(o) - 1
      /\ \A i \in 1..(Len(o) - 1) :
           RemoveAt(o, k)[i] = IF i < k THEN o[i] ELSE o[i + 1]
  BY Removed, Zenon
<1>2. CASE j \in 1..(Len(o) - 1)
  <2>1. At(RemoveAt(o, k), j) = RemoveAt(o, k)[j]
    BY <1>1, <1>2 DEF At
  <2>2. At(o, j) = o[j] /\ At(o, j + 1) = o[j + 1]
    BY <1>1, <1>2 DEF At
  <2>3. QED
    BY <1>1, <1>2, <2>1, <2>2
<1>3. CASE j \notin 1..(Len(o) - 1)
  BY <1>1, <1>3 DEF At
<1>4. QED
  BY <1>2, <1>3

\* Node x put in at place k of the chain: its neighbours are linked to it.
Grown(o, h, t, nodes, k, x, o2, h2, t2, more) ==
  /\ k \in 1..(Len(o) + 1) /\ x \in Node \ ToSet(o)
  /\ o2 = InsertAt(o, k, x)
  /\ h2 = IF k = 1 THEN x ELSE h
  /\ t2 = IF k = Len(o) + 1 THEN x ELSE t
  /\ more \in [ToSet(o) \cup {x} -> ListNode]
  /\ more[x].next = At(o, k) /\ more[x].prev = At(o, k - 1)
  /\ \A y \in ToSet(o) :
       /\ more[y].next = IF y = At(o, k - 1) THEN x ELSE nodes[y].next
       /\ more[y].prev = IF y = At(o, k) THEN x ELSE nodes[y].prev

LEMMA ChainGrows ==
  ASSUME Null \notin Node, NEW o \in Seq(Node), IsInjective(o),
         NEW h, NEW t, NEW nodes, Chained(o, h, t, nodes),
         NEW k, NEW x, NEW o2, NEW h2, NEW t2, NEW more,
         Grown(o, h, t, nodes, k, x, o2, h2, t2, more)
  PROVE  /\ o2 \in Seq(Node) /\ IsInjective(o2) /\ Len(o2) = Len(o) + 1
         /\ Chained(o2, h2, t2, more)
<1>a. /\ k \in 1..(Len(o) + 1) /\ x \in Node /\ x \notin ToSet(o)
      /\ more \in [ToSet(o) \cup {x} -> ListNode]
      /\ more[x].next = At(o, k) /\ more[x].prev = At(o, k - 1)
      /\ \A y \in ToSet(o) :
           /\ more[y].next = IF y = At(o, k - 1) THEN x ELSE nodes[y].next
           /\ more[y].prev = IF y = At(o, k) THEN x ELSE nodes[y].prev
  BY DEF Grown
<1>b. /\ o2 = InsertAt(o, k, x)
      /\ h2 = IF k = 1 THEN x ELSE h
      /\ t2 = IF k = Len(o) + 1 THEN x ELSE t
  BY DEF Grown
<1> DEFINE q == InsertAt(o, k, x)
<1>0. /\ InsertAt(o, k, x) \in Seq(Node)
      /\ Len(InsertAt(o, k, x)) = Len(o) + 1
      /\ \A i \in 1..(Len(o) + 1) :
           InsertAt(o, k, x)[i] = IF i < k THEN o[i] ELSE IF i = k THEN x ELSE o[i - 1]
      /\ ToSet(InsertAt(o, k, x)) = ToSet(o) \cup {x}
  BY <1>a, Inserted
<1>1. /\ q \in Seq(Node) /\ Len(q) = Len(o) + 1 /\ ToSet(q) = ToSet(o) \cup {x}
      /\ \A i \in 1..(Len(o) + 1) :
           q[i] = IF i < k THEN o[i] ELSE IF i = k THEN x ELSE o[i - 1]
  BY <1>0
<1>2. \A j \in Int : At(q, j) = IF j < k THEN At(o, j) ELSE IF j = k THEN x ELSE At(o, j - 1)
  BY <1>a, AtInserted
<1>3. Len(o) \in Nat /\ \A i \in 1..Len(o) : o[i] \in ToSet(o) /\ o[i] # x
  BY <1>a DEF ToSet
<1>4. \A j \in 1..Len(o), i \in Int : At(o, i) = o[j] <=> i = j
  BY OnePlace
<1>5. /\ h = At(o, 1) /\ t = At(o, Len(o))
      /\ \A i \in 1..Len(o) : /\ nodes[o[i]].next = At(o, i + 1)
                              /\ nodes[o[i]].prev = At(o, i - 1)
  BY DEF Chained
<1>6. IsInjective(q)
  BY <1>a, InsertedOnce
<1> HIDE DEF q
<1>7. ASSUME NEW i \in 1..Len(q)
      PROVE  more[q[i]].next = At(q, i + 1) /\ more[q[i]].prev = At(q, i - 1)
  <2>1. CASE i = k
    BY <1>1, <1>2, <2>1, <1>a
  <2>2. CASE i < k
    <3>1. q[i] = o[i] /\ i \in 1..Len(o)
      BY <1>1, <1>3, <2>2, <1>a
    <3>2. /\ more[o[i]].next = IF i = k - 1 THEN x ELSE At(o, i + 1)
          /\ more[o[i]].prev = At(o, i - 1)
      BY <1>3, <1>4, <1>5, <2>2, <3>1, <1>a
    <3>3. At(q, i - 1) = At(o, i - 1) /\ At(q, i + 1) = IF i = k - 1 THEN x ELSE At(o, i + 1)
      BY <1>2, <2>2, <1>a
    <3>4. QED
      BY <3>1, <3>2, <3>3
  <2>3. CASE i > k
    <3>1. q[i] = o[i - 1] /\ i - 1 \in 1..Len(o)
      BY <1>1, <1>3, <2>3, <1>a
    <3>2. /\ more[o[i - 1]].next = At(o, i)
          /\ more[o[i - 1]].prev = IF i - 1 = k THEN x ELSE At(o, i - 2)
      <4>1. /\ (i - 1) + 1 = i /\ (i - 1) - 1 = i - 2 /\ k \in Int /\ k - 1 \in Int
            /\ i - 1 # k - 1
        BY <1>3, <2>3, <1>a
      <4>2. /\ nodes[o[i - 1]].next = At(o, i) /\ nodes[o[i - 1]].prev = At(o, i - 2)
        BY <1>5, <3>1, <4>1
      <4>3. /\ At(o, k - 1) # o[i - 1]
            /\ At(o, k) = o[i - 1] <=> k = i - 1
        BY <1>4, <3>1, <4>1, <1>a
      <4>4. o[i - 1] \in ToSet(o)
        BY <1>3, <3>1
      <4>5. QED
        BY <4>2, <4>3, <4>4, <1>a
    <3>3. At(q, i + 1) = At(o, i) /\ At(q, i - 1) = IF i - 1 = k THEN x ELSE At(o, i - 2)
      BY <1>2, <2>3, <1>a
    <3>4. QED
      BY <3>1, <3>2, <3>3
  <2>4. QED
    BY <1>1, <1>3, <2>1, <2>2, <2>3, <1>a
<1>8. /\ At(q, 1) = IF k = 1 THEN x ELSE h
      /\ At(q, Len(q)) = IF k = Len(o) + 1 THEN x ELSE t
  BY <1>1, <1>2, <1>3, <1>5, <1>a
<1>9. o2 = q /\ h2 = At(q, 1) /\ t2 = At(q, Len(q)) /\ more \in [ToSet(q) -> ListNode]
  BY <1>1, <1>8, <1>a, <1>b DEF q
<1>10. Chained(q, h2, t2, more)
  BY <1>7, <1>9 DEF Chained
<1>11. QED
  BY <1>1, <1>6, <1>9, <1>10

\* The node at place k taken out: its neighbours take each other over.
Shrunk(o, h, t, nodes, k, o2, h2, t2, fewer) ==
  /\ k \in 1..Len(o)
  /\ o2 = RemoveAt(o, k)
  /\ h2 = IF k = 1 THEN At(o, 2) ELSE h
  /\ t2 = IF k = Len(o) THEN At(o, Len(o) - 1) ELSE t
  /\ fewer \in [ToSet(o) \ {o[k]} -> ListNode]
  /\ \A y \in ToSet(o) \ {o[k]} :
       /\ fewer[y].next = IF y = At(o, k - 1) THEN At(o, k + 1) ELSE nodes[y].next
       /\ fewer[y].prev = IF y = At(o, k + 1) THEN At(o, k - 1) ELSE nodes[y].prev

LEMMA ChainShrinks ==
  ASSUME Null \notin Node, NEW o \in Seq(Node), IsInjective(o),
         NEW h, NEW t, NEW nodes, Chained(o, h, t, nodes),
         NEW k, NEW o2, NEW h2, NEW t2, NEW fewer,
         Shrunk(o, h, t, nodes, k, o2, h2, t2, fewer)
  PROVE  /\ o2 \in Seq(Node) /\ IsInjective(o2) /\ Len(o2) = Len(o) - 1
         /\ Chained(o2, h2, t2, fewer)
<1>a. /\ k \in 1..Len(o)
      /\ fewer \in [ToSet(o) \ {o[k]} -> ListNode]
      /\ \A y \in ToSet(o) \ {o[k]} :
           /\ fewer[y].next = IF y = At(o, k - 1) THEN At(o, k + 1) ELSE nodes[y].next
           /\ fewer[y].prev = IF y = At(o, k + 1) THEN At(o, k - 1) ELSE nodes[y].prev
  BY DEF Shrunk
<1>b. /\ o2 = RemoveAt(o, k)
      /\ h2 = IF k = 1 THEN At(o, 2) ELSE h
      /\ t2 = IF k = Len(o) THEN At(o, Len(o) - 1) ELSE t
  BY DEF Shrunk
<1> DEFINE q == RemoveAt(o, k)
<1>0. /\ RemoveAt(o, k) \in Seq(Node)
      /\ Len(RemoveAt(o, k)) = Len(o) - 1
      /\ \A i \in 1..(Len(o) - 1) :
           RemoveAt(o, k)[i] = IF i < k THEN o[i] ELSE o[i + 1]
      /\ ToSet(RemoveAt(o, k)) = {o[i] : i \in (1..Len(o)) \ {k}}
  BY <1>a, Removed
<1>1. /\ q \in Seq(Node) /\ Len(q) = Len(o) - 1
      /\ ToSet(q) = {o[i] : i \in (1..Len(o)) \ {k}}
      /\ \A i \in 1..(Len(o) - 1) : q[i] = IF i < k THEN o[i] ELSE o[i + 1]
  BY <1>0
<1>2. \A j \in Int : At(q, j) = IF j < k THEN At(o, j) ELSE At(o, j + 1)
  BY <1>a, AtRemoved
<1>3. Len(o) \in Nat /\ k \in Int /\ \A i \in 1..Len(o) : o[i] \in ToSet(o)
  BY <1>a DEF ToSet
<1>4. \A j \in 1..Len(o), i \in Int : At(o, i) = o[j] <=> i = j
  BY OnePlace
<1>5. /\ h = At(o, 1) /\ t = At(o, Len(o))
      /\ \A i \in 1..Len(o) : /\ nodes[o[i]].next = At(o, i + 1)
                              /\ nodes[o[i]].prev = At(o, i - 1)
  BY DEF Chained
<1>6. \A i, j \in 1..Len(o) : o[i] = o[j] => i = j
  BY DEF IsInjective
<1>7. ToSet(q) = ToSet(o) \ {o[k]}
  BY <1>a, RemovedOnce
<1>8. IsInjective(q)
  BY <1>a, RemovedOnce
<1> HIDE DEF q
<1>9. ASSUME NEW i \in 1..Len(q)
      PROVE  fewer[q[i]].next = At(q, i + 1) /\ fewer[q[i]].prev = At(q, i - 1)
  <2>1. PICK a \in 1..Len(o) : q[i] = o[a] /\ a = (IF i < k THEN i ELSE i + 1) /\ a # k
    BY <1>1, <1>3, <1>a
  <2>2. o[a] \in ToSet(o) \ {o[k]}
    BY <1>3, <1>6, <2>1, <1>a
  <2>3. /\ At(o, k - 1) = o[a] <=> k - 1 = a
        /\ At(o, k + 1) = o[a] <=> k + 1 = a
        /\ nodes[o[a]].next = At(o, a + 1) /\ nodes[o[a]].prev = At(o, a - 1)
    <3>1. k - 1 \in Int /\ k + 1 \in Int
      BY <1>3, <1>a
    <3>2. QED
      BY <1>4, <1>5, <3>1
  <2>4. /\ fewer[q[i]].next = IF a = k - 1 THEN At(o, k + 1) ELSE At(o, a + 1)
        /\ fewer[q[i]].prev = IF a = k + 1 THEN At(o, k - 1) ELSE At(o, a - 1)
    BY <2>1, <2>2, <2>3, <1>a
  <2>5. i \in Int /\ i + 1 \in Int /\ i - 1 \in Int
    BY <1>1, <1>3, <1>a
  <2>6. /\ At(q, i + 1) = IF i + 1 < k THEN At(o, i + 1) ELSE At(o, (i + 1) + 1)
        /\ At(q, i - 1) = IF i - 1 < k THEN At(o, i - 1) ELSE At(o, (i - 1) + 1)
    BY <1>2, <2>5, Zenon
  <2>7. (i + 1) + 1 = i + 2 /\ (i - 1) + 1 = i
    BY <2>5
  <2>8. CASE i < k
    <3>1. a = i /\ a # k + 1
      BY <1>3, <2>1, <2>5, <2>8, <1>a
    <3>2. CASE i = k - 1
      <4>1. k + 1 = i + 2 /\ ~(i + 1 < k) /\ i - 1 < k
        BY <1>3, <2>5, <3>2, <1>a
      <4>2. QED
        BY <2>4, <2>6, <2>7, <3>1, <3>2, <4>1
    <3>3. CASE i # k - 1
      <4>1. i + 1 < k /\ i - 1 < k
        BY <1>3, <2>5, <2>8, <3>3, <1>a
      <4>2. QED
        BY <2>4, <2>6, <3>1, <3>3, <4>1
    <3>4. QED
      BY <3>2, <3>3
  <2>9. CASE ~(i < k)
    <3>1. a = i + 1 /\ a # k - 1 /\ a + 1 = i + 2 /\ a - 1 = i /\ ~(i + 1 < k)
      BY <1>3, <2>1, <2>5, <2>9, <1>a
    <3>2. CASE i = k
      <4>1. i - 1 < k /\ a = k + 1
        BY <1>3, <2>5, <3>1, <3>2, <1>a
      <4>2. QED
        BY <2>4, <2>6, <2>7, <3>1, <3>2, <4>1
    <3>3. CASE i # k
      <4>1. ~(i - 1 < k) /\ a # k + 1
        <5>1. i \in Int /\ k \in Int /\ ~(i < k) /\ i # k /\ a = i + 1
          BY <1>3, <2>5, <2>9, <3>1, <3>3
        <5>2. QED
          BY <5>1
      <4>2. QED
        BY <2>4, <2>6, <2>7, <3>1, <4>1
    <3>4. QED
      BY <3>2, <3>3
  <2>10. QED
    BY <2>8, <2>9
<1>10. /\ At(q, 1) = IF k = 1 THEN At(o, 2) ELSE h
       /\ At(q, Len(q)) = IF k = Len(o) THEN At(o, Len(o) - 1) ELSE t
  <2>1. At(q, 1) = IF 1 < k THEN At(o, 1) ELSE At(o, 2)
    BY <1>2
  <2>2. At(q, Len(o) - 1) = IF Len(o) - 1 < k THEN At(o, Len(o) - 1) ELSE At(o, Len(o))
    <3>1. Len(o) - 1 \in Int /\ (Len(o) - 1) + 1 = Len(o)
      BY <1>3, <1>a
    <3>2. QED
      BY <1>2, <3>1
  <2>3. k >= 1 /\ k <= Len(o) /\ (Len(o) - 1 < k <=> k = Len(o)) /\ (1 < k <=> k # 1)
    BY <1>3, <1>a
  <2>4. QED
    BY <1>1, <1>5, <2>1, <2>2, <2>3, <1>a
<1>11. o2 = q /\ h2 = At(q, 1) /\ t2 = At(q, Len(q)) /\ fewer \in [ToSet(q) -> ListNode]
  BY <1>7, <1>10, <1>a, <1>b DEF q
<1>12. Chained(q, h2, t2, fewer)
  BY <1>9, <1>11 DEF Chained
<1>13. QED
  BY <1>1, <1>8, <1>11, <1>12

-----------------------------------------------------------------------------
LEMMA ListNames ==
  /\ \A o, k, x : L!InsertAt(o, k, x) = InsertAt(o, k, x)
  /\ \A o, k : L!RemoveAt(o, k) = RemoveAt(o, k)
  /\ \A o : L!ToSet(o) = ToSet(o)
  /\ \A X : L!Min(X) = Min(X)
  /\ \A X : L!Cardinality(X) = Cardinality(X)
  /\ \A f, X : L!Restrict(f, X) = [x \in X |-> f[x]]
BY DEF L!InsertAt, InsertAt, L!RemoveAt, RemoveAt, L!ToSet, ToSet, L!Min, Min,
   L!Cardinality, Cardinality, L!Restrict

\* There is no room for more places than there are addresses.
LEMMA ListBounded ==
  ASSUME L!ConstantsOK, ListInv
  PROVE  /\ Cardinality(Node) \in Nat /\ Len(order) \in Nat
         /\ Len(order) <= Cardinality(Node)
<1>1. IsFiniteSet(Node)
  BY DEF L!ConstantsOK, L!IsFiniteSet, IsFiniteSet
<1>2. order \in Seq(Node) /\ IsInjective(order)
  BY DEF ListInv
<1>3. QED
  BY <1>1, <1>2, DistinctBounded, FS_CardinalityType

\* What is reached from h in a number of steps along the next pointers.
Step(f, h, nodes, most) ==
  [i \in 0..most |-> IF i = 0 THEN h
                     ELSE IF f[i - 1] = Null THEN Null ELSE nodes[f[i - 1]].next]

Path(o, h, nodes) ==
  /\ o \in Seq(Node) /\ h = At(o, 1)
  /\ \A i \in 1..Len(o) : nodes[o[i]].next = At(o, i + 1)

\* A walk along the links of a chain visits its places one by one.
LEMMA Followed ==
  ASSUME Null \notin Node, NEW o, NEW h, NEW nodes, Path(o, h, nodes),
         NEW most \in Nat, Len(o) <= most
  PROVE  /\ \E f : f = Step(f, h, nodes, most)
         /\ \A f : f = Step(f, h, nodes, most) =>
                   DOMAIN f = 0..most /\ \A i \in 0..most : f[i] = At(o, i + 1)
<1> DEFINE w == [i \in 0..most |-> At(o, i + 1)]
<1>p. /\ o \in Seq(Node) /\ h = At(o, 1)
      /\ \A i \in 1..Len(o) : nodes[o[i]].next = At(o, i + 1)
  BY DEF Path
<1>1. w = Step(w, h, nodes, most)
  <2>1. SUFFICES ASSUME NEW i \in 0..most
                 PROVE  w[i] = Step(w, h, nodes, most)[i]
    BY DEF Step
  <2>2. CASE i = 0
    BY <1>p, <2>2 DEF Step
  <2>3. CASE i # 0
    <3>1. i - 1 \in 0..most /\ (i - 1) + 1 = i /\ w[i - 1] = At(o, i) /\ i \in Nat
      BY <2>3
    <3>2. Step(w, h, nodes, most)[i] = IF At(o, i) = Null THEN Null ELSE nodes[At(o, i)].next
      BY <2>3, <3>1 DEF Step
    <3>3. CASE i \in 1..Len(o)
      <4>1. At(o, i) = o[i] /\ o[i] \in Node
        BY <1>p, <3>3 DEF At
      <4>2. QED
        BY <1>p, <3>2, <3>3, <4>1
    <3>4. CASE i \notin 1..Len(o)
      <4>1. i + 1 \notin 1..Len(o)
        BY <2>3, <3>1, <3>4
      <4>2. At(o, i) = Null /\ At(o, i + 1) = Null
        BY <3>4, <4>1 DEF At
      <4>3. QED
        BY <3>2, <4>2
    <3>5. QED
      BY <3>3, <3>4
  <2>4. QED
    BY <2>2, <2>3
<1>a. \A i \in 0..most : w[i] = At(o, i + 1)
  OBVIOUS
<1> HIDE DEF w
<1>2. ASSUME NEW f, f = Step(f, h, nodes, most)
      PROVE  \A i \in 0..most : f[i] = w[i]
  <2> DEFINE bad == {i \in 0..most : f[i] # w[i]}
  <2>1. SUFFICES ASSUME bad # {}
                 PROVE  FALSE
    OBVIOUS
  <2>2. bad \subseteq Nat
    OBVIOUS
  <2> HIDE DEF bad
  <2>3. Min(bad) \in bad /\ \A y \in bad : Min(bad) <= y
    BY <2>1, <2>2, LeastOf, Zenon
  <2>4. PICK i \in 0..most : f[i] # w[i] /\ \A y \in bad : i <= y
    BY <2>3 DEF bad
  <2>5. Step(f, h, nodes, most)[i] # Step(w, h, nodes, most)[i]
    BY <1>1, <1>2, <2>4, Zenon
  <2>6. CASE i = 0
    BY <2>5, <2>6 DEF Step
  <2>7. CASE i # 0
    <3>1. i - 1 \in 0..most /\ ~(i <= i - 1)
      BY <2>7
    <3>2. f[i - 1] = w[i - 1]
      BY <2>4, <3>1 DEF bad
    <3>3. QED
      BY <2>5, <2>7, <3>2 DEF Step
  <2>8. QED
    BY <2>6, <2>7
<1>3. \A f : f = Step(f, h, nodes, most) => DOMAIN f = 0..most
  BY DEF Step
<1>4. QED
  BY <1>1, <1>2, <1>3, <1>a

\* The walk from the head visits the places one by one.
LEMMA WalkIs ==
  ASSUME L!ConstantsOK, ListInv
  PROVE  /\ DOMAIN L!Walk = 0..Cardinality(Node)
         /\ \A i \in 0..Cardinality(Node) : L!Walk[i] = At(order, i + 1)
<1> DEFINE c == L!Cardinality(Node)
<1>1. c \in Nat /\ Len(order) \in Nat /\ Len(order) <= c /\ c = Cardinality(Node)
  BY ListBounded, ListNames
<1>2. Null \notin Node /\ Path(order, list_head, list_node)
  BY DEF ListInv, Chained, L!ConstantsOK, Path
<1>3. L!Walk = CHOOSE f : f = Step(f, list_head, list_node, c)
  BY Zenon DEF L!Walk, Step
<1> HIDE DEF c
<1>4. /\ \E f : f = Step(f, list_head, list_node, c)
      /\ \A f : f = Step(f, list_head, list_node, c) =>
               DOMAIN f = 0..c /\ \A i \in 0..c : f[i] = At(order, i + 1)
  BY <1>1, <1>2, Followed
<1>5. DOMAIN L!Walk = 0..c /\ \A i \in 0..c : L!Walk[i] = At(order, i + 1)
  BY <1>3, <1>4, Zenon
<1>6. QED
  BY <1>1, <1>5

\* Where a node of the list is.
LEMMA PlaceIs ==
  ASSUME ListInv, NEW y \in DOMAIN list_node
  PROVE  L!PlaceOf(y) \in 1..Len(order) /\ order[L!PlaceOf(y)] = y
<1>1. order \in Seq(Node) /\ DOMAIN list_node = ToSet(order)
  BY DEF ListInv, Chained
<1>2. DOMAIN order = 1..Len(order) /\ \E i \in DOMAIN order : order[i] = y
  BY <1>1 DEF ToSet
<1>3. QED
  BY <1>2 DEF L!PlaceOf

\* The fields of the nodes after an assignment to one of them.
LEMMA NextSet ==
  ASSUME NEW D, NEW f \in [D -> ListNode], NEW a \in D, NEW p \in Node \cup {Null}
  PROVE  /\ [f EXCEPT ![a].next = p] \in [D -> ListNode]
         /\ \A y \in D : /\ [f EXCEPT ![a].next = p][y].next = IF y = a THEN p ELSE f[y].next
                         /\ [f EXCEPT ![a].next = p][y].prev = f[y].prev
BY DEF ListNode

LEMMA PrevSet ==
  ASSUME NEW D, NEW f \in [D -> ListNode], NEW a \in D, NEW p \in Node \cup {Null}
  PROVE  /\ [f EXCEPT ![a].prev = p] \in [D -> ListNode]
         /\ \A y \in D : /\ [f EXCEPT ![a].prev = p][y].prev = IF y = a THEN p ELSE f[y].prev
                         /\ [f EXCEPT ![a].prev = p][y].next = f[y].next
BY DEF ListNode

\* The nodes with the new one, not yet linked.
LEMMA NewNodeIs ==
  ASSUME ListInv, Null \notin Node, NEW x \in Node, NEW d \in Data, x \notin DOMAIN list_node
  PROVE  /\ L!NewNode(x, d) \in [ToSet(order) \cup {x} -> ListNode]
         /\ L!NewNode(x, d)[x].next = Null /\ L!NewNode(x, d)[x].prev = Null
         /\ \A y \in ToSet(order) : y # x /\ L!NewNode(x, d)[y] = list_node[y]
<1>1. list_node \in [ToSet(order) -> ListNode]
  BY DEF ListInv, Chained
<1>2. [next |-> Null, prev |-> Null, data |-> d] \in ListNode
  BY DEF ListNode
<1>3. QED
  BY <1>1, <1>2 DEF L!NewNode

\* A node added at place k, its neighbours linked to it.
LEMMA ListGrows ==
  ASSUME L!ConstantsOK, ListInv, NEW x, L!Adds(x), NEW k,
         Grown(order, list_head, tail, list_node, k, x,
               order', list_head', tail', list_node')
  PROVE  ListInv'
<1>1. /\ order \in Seq(Node) /\ IsInjective(order)
      /\ list_n = Len(order) /\ n_max \in Nat /\ (n_max > 0 => list_n <= n_max)
      /\ Chained(order, list_head, tail, list_node)
      /\ list_alive /\ list_n' = list_n + 1 /\ n_max' = n_max /\ list_alive' = list_alive
      /\ ~(n_max > 0 /\ list_n >= n_max)
  BY DEF ListInv, L!Adds, L!Full
<1>2. Null \notin Node
  BY DEF L!ConstantsOK
<1>3. /\ order' \in Seq(Node) /\ IsInjective(order')
      /\ Len(order') = Len(order) + 1
      /\ Chained(order', list_head', tail', list_node')
  BY <1>1, <1>2, ChainGrows
<1>4. /\ list_n' = Len(order') /\ n_max' \in Nat /\ (n_max' > 0 => list_n' <= n_max')
      /\ (~list_alive' => order' = <<>>)
  BY <1>1, <1>3
<1>5. QED
  BY <1>3, <1>4 DEF ListInv, Chained

\* prepend_node and append_node, of a list that is empty or not.
LEMMA NodePrepended ==
  ASSUME L!ConstantsOK, ListInv, NEW x \in Node, NEW d \in Data, L!Adds(x),
         L!PrependNode(x, L!NewNode(x, d)), order' = InsertAt(order, 1, x)
  PROVE  ListInv'
<1> DEFINE fresh == L!NewNode(x, d)
           D == ToSet(order) \cup {x}
<1>1. /\ order \in Seq(Node) /\ Len(order) \in Nat /\ list_n = Len(order) /\ Null \notin Node
      /\ x \notin DOMAIN list_node
      /\ list_head = At(order, 1) /\ tail = At(order, Len(order))
      /\ DOMAIN list_node = ToSet(order)
      /\ At(order, 0) = Null /\ At(order, 1 - 1) = Null
  BY DEF ListInv, L!ConstantsOK, L!Adds, Chained, At
<1>2. /\ fresh \in [D -> ListNode]
      /\ fresh[x].next = Null /\ fresh[x].prev = Null
      /\ \A y \in ToSet(order) : y # x /\ fresh[y] = list_node[y]
  <2>1. Null \notin Node /\ x \notin DOMAIN list_node
    BY <1>1
  <2>2. QED
    BY <2>1, NewNodeIs, Zenon
<1>3. 1 \in 1..(Len(order) + 1) /\ (list_n <= 0 <=> Len(order) = 0)
  BY <1>1
<1>4. CASE list_n <= 0
  <2>1. list_head' = x /\ tail' = x /\ list_node' = fresh
    BY <1>4 DEF L!PrependNode
  <2>2. Len(order) + 1 = 1 /\ At(order, 1) = Null /\ ToSet(order) = {}
    BY <1>1, <1>3, <1>4 DEF At, ToSet
  <2> HIDE DEF fresh
  <2>3. Grown(order, list_head, tail, list_node, 1, x, order', list_head', tail', list_node')
    BY <1>1, <1>2, <1>3, <2>1, <2>2 DEF Grown
  <2>4. QED
    BY <2>3, ListGrows
<1>5. CASE ~(list_n <= 0)
  <2> DEFINE one == [fresh EXCEPT ![x].next = list_head]
             two == [one EXCEPT ![list_head].prev = x]
  <2>1. list_head' = x /\ tail' = tail /\ list_node' = two
    BY <1>5 DEF L!PrependNode
  <2>2. /\ Len(order) + 1 # 1 /\ list_head = order[1] /\ list_head \in ToSet(order)
        /\ list_head \in Node
    BY <1>1, <1>3, <1>5 DEF At, ToSet
  <2> HIDE DEF fresh, D
  <2>3. x \in D /\ list_head \in D /\ ToSet(order) \subseteq D
    BY <2>2 DEF D
  <2>4. /\ one \in [D -> ListNode]
        /\ \A y \in D : /\ one[y].next = IF y = x THEN list_head ELSE fresh[y].next
                        /\ one[y].prev = fresh[y].prev
    BY <1>2, <2>2, <2>3, NextSet
  <2> HIDE DEF one
  <2>5. /\ two \in [D -> ListNode]
        /\ \A y \in D : /\ two[y].prev = IF y = list_head THEN x ELSE one[y].prev
                        /\ two[y].next = one[y].next
    BY <2>2, <2>3, <2>4, PrevSet
  <2> HIDE DEF two
  <2>6. /\ two[x].next = At(order, 1) /\ two[x].prev = At(order, 1 - 1)
        /\ \A y \in ToSet(order) :
             /\ two[y].next = IF y = At(order, 1 - 1) THEN x ELSE list_node[y].next
             /\ two[y].prev = IF y = At(order, 1) THEN x ELSE list_node[y].prev
    <3>1. ToSet(order) \subseteq Node
      BY <1>1, ElementsTyped
    <3>2. QED
      BY <1>1, <1>2, <2>2, <2>3, <2>4, <2>5, <3>1
  <2>7. Grown(order, list_head, tail, list_node, 1, x, order', list_head', tail', list_node')
    BY <1>1, <1>3, <2>1, <2>2, <2>5, <2>6 DEF D, Grown
  <2>8. QED
    BY <2>7, ListGrows
<1>6. QED
  BY <1>4, <1>5

LEMMA NodeAppended ==
  ASSUME L!ConstantsOK, ListInv, NEW x \in Node, NEW d \in Data, L!Adds(x),
         L!AppendNode(x, L!NewNode(x, d)), order' = InsertAt(order, Len(order) + 1, x)
  PROVE  ListInv'
<1> DEFINE fresh == L!NewNode(x, d)
           D == ToSet(order) \cup {x}
           m == Len(order)
<1>1. /\ order \in Seq(Node) /\ m \in Nat /\ list_n = m /\ Null \notin Node
      /\ x \notin DOMAIN list_node
      /\ list_head = At(order, 1) /\ tail = At(order, m)
      /\ DOMAIN list_node = ToSet(order)
      /\ At(order, m + 1) = Null /\ (m + 1) - 1 = m
  BY DEF ListInv, L!ConstantsOK, L!Adds, Chained, At
<1>2. /\ fresh \in [D -> ListNode]
      /\ fresh[x].next = Null /\ fresh[x].prev = Null
      /\ \A y \in ToSet(order) : y # x /\ fresh[y] = list_node[y]
  <2>1. Null \notin Node /\ x \notin DOMAIN list_node
    BY <1>1
  <2>2. QED
    BY <2>1, NewNodeIs, Zenon
<1>3. m + 1 \in 1..(m + 1) /\ (list_n <= 0 <=> m = 0)
  BY <1>1
<1>4. CASE list_n <= 0
  <2>1. list_head' = x /\ tail' = x /\ list_node' = fresh
    BY <1>4 DEF L!AppendNode
  <2>2. m + 1 = 1 /\ At(order, m) = Null /\ ToSet(order) = {}
    BY <1>1, <1>3, <1>4 DEF At, ToSet
  <2> HIDE DEF fresh
  <2>3. Grown(order, list_head, tail, list_node, m + 1, x, order', list_head', tail', list_node')
    BY <1>1, <1>2, <1>3, <2>1, <2>2 DEF Grown
  <2>4. QED
    BY <2>3, ListGrows
<1>5. CASE ~(list_n <= 0)
  <2> DEFINE one == [fresh EXCEPT ![x].prev = tail]
             two == [one EXCEPT ![tail].next = x]
  <2>1. list_head' = list_head /\ tail' = x /\ list_node' = two
    BY <1>5 DEF L!AppendNode
  <2>2. /\ m + 1 # 1 /\ tail = order[m] /\ tail \in ToSet(order) /\ tail \in Node
    BY <1>1, <1>3, <1>5 DEF At, ToSet
  <2> HIDE DEF fresh, D
  <2>3. x \in D /\ tail \in D /\ ToSet(order) \subseteq D
    BY <2>2 DEF D
  <2>4. /\ one \in [D -> ListNode]
        /\ \A y \in D : /\ one[y].prev = IF y = x THEN tail ELSE fresh[y].prev
                        /\ one[y].next = fresh[y].next
    BY <1>2, <2>2, <2>3, PrevSet
  <2> HIDE DEF one
  <2>5. /\ two \in [D -> ListNode]
        /\ \A y \in D : /\ two[y].next = IF y = tail THEN x ELSE one[y].next
                        /\ two[y].prev = one[y].prev
    BY <2>2, <2>3, <2>4, NextSet
  <2> HIDE DEF two
  <2>6. /\ two[x].next = At(order, m + 1) /\ two[x].prev = At(order, m)
        /\ \A y \in ToSet(order) :
             /\ two[y].next = IF y = At(order, m) THEN x ELSE list_node[y].next
             /\ two[y].prev = IF y = At(order, m + 1) THEN x ELSE list_node[y].prev
    <3>1. ToSet(order) \subseteq Node
      BY <1>1, ElementsTyped
    <3>2. QED
      BY <1>1, <1>2, <2>2, <2>3, <2>4, <2>5, <3>1
  <2>7. Grown(order, list_head, tail, list_node, m + 1, x, order', list_head', tail', list_node')
    <3>1. /\ x \in Node \ ToSet(order) /\ two \in [ToSet(order) \cup {x} -> ListNode]
          /\ list_head' = IF Len(order) + 1 = 1 THEN x ELSE list_head
          /\ tail' = IF Len(order) + 1 = Len(order) + 1 THEN x ELSE tail
      BY <1>1, <2>1, <2>2, <2>5 DEF D
    <3>2. At(order, (m + 1) - 1) = At(order, m)
      BY <1>1
    <3>3. /\ two[x].next = At(order, m + 1) /\ two[x].prev = At(order, (m + 1) - 1)
          /\ \A y \in ToSet(order) :
               /\ two[y].next = IF y = At(order, (m + 1) - 1) THEN x ELSE list_node[y].next
               /\ two[y].prev = IF y = At(order, m + 1) THEN x ELSE list_node[y].prev
      BY <2>6, <3>2, Zenon
    <3>4. QED
      BY <1>3, <2>1, <3>1, <3>3 DEF Grown
  <2>8. QED
    BY <2>7, ListGrows
<1>6. QED
  BY <1>4, <1>5

\* The four assignments of an insertion between nodes a and b, in the order
\* of either function.
AfterAssigned(f, x, a, b) ==
  [f EXCEPT ![b].prev = x, ![x].next = b, ![x].prev = a, ![a].next = x]

BeforeAssigned(f, x, a, b) ==
  [f EXCEPT ![x].next = b, ![a].next = x, ![x].prev = a, ![b].prev = x]

Between(D, f, x, a, b, more) ==
  /\ more \in [D -> ListNode]
  /\ \A y \in D : /\ more[y].next = IF y = x THEN b ELSE IF y = a THEN x ELSE f[y].next
                  /\ more[y].prev = IF y = x THEN a ELSE IF y = b THEN x ELSE f[y].prev

LEMMA AfterLinks ==
  ASSUME NEW D, NEW f \in [D -> ListNode], NEW x \in D \cap Node,
         NEW a \in D \cap Node, NEW b \in D \cap Node, x # a, x # b
  PROVE  Between(D, f, x, a, b, AfterAssigned(f, x, a, b))
<1> DEFINE f1 == [f EXCEPT ![b].prev = x]
           f2 == [f1 EXCEPT ![x].next = b]
           f3 == [f2 EXCEPT ![x].prev = a]
           f4 == [f3 EXCEPT ![a].next = x]
<1>1. AfterAssigned(f, x, a, b) = f4
  BY DEF AfterAssigned
<1>2. /\ f1 \in [D -> ListNode]
      /\ \A y \in D : /\ f1[y].prev = IF y = b THEN x ELSE f[y].prev
                      /\ f1[y].next = f[y].next
  BY PrevSet
<1> HIDE DEF f1
<1>3. /\ f2 \in [D -> ListNode]
      /\ \A y \in D : /\ f2[y].next = IF y = x THEN b ELSE f1[y].next
                      /\ f2[y].prev = f1[y].prev
  BY <1>2, NextSet
<1> HIDE DEF f2
<1>4. /\ f3 \in [D -> ListNode]
      /\ \A y \in D : /\ f3[y].prev = IF y = x THEN a ELSE f2[y].prev
                      /\ f3[y].next = f2[y].next
  BY <1>3, PrevSet
<1> HIDE DEF f3
<1>5. /\ f4 \in [D -> ListNode]
      /\ \A y \in D : /\ f4[y].next = IF y = a THEN x ELSE f3[y].next
                      /\ f4[y].prev = f3[y].prev
  BY <1>4, NextSet
<1> HIDE DEF f4
<1>6. Between(D, f, x, a, b, f4)
  BY <1>2, <1>3, <1>4, <1>5 DEF Between
<1>7. QED
  BY <1>1, <1>6

LEMMA BeforeLinks ==
  ASSUME NEW D, NEW f \in [D -> ListNode], NEW x \in D \cap Node,
         NEW a \in D \cap Node, NEW b \in D \cap Node, x # a, x # b
  PROVE  Between(D, f, x, a, b, BeforeAssigned(f, x, a, b))
<1> DEFINE f1 == [f EXCEPT ![x].next = b]
           f2 == [f1 EXCEPT ![a].next = x]
           f3 == [f2 EXCEPT ![x].prev = a]
           f4 == [f3 EXCEPT ![b].prev = x]
<1>1. BeforeAssigned(f, x, a, b) = f4
  BY DEF BeforeAssigned
<1>2. /\ f1 \in [D -> ListNode]
      /\ \A y \in D : /\ f1[y].next = IF y = x THEN b ELSE f[y].next
                      /\ f1[y].prev = f[y].prev
  BY NextSet
<1> HIDE DEF f1
<1>3. /\ f2 \in [D -> ListNode]
      /\ \A y \in D : /\ f2[y].next = IF y = a THEN x ELSE f1[y].next
                      /\ f2[y].prev = f1[y].prev
  BY <1>2, NextSet
<1> HIDE DEF f2
<1>4. /\ f3 \in [D -> ListNode]
      /\ \A y \in D : /\ f3[y].prev = IF y = x THEN a ELSE f2[y].prev
                      /\ f3[y].next = f2[y].next
  BY <1>3, PrevSet
<1> HIDE DEF f3
<1>5. /\ f4 \in [D -> ListNode]
      /\ \A y \in D : /\ f4[y].prev = IF y = b THEN x ELSE f3[y].prev
                      /\ f4[y].next = f3[y].next
  BY <1>4, PrevSet
<1> HIDE DEF f4
<1>6. Between(D, f, x, a, b, f4)
  BY <1>2, <1>3, <1>4, <1>5 DEF Between
<1>7. QED
  BY <1>1, <1>6

\* An insertion between two nodes, at place k of the chain, the second's.
LEMMA NodeBetween ==
  ASSUME L!ConstantsOK, ListInv, NEW x \in Node, NEW d \in Data, L!Adds(x),
         NEW k \in 2..Len(order), order' = InsertAt(order, k, x),
         UNCHANGED <<list_head, tail>>,
         \/ list_node' = AfterAssigned(L!NewNode(x, d), x, order[k - 1], order[k])
         \/ list_node' = BeforeAssigned(L!NewNode(x, d), x, order[k - 1], order[k])
  PROVE  ListInv'
<1> DEFINE fresh == L!NewNode(x, d)
           D == ToSet(order) \cup {x}
<1>1. /\ order \in Seq(Node) /\ Len(order) \in Nat /\ Null \notin Node
      /\ x \notin DOMAIN list_node /\ DOMAIN list_node = ToSet(order)
      /\ IsInjective(order)
  BY DEF ListInv, L!ConstantsOK, L!Adds, Chained
<1>2. /\ fresh \in [D -> ListNode]
      /\ fresh[x].next = Null /\ fresh[x].prev = Null
      /\ \A y \in ToSet(order) : y # x /\ fresh[y] = list_node[y]
  <2>1. Null \notin Node /\ x \notin DOMAIN list_node
    BY <1>1
  <2>2. QED
    BY <2>1, NewNodeIs, Zenon
<1>3. /\ k \in 1..(Len(order) + 1) /\ k # 1 /\ k # Len(order) + 1
      /\ k \in 1..Len(order) /\ k - 1 \in 1..Len(order) /\ k # k - 1
  BY <1>1
<1>4. PICK a, b : a = order[k - 1] /\ b = order[k]
  OBVIOUS
<1>5. a = At(order, k - 1) /\ b = At(order, k)
  BY <1>3, <1>4 DEF At
<1>6. a \in ToSet(order) /\ b \in ToSet(order) /\ a # b
  BY <1>1, <1>3, <1>4 DEF ToSet, IsInjective
<1>7. ToSet(order) \subseteq Node
  BY <1>1, ElementsTyped
<1> HIDE DEF fresh
<1>8. /\ x \in D \cap Node /\ a \in D \cap Node /\ b \in D \cap Node
      /\ ToSet(order) \subseteq D /\ x # a /\ x # b
  BY <1>1, <1>6, <1>7
<1> HIDE DEF D
<1>9. Between(D, fresh, x, a, b, list_node')
  <2>1. CASE list_node' = AfterAssigned(fresh, x, a, b)
    <3>1. Between(D, fresh, x, a, b, AfterAssigned(fresh, x, a, b))
      BY <1>2, <1>8, AfterLinks
    <3>2. QED
      BY <2>1, <3>1
  <2>2. CASE list_node' = BeforeAssigned(fresh, x, a, b)
    <3>1. Between(D, fresh, x, a, b, BeforeAssigned(fresh, x, a, b))
      BY <1>2, <1>8, BeforeLinks
    <3>2. QED
      BY <2>2, <3>1
  <2>3. QED
    BY <1>4, <2>1, <2>2 DEF fresh
<1>10. /\ list_node' \in [D -> ListNode]
       /\ list_node'[x].next = At(order, k) /\ list_node'[x].prev = At(order, k - 1)
       /\ \A y \in ToSet(order) :
           /\ list_node'[y].next = IF y = At(order, k - 1) THEN x ELSE list_node[y].next
           /\ list_node'[y].prev = IF y = At(order, k) THEN x ELSE list_node[y].prev
  BY <1>2, <1>5, <1>8, <1>9 DEF Between
<1>11. Grown(order, list_head, tail, list_node, k, x, order', list_head', tail', list_node')
  BY <1>1, <1>3, <1>10 DEF D, Grown
<1>12. QED
  BY <1>11, ListGrows

\* list_insert_data_after_node and list_insert_data_before_node.
LEMMA InsertedAfter ==
  ASSUME L!ConstantsOK, ListInv, NEW x \in Node, NEW y \in Node, NEW d \in Data,
         L!list_insert_data_after_node(y, x, d)
  PROVE  ListInv'
<1> DEFINE p == L!PlaceOf(y)
           m == Len(order)
           fresh == L!NewNode(x, d)
<1>1. /\ L!Adds(x) /\ y \in DOMAIN list_node /\ x \notin DOMAIN list_node
      /\ order' = InsertAt(order, p + 1, x)
  <2>1. /\ L!Adds(x) /\ y \in DOMAIN list_node
        /\ order' = L!InsertAt(order, L!PlaceOf(y) + 1, x)
    BY Zenon DEF L!list_insert_data_after_node
  <2>2. x \notin DOMAIN list_node
    BY <2>1 DEF L!Adds
  <2>3. QED
    BY <2>1, <2>2, ListNames, Zenon
<1>2. /\ order \in Seq(Node) /\ m \in Nat /\ Null \notin Node
      /\ DOMAIN list_node = ToSet(order)
      /\ \A i \in 1..m : list_node[order[i]].next = At(order, i + 1)
  BY DEF ListInv, L!ConstantsOK, Chained
<1>3. p \in 1..m /\ order[p] = y
  BY <1>1, PlaceIs
<1>4. fresh[y].next = At(order, p + 1)
  <2>1. \A z \in ToSet(order) : fresh[z] = list_node[z]
    <3>1. Null \notin Node /\ x \notin DOMAIN list_node
      BY <1>1, <1>2
    <3>2. \A z \in ToSet(order) : z # x /\ fresh[z] = list_node[z]
      BY <3>1, NewNodeIs
    <3>3. QED
      BY <3>2, Zenon
  <2>2. list_node[y].next = At(order, p + 1)
    <3> HIDE DEF p, m
    <3>1. QED
      BY <1>2, <1>3
  <2> HIDE DEF fresh
  <2>3. QED
    BY <1>1, <1>2, <2>1, <2>2
<1>5. CASE fresh[y].next = Null
  <2>1. L!AppendNode(x, fresh)
    BY <1>5, Zenon DEF L!list_insert_data_after_node
  <2>2. p = m
    <3> HIDE DEF p, m, fresh
    <3>1. p + 1 \notin 1..m
      <4>1. SUFFICES ASSUME p + 1 \in 1..m
                     PROVE  FALSE
        OBVIOUS
      <4>2. order[p + 1] \in Node
        BY <1>2, <4>1 DEF m
      <4>3. At(order, p + 1) = order[p + 1]
        BY <4>1 DEF At, m
      <4>4. QED
        BY <1>2, <1>4, <1>5, <4>2, <4>3
    <3>2. QED
      BY <1>2, <1>3, <3>1
  <2>3. order' = InsertAt(order, Len(order) + 1, x)
    <3> HIDE DEF p
    <3>1. QED
      BY <1>1, <2>2
  <2>4. QED
    BY <1>1, <2>1, <2>3, NodeAppended
<1>6. CASE fresh[y].next # Null
  <2>1. /\ list_node' = AfterAssigned(fresh, x, y, fresh[y].next)
        /\ UNCHANGED <<list_head, tail>>
    BY <1>6, Zenon DEF L!list_insert_data_after_node, AfterAssigned
  <2> HIDE DEF p, fresh
  <2>2. p + 1 \in 2..Len(order) /\ fresh[y].next = order[p + 1] /\ (p + 1) - 1 = p
    BY <1>2, <1>3, <1>4, <1>6 DEF At
  <2>3. PICK k \in 2..Len(order) : k = p + 1
    BY <2>2
  <2>4. order[k - 1] = y /\ order[k] = fresh[y].next /\ order' = InsertAt(order, k, x)
    BY <1>1, <1>3, <2>2, <2>3
  <2>5. list_node' = AfterAssigned(L!NewNode(x, d), x, order[k - 1], order[k])
    BY <2>1, <2>4 DEF fresh
  <2>6. QED
    BY <1>1, <2>1, <2>4, <2>5, NodeBetween
<1>7. QED
  BY <1>5, <1>6

LEMMA InsertedBefore ==
  ASSUME L!ConstantsOK, ListInv, NEW x \in Node, NEW y \in Node, NEW d \in Data,
         L!list_insert_data_before_node(y, x, d)
  PROVE  ListInv'
<1> DEFINE p == L!PlaceOf(y)
           m == Len(order)
           fresh == L!NewNode(x, d)
<1>1. /\ L!Adds(x) /\ y \in DOMAIN list_node /\ x \notin DOMAIN list_node
      /\ order' = InsertAt(order, p, x)
  <2>1. /\ L!Adds(x) /\ y \in DOMAIN list_node
        /\ order' = L!InsertAt(order, L!PlaceOf(y), x)
    BY Zenon DEF L!list_insert_data_before_node
  <2>2. x \notin DOMAIN list_node
    BY <2>1 DEF L!Adds
  <2>3. QED
    BY <2>1, <2>2, ListNames, Zenon
<1>2. /\ order \in Seq(Node) /\ m \in Nat /\ Null \notin Node
      /\ DOMAIN list_node = ToSet(order)
      /\ \A i \in 1..m : list_node[order[i]].prev = At(order, i - 1)
  BY DEF ListInv, L!ConstantsOK, Chained
<1>3. p \in 1..m /\ order[p] = y
  BY <1>1, PlaceIs
<1>4. fresh[y].prev = At(order, p - 1)
  <2>1. \A z \in ToSet(order) : fresh[z] = list_node[z]
    <3>1. Null \notin Node /\ x \notin DOMAIN list_node
      BY <1>1, <1>2
    <3>2. \A z \in ToSet(order) : z # x /\ fresh[z] = list_node[z]
      BY <3>1, NewNodeIs
    <3>3. QED
      BY <3>2, Zenon
  <2>2. list_node[y].prev = At(order, p - 1)
    <3> HIDE DEF p, m
    <3>1. QED
      BY <1>2, <1>3
  <2> HIDE DEF fresh
  <2>3. QED
    BY <1>1, <1>2, <2>1, <2>2
<1>5. CASE fresh[y].prev = Null
  <2>1. L!PrependNode(x, fresh)
    BY <1>5, Zenon DEF L!list_insert_data_before_node
  <2>2. p = 1
    <3> HIDE DEF p, m, fresh
    <3>1. p - 1 \notin 1..m
      <4>1. SUFFICES ASSUME p - 1 \in 1..m
                     PROVE  FALSE
        OBVIOUS
      <4>2. order[p - 1] \in Node
        BY <1>2, <4>1 DEF m
      <4>3. At(order, p - 1) = order[p - 1]
        BY <4>1 DEF At, m
      <4>4. QED
        BY <1>2, <1>4, <1>5, <4>2, <4>3
    <3>2. QED
      BY <1>2, <1>3, <3>1
  <2>3. order' = InsertAt(order, 1, x)
    <3> HIDE DEF p
    <3>1. QED
      BY <1>1, <2>2
  <2>4. QED
    BY <1>1, <2>1, <2>3, NodePrepended
<1>6. CASE fresh[y].prev # Null
  <2>1. /\ list_node' = BeforeAssigned(fresh, x, fresh[y].prev, y)
        /\ UNCHANGED <<list_head, tail>>
    BY <1>6, Zenon DEF L!list_insert_data_before_node, BeforeAssigned
  <2> HIDE DEF p, fresh
  <2>2. p \in 2..Len(order) /\ fresh[y].prev = order[p - 1]
    BY <1>2, <1>3, <1>4, <1>6 DEF At
  <2>3. PICK k \in 2..Len(order) : k = p
    BY <2>2
  <2>4. order[k] = y /\ order[k - 1] = fresh[y].prev /\ order' = InsertAt(order, k, x)
    BY <1>1, <1>3, <2>2, <2>3
  <2>5. list_node' = BeforeAssigned(L!NewNode(x, d), x, order[k - 1], order[k])
    BY <2>1, <2>4 DEF fresh
  <2>6. QED
    BY <1>1, <2>1, <2>4, <2>5, NodeBetween
<1>7. QED
  BY <1>5, <1>6

\* list_prepend_data and list_append_data.
LEMMA DataAdded ==
  ASSUME L!ConstantsOK, ListInv, NEW x \in Node, NEW d \in Data,
         L!list_prepend_data(x, d) \/ L!list_append_data(x, d)
  PROVE  ListInv'
<1>1. order \in Seq(Node)
  BY DEF ListInv
<1>2. /\ InsertAt(order, 1, x) = <<x>> \o order
      /\ InsertAt(order, Len(order) + 1, x) = Append(order, x)
  BY <1>1, InsertedAtEnds
<1>3. CASE L!list_prepend_data(x, d)
  <2>1. /\ L!Adds(x) /\ L!PrependNode(x, L!NewNode(x, d))
        /\ order' = InsertAt(order, 1, x)
    BY <1>2, <1>3 DEF L!list_prepend_data
  <2>2. QED
    BY <2>1, NodePrepended
<1>4. CASE L!list_append_data(x, d)
  <2>1. /\ L!Adds(x) /\ L!AppendNode(x, L!NewNode(x, d))
        /\ order' = InsertAt(order, Len(order) + 1, x)
    BY <1>2, <1>4 DEF L!list_append_data
  <2>2. QED
    BY <2>1, NodeAppended
<1>5. QED
  BY <1>3, <1>4

\* The other nodes, once the neighbours of the one taken out point past it.
Rejoined(rest, after, before) ==
  [y \in DOMAIN rest |->
     [rest[y] EXCEPT !.next = IF y = before THEN after ELSE @,
                     !.prev = IF y = after THEN before ELSE @]]

NewLinks(r, p, q) == [r EXCEPT !.next = p, !.prev = q]

LEMMA RejoinedIs ==
  ASSUME NEW D, NEW rest \in [D -> ListNode],
         NEW after \in Node \cup {Null}, NEW before \in Node \cup {Null}
  PROVE  /\ Rejoined(rest, after, before) \in [D -> ListNode]
         /\ \A y \in D :
              /\ Rejoined(rest, after, before)[y].next =
                   IF y = before THEN after ELSE rest[y].next
              /\ Rejoined(rest, after, before)[y].prev =
                   IF y = after THEN before ELSE rest[y].prev
<1>2. DOMAIN rest = D
  OBVIOUS
<1>3. ASSUME NEW y \in D
      PROVE  /\ Rejoined(rest, after, before)[y] \in ListNode
             /\ Rejoined(rest, after, before)[y].next =
                  IF y = before THEN after ELSE rest[y].next
             /\ Rejoined(rest, after, before)[y].prev =
                  IF y = after THEN before ELSE rest[y].prev
  <2>1. rest[y] \in ListNode
    OBVIOUS
  <2>2. rest[y].next \in Node \cup {Null} /\ rest[y].prev \in Node \cup {Null}
    BY <2>1 DEF ListNode
  <2>3. PICK p \in Node \cup {Null} : p = IF y = before THEN after ELSE rest[y].next
    BY <2>2
  <2>4. PICK q \in Node \cup {Null} : q = IF y = after THEN before ELSE rest[y].prev
    BY <2>2
  <2>5. Rejoined(rest, after, before)[y] = NewLinks(rest[y], p, q)
    BY <1>2, <2>3, <2>4 DEF Rejoined, NewLinks
  <2>6. PICK r \in ListNode : r = rest[y]
    BY <2>1
  <2>7. /\ NewLinks(r, p, q) \in ListNode
        /\ NewLinks(r, p, q).next = p
        /\ NewLinks(r, p, q).prev = q
    <3> DEFINE r1 == [r EXCEPT !.next = p]
               r2 == [r1 EXCEPT !.prev = q]
    <3>1. r1 \in ListNode /\ r1.next = p
      BY DEF ListNode
    <3> HIDE DEF r1
    <3>2. r2 \in ListNode /\ r2.next = p /\ r2.prev = q
      BY <3>1 DEF ListNode
    <3>3. QED
      BY <3>2 DEF r1, NewLinks
  <2>8. /\ Rejoined(rest, after, before)[y] \in ListNode
        /\ Rejoined(rest, after, before)[y].next = p
        /\ Rejoined(rest, after, before)[y].prev = q
    BY <2>5, <2>6, <2>7, Zenon
  <2>9. QED
    BY <2>3, <2>4, <2>8
<1>4. Rejoined(rest, after, before) \in [D -> ListNode]
  <2>1. \A y \in D : Rejoined(rest, after, before)[y] \in ListNode
    BY <1>3
  <2>2. Rejoined(rest, after, before) = [y \in D |-> Rejoined(rest, after, before)[y]]
    BY <1>2 DEF Rejoined
  <2>3. QED
    BY <2>1, <2>2
<1>5. QED
  BY <1>3, <1>4

\* thread_unsafe_list_remove_node, of the node at place k.
LEMMA NodeRemoved ==
  ASSUME L!ConstantsOK, ListInv, NEW k \in 1..Len(order), L!RemoveNode(order[k]),
         list_alive, order' = RemoveAt(order, k)
  PROVE  ListInv'
<1> DEFINE m == Len(order)
           D == ToSet(order) \ {order[k]}
<1>1. /\ order \in Seq(Node) /\ IsInjective(order) /\ m \in Nat /\ Null \notin Node
      /\ list_n = m /\ n_max \in Nat /\ (n_max > 0 => list_n <= n_max)
      /\ list_node \in [ToSet(order) -> ListNode]
      /\ list_node[order[k]].next = At(order, k + 1)
      /\ list_node[order[k]].prev = At(order, k - 1)
      /\ list_head = At(order, 1) /\ tail = At(order, m)
      /\ Chained(order, list_head, tail, list_node)
  BY DEF ListInv, L!ConstantsOK, Chained
<1>c. PICK after : after = list_node[order[k]].next
  OBVIOUS
<1>d. PICK before : before = list_node[order[k]].prev
  OBVIOUS
<1>e. PICK rest : rest = L!Restrict(list_node, DOMAIN list_node \ {order[k]})
  OBVIOUS
<1>2. /\ after = list_node[order[k]].next /\ before = list_node[order[k]].prev
      /\ rest = L!Restrict(list_node, DOMAIN list_node \ {order[k]})
  BY <1>c, <1>d, <1>e
<1>3. /\ list_head' = IF before = Null THEN after ELSE list_head
      /\ tail' = IF after = Null THEN before ELSE tail
      /\ list_n' = list_n - 1 /\ list_alive' = list_alive /\ n_max' = n_max
      /\ list_node' = Rejoined(rest, after, before)
  BY <1>2, Zenon DEF L!RemoveNode, Rejoined
<1>a. after = At(order, k + 1) /\ before = At(order, k - 1)
  BY <1>1, <1>2
<1>b. rest = [y \in D |-> list_node[y]]
  BY <1>1, <1>2, ListNames
<1>4. after \in Node \cup {Null} /\ before \in Node \cup {Null}
  BY <1>1, <1>a DEF At
<1>5. /\ before = Null <=> k = 1
      /\ after = Null <=> k = m
  BY <1>1, <1>a DEF At
<1>6. /\ list_node' \in [D -> ListNode]
      /\ \A y \in D :
           /\ list_node'[y].next = IF y = before THEN after ELSE list_node[y].next
           /\ list_node'[y].prev = IF y = after THEN before ELSE list_node[y].prev
  <2>1. rest \in [D -> ListNode] /\ \A y \in D : rest[y] = list_node[y]
    BY <1>1, <1>b
  <2> HIDE DEF D
  <2>2. /\ Rejoined(rest, after, before) \in [D -> ListNode]
        /\ \A y \in D :
             /\ Rejoined(rest, after, before)[y].next =
                  IF y = before THEN after ELSE rest[y].next
             /\ Rejoined(rest, after, before)[y].prev =
                  IF y = after THEN before ELSE rest[y].prev
    BY <1>4, <2>1, RejoinedIs
  <2>3. QED
    BY <1>3, <2>1, <2>2
<1>7. Shrunk(order, list_head, tail, list_node, k, order', list_head', tail', list_node')
  <2>1. /\ list_head' = IF k = 1 THEN At(order, 2) ELSE list_head
        /\ tail' = IF k = m THEN At(order, m - 1) ELSE tail
    <3>1. k = 1 => k + 1 = 2
      BY <1>1
    <3>2. QED
      BY <1>3, <1>5, <1>a, <3>1
  <2>2. QED
    BY <1>6, <1>a, <2>1 DEF Shrunk
<1>8. /\ order' \in Seq(Node) /\ IsInjective(order') /\ Len(order') = m - 1
      /\ Chained(order', list_head', tail', list_node')
  BY <1>1, <1>7, ChainShrinks
<1>9. /\ list_n' = Len(order') /\ n_max' \in Nat /\ (n_max' > 0 => list_n' <= n_max')
      /\ (~list_alive' => order' = <<>>)
  BY <1>1, <1>3, <1>8
<1>10. QED
  BY <1>8, <1>9 DEF ListInv, Chained

\* list_remove_node, and list_remove_data of the first node with the datum.
LEMMA NodeOrDataRemoved ==
  ASSUME L!ConstantsOK, ListInv,
         \/ \E x \in Node : L!list_remove_node(x)
         \/ \E d \in Data : L!list_remove_data(d)
  PROVE  ListInv'
<1>1. /\ order \in Seq(Node) /\ Len(order) \in Nat /\ Null \notin Node
      /\ DOMAIN order = 1..Len(order)
  BY DEF ListInv, L!ConstantsOK
<1>2. ASSUME NEW x \in Node, L!list_remove_node(x)
      PROVE  ListInv'
  <2>1. /\ list_alive /\ x \in DOMAIN list_node /\ L!RemoveNode(x)
        /\ order' = RemoveAt(order, L!PlaceOf(x))
    BY <1>2, ListNames DEF L!list_remove_node
  <2>2. PICK k \in 1..Len(order) : k = L!PlaceOf(x) /\ order[k] = x
    BY <2>1, PlaceIs
  <2>3. QED
    BY <2>1, <2>2, NodeRemoved
<1>3. ASSUME NEW d \in Data, L!list_remove_data(d)
      PROVE  ListInv'
  <2> DEFINE places == {i \in DOMAIN order : list_node[order[i]].data = d}
             hits == {i \in DOMAIN L!Walk : L!Walk[i] # Null /\ list_node[L!Walk[i]].data = d}
  <2>1. /\ DOMAIN L!Walk = 0..Cardinality(Node)
        /\ \A i \in 0..Cardinality(Node) : L!Walk[i] = At(order, i + 1)
    BY WalkIs
  <2>2. Cardinality(Node) \in Nat /\ Len(order) <= Cardinality(Node)
    BY ListBounded
  <2>3. L!FindDataNode(d) = IF hits = {} THEN Null ELSE L!Walk[Min(hits)]
    <3>1. L!FindDataNode(d) = IF hits = {} THEN Null ELSE L!Walk[L!Min(hits)]
      BY Zenon DEF L!FindDataNode
    <3>2. L!Min(hits) = Min(hits)
      BY ListNames
    <3>3. QED
      BY <3>1, <3>2, Zenon
  <2>4. /\ list_alive /\ L!FindDataNode(d) # Null /\ L!RemoveNode(L!FindDataNode(d))
        /\ order' = RemoveAt(order, Min(places))
    <3>1. /\ list_alive /\ L!FindDataNode(d) # Null /\ L!RemoveNode(L!FindDataNode(d))
          /\ order' = L!RemoveAt(order, L!Min(places))
      BY <1>3, Zenon DEF L!list_remove_data
    <3>2. /\ L!Min(places) = Min(places)
          /\ L!RemoveAt(order, L!Min(places)) = RemoveAt(order, L!Min(places))
      BY ListNames
    <3>3. QED
      BY <3>1, <3>2, Zenon
  <2>5. hits # {} /\ hits \subseteq Nat
    <3>1. hits # {}
      BY <2>3, <2>4, Zenon
    <3>2. QED
      BY <2>1, <2>2, <3>1
  <2>6. Min(hits) \in hits /\ \A j \in hits : Min(hits) <= j
    BY <2>5, LeastOf
  <2>7. /\ places # {} /\ places \subseteq Nat =>
              Min(places) \in places /\ \A j \in places : Min(places) <= j
    BY LeastOf
  <2> HIDE DEF hits, places
  <2>c. PICK H : H = hits
    OBVIOUS
  <2>d. PICK P : P = places
    OBVIOUS
  <2>8. H = hits /\ P = places
    BY <2>c, <2>d, Zenon
  <2>a. /\ H \subseteq 0..Cardinality(Node)
        /\ \A i \in 0..Cardinality(Node) :
             i \in H <=> At(order, i + 1) # Null /\ list_node[At(order, i + 1)].data = d
        /\ P \subseteq 1..Len(order)
        /\ \A i \in 1..Len(order) : i \in P <=> list_node[order[i]].data = d
    BY <1>1, <2>1, <2>8 DEF hits, places
  <2>b. /\ H # {} /\ Min(H) \in H /\ \A j \in H : Min(H) <= j
        /\ P # {} /\ P \subseteq Nat => Min(P) \in P /\ \A j \in P : Min(P) <= j
        /\ L!FindDataNode(d) = IF H = {} THEN Null ELSE L!Walk[Min(H)]
        /\ order' = RemoveAt(order, Min(P))
    BY <2>3, <2>4, <2>5, <2>6, <2>7, <2>8, Zenon
  <2>9. \A j \in 1..Len(order) : j \in P <=> j - 1 \in H
    <3>1. SUFFICES ASSUME NEW j \in 1..Len(order)
                   PROVE  j \in P <=> j - 1 \in H
      OBVIOUS
    <3>2. j - 1 \in 0..Cardinality(Node) /\ (j - 1) + 1 = j
      BY <1>1, <2>2
    <3>3. At(order, j) = order[j] /\ order[j] # Null
      BY <1>1 DEF At
    <3>4. QED
      BY <2>a, <3>2, <3>3
  <2>10. PICK i \in 0..Cardinality(Node) : i = Min(H) /\ i \in H /\ \A j \in H : i <= j
    <3>1. Min(H) \in 0..Cardinality(Node)
      BY <2>a, <2>b
    <3>2. QED
      BY <2>b, <3>1, Zenon
  <2>11. L!FindDataNode(d) = At(order, i + 1)
    BY <2>1, <2>b, <2>10
  <2>12. i \in Nat /\ i + 1 \in 1..Len(order) /\ (i + 1) - 1 = i
    BY <2>2, <2>4, <2>10, <2>11 DEF At
  <2>13. i + 1 \in P
    BY <2>9, <2>10, <2>12
  <2>14. P # {} /\ P \subseteq Nat
    BY <1>1, <2>a, <2>13
  <2>15. PICK k \in 1..Len(order) : k = Min(P) /\ k \in P /\ \A j \in P : k <= j
    <3>1. Min(P) \in P /\ \A j \in P : Min(P) <= j
      BY <2>b, <2>14, Zenon
    <3>2. PICK k \in P : k = Min(P) /\ \A j \in P : k <= j
      BY <3>1, Zenon
    <3>3. k \in 1..Len(order)
      BY <2>a, Zenon
    <3>4. QED
      BY <3>2, <3>3, Zenon
  <2>16. k = i + 1
    <3>1. k - 1 \in H
      BY <2>9, <2>15
    <3>2. i <= k - 1 /\ k <= i + 1
      BY <2>10, <2>13, <2>15, <3>1
    <3>3. QED
      BY <1>1, <2>12, <3>2
  <2>17. L!FindDataNode(d) = order[k] /\ order' = RemoveAt(order, k)
    BY <2>b, <2>11, <2>15, <2>16 DEF At
  <2>18. L!RemoveNode(order[k]) /\ list_alive
    BY <2>4, <2>17, Zenon
  <2>19. QED
    BY <2>17, <2>18, NodeRemoved
<1>4. QED
  BY <1>2, <1>3

\* list_init and list_destroy: the walk passes every node.
LEMMA ListRenewed ==
  ASSUME L!ConstantsOK, ListInv, L!list_init \/ L!list_destroy
  PROVE  ListInv'
<1>1. CASE L!list_init
  <2>1. /\ order = <<>> /\ order' = order /\ list_n' = list_n /\ list_alive' = TRUE
        /\ list_head' = list_head /\ tail' = tail /\ list_node' = list_node
        /\ n_max' \in Nat /\ list_n = 0
    <3>1. ~list_alive /\ n_max' \in Nat
      BY <1>1 DEF L!list_init, L!ConstantsOK
    <3>2. Len(<<>>) = 0
      OBVIOUS
    <3>3. QED
      BY <1>1, <3>1, <3>2 DEF L!list_init, ListInv
  <2>2. QED
    BY <2>1 DEF ListInv, Chained
<1>2. CASE L!list_destroy
  <2>1. /\ DOMAIN L!Walk = 0..Cardinality(Node)
        /\ \A i \in 0..Cardinality(Node) : L!Walk[i] = At(order, i + 1)
    BY WalkIs
  <2>2. Cardinality(Node) \in Nat /\ Len(order) \in Nat /\ Len(order) <= Cardinality(Node)
    BY ListBounded
  <2>3. DOMAIN list_node \ {L!Walk[i] : i \in DOMAIN L!Walk} = {}
    <3>1. SUFFICES ASSUME NEW y \in DOMAIN list_node
                   PROVE  \E i \in DOMAIN L!Walk : L!Walk[i] = y
      OBVIOUS
    <3>2. PICK j \in 1..Len(order) : order[j] = y
      BY PlaceIs
    <3>3. j - 1 \in 0..Cardinality(Node) /\ (j - 1) + 1 = j
      BY <2>2
    <3>4. At(order, j) = y
      BY <3>2 DEF At
    <3>5. QED
      BY <2>1, <3>3, <3>4
  <2>4. /\ list_node' = [y \in {} |-> list_node[y]] /\ order' = <<>>
        /\ list_head' = Null /\ tail' = Null /\ list_n' = 0 /\ n_max' = 0
    <3> DEFINE left == DOMAIN list_node \ {L!Walk[i] : i \in DOMAIN L!Walk}
    <3>1. /\ list_node' = L!Restrict(list_node, left) /\ order' = <<>>
          /\ list_head' = Null /\ tail' = Null /\ list_n' = 0 /\ n_max' = 0
      BY <1>2, Zenon DEF L!list_destroy
    <3>2. left = {}
      BY <2>3
    <3> HIDE DEF left
    <3>3. L!Restrict(list_node, {}) = [y \in {} |-> list_node[y]]
      BY ListNames
    <3>4. QED
      BY <3>1, <3>2, <3>3, Zenon
  <2>5. order' \in Seq(Node) /\ Len(order') = 0 /\ ToSet(order') = {} /\ IsInjective(order')
    BY <2>4, ElementsOfEmpty
  <2>6. list_node' \in [{} -> ListNode]
    BY <2>4
  <2>7. Chained(order', list_head', tail', list_node')
    BY <2>4, <2>5, <2>6 DEF Chained, At
  <2>8. QED
    BY <2>4, <2>5, <2>7 DEF ListInv, Chained
<1>3. QED
  BY <1>1, <1>2

LEMMA ListStep ==
  ASSUME L!ConstantsOK, ListInv, [L!Next]_listVars
  PROVE  ListInv'
<1>1. CASE UNCHANGED listVars
  BY <1>1 DEF listVars, ListInv, Chained
<1>2. CASE L!list_init \/ L!list_destroy
  BY <1>2, ListRenewed
<1>3. CASE \E x \in Node : L!list_remove_node(x)
  BY <1>3, NodeOrDataRemoved
<1>4. CASE \E d \in Data : L!list_remove_data(d)
  BY <1>4, NodeOrDataRemoved
<1>5. ASSUME NEW x \in Node, NEW d \in Data,
             \/ L!list_prepend_data(x, d) \/ L!list_append_data(x, d)
             \/ \E y \in Node : \/ L!list_insert_data_after_node(y, x, d)
                                \/ L!list_insert_data_before_node(y, x, d)
      PROVE  ListInv'
  <2>1. CASE L!list_prepend_data(x, d) \/ L!list_append_data(x, d)
    BY <2>1, DataAdded
  <2>2. ASSUME NEW y \in Node, L!list_insert_data_after_node(y, x, d)
        PROVE  ListInv'
    BY <2>2, InsertedAfter
  <2>3. ASSUME NEW y \in Node, L!list_insert_data_before_node(y, x, d)
        PROVE  ListInv'
    BY <2>3, InsertedBefore
  <2>4. QED
    BY <1>5, <2>1, <2>2, <2>3, Zenon
<1>6. QED
  BY <1>1, <1>2, <1>3, <1>4, <1>5, Zenon DEF L!Next

LEMMA ListBegins ==
  ASSUME L!ConstantsOK, L!Init
  PROVE  ListInv
<1>1. /\ order = <<>> /\ list_n = 0 /\ n_max \in Nat /\ list_alive
      /\ list_head = Null /\ tail = Null /\ list_node = <<>>
  BY DEF L!Init, L!ConstantsOK
<1>2. order \in Seq(Node) /\ Len(order) = 0 /\ ToSet(order) = {} /\ IsInjective(order)
  BY <1>1, ElementsOfEmpty
<1>3. list_node \in [{} -> ListNode]
  BY <1>1
<1>4. Chained(order, list_head, tail, list_node)
  BY <1>1, <1>2, <1>3 DEF Chained, At
<1>5. QED
  BY <1>1, <1>2, <1>4 DEF ListInv

LEMMA ListAsAsked ==
  ASSUME ListInv
  PROVE  L!Exact
<1>1. order \in Seq(Node) /\ Len(order) \in Nat /\ list_n = Len(order)
      /\ (n_max > 0 => list_n <= n_max) /\ DOMAIN order = 1..Len(order)
      /\ Chained(order, list_head, tail, list_node)
  BY DEF ListInv
<1>2. \A i : L!Place(i) = At(order, i)
  BY <1>1 DEF L!Place, At
<1>3. DOMAIN list_node = L!ToSet(order)
  BY <1>1, ListNames DEF Chained
<1>4. QED
  BY <1>1, <1>2, <1>3 DEF L!Exact, Chained

-----------------------------------------------------------------------------
(***************************************************************************)
(* The ordered list.  Its links are those of the sequence c of its nodes,  *)
(* whose data are the promised ones and, in the last, none: the marker.    *)
(***************************************************************************)
OrderedNode == [next : Node \cup {Null}, user_data : OrderedData \cup {Null}]

Threaded(c, s, h, nodes) ==
  /\ h = At(c, 1)
  /\ nodes \in [ToSet(c) -> OrderedNode]
  /\ \A i \in 1..Len(c) :
       nodes[c[i]] = [next |-> At(c, i + 1), user_data |-> At(s, i)]

Ascending(s) == \A i, j \in 1..Len(s) : i < j => s[i][1] <= s[j][1]

OrderedAs(c) ==
  /\ sorted \in Seq(OrderedData)
  /\ ordered_head = Null => sorted = <<>>
  /\ c \in Seq(Node) /\ IsInjective(c)
  /\ Len(c) = IF ordered_head = Null THEN 0 ELSE Len(sorted) + 1
  /\ Threaded(c, sorted, ordered_head, ordered_node)

OrderedInv ==
  /\ ordered_n = Len(sorted)
  /\ ~unordered => Ascending(sorted)
  /\ \E c \in Seq(Node) : OrderedAs(c)

\* Node x with datum d put in at place k, before the marker or further up.
ThreadedMore(c, s, h, nodes, k, x, d, h2, more) ==
  /\ k \in 1..(Len(s) + 1) /\ x \in Node \ ToSet(c) /\ d \in OrderedData
  /\ h2 = IF k = 1 THEN x ELSE h
  /\ more \in [ToSet(c) \cup {x} -> OrderedNode]
  /\ more[x] = [next |-> c[k], user_data |-> d]
  /\ \A y \in ToSet(c) :
       /\ more[y].user_data = nodes[y].user_data
       /\ more[y].next = IF y = At(c, k - 1) THEN x ELSE nodes[y].next

LEMMA ThreadGrows ==
  ASSUME Null \notin Node, NEW c \in Seq(Node), IsInjective(c),
         NEW s \in Seq(OrderedData), Len(c) = Len(s) + 1,
         NEW h, NEW nodes, Threaded(c, s, h, nodes),
         NEW k, NEW x, NEW d, NEW h2, NEW more,
         ThreadedMore(c, s, h, nodes, k, x, d, h2, more)
  PROVE  /\ InsertAt(c, k, x) \in Seq(Node) /\ IsInjective(InsertAt(c, k, x))
         /\ Len(InsertAt(c, k, x)) = Len(c) + 1
         /\ InsertAt(s, k, d) \in Seq(OrderedData)
         /\ Len(InsertAt(s, k, d)) = Len(s) + 1
         /\ Threaded(InsertAt(c, k, x), InsertAt(s, k, d), h2, more)
<1> DEFINE m == Len(s)
           q == InsertAt(c, k, x)
           r == InsertAt(s, k, d)
<1>1. /\ m \in Nat /\ Len(c) = m + 1 /\ k \in 1..(m + 1) /\ k \in 1..Len(c) /\ k \in Int
      /\ k \in 1..(Len(c) + 1) /\ k \in 1..(Len(s) + 1)
      /\ x \in Node /\ x \notin ToSet(c) /\ d \in OrderedData
      /\ h2 = IF k = 1 THEN x ELSE h
      /\ more \in [ToSet(c) \cup {x} -> OrderedNode]
      /\ more[x] = [next |-> c[k], user_data |-> d]
      /\ \A y \in ToSet(c) :
           /\ more[y].user_data = nodes[y].user_data
           /\ more[y].next = IF y = At(c, k - 1) THEN x ELSE nodes[y].next
  BY DEF ThreadedMore
<1>2. /\ h = At(c, 1)
      /\ \A i \in 1..Len(c) : nodes[c[i]] = [next |-> At(c, i + 1), user_data |-> At(s, i)]
  BY DEF Threaded
<1>3. /\ InsertAt(c, k, x) \in Seq(Node) /\ Len(InsertAt(c, k, x)) = Len(c) + 1
      /\ ToSet(InsertAt(c, k, x)) = ToSet(c) \cup {x}
      /\ InsertAt(s, k, d) \in Seq(OrderedData) /\ Len(InsertAt(s, k, d)) = Len(s) + 1
  <2>1. k \in 1..(Len(c) + 1) /\ k \in 1..(Len(s) + 1) /\ x \in Node /\ d \in OrderedData
    BY <1>1, Zenon
  <2>2. /\ InsertAt(c, k, x) \in Seq(Node) /\ Len(InsertAt(c, k, x)) = Len(c) + 1
        /\ ToSet(InsertAt(c, k, x)) = ToSet(c) \cup {x}
    BY <2>1, Inserted
  <2>3. InsertAt(s, k, d) \in Seq(OrderedData) /\ Len(InsertAt(s, k, d)) = Len(s) + 1
    BY <2>1, Inserted
  <2>4. QED
    BY <2>2, <2>3
<1>4. IsInjective(InsertAt(c, k, x))
  BY <1>1, InsertedOnce
<1>5. \A j \in Int : /\ At(q, j) = IF j < k THEN At(c, j) ELSE IF j = k THEN x ELSE At(c, j - 1)
                     /\ At(r, j) = IF j < k THEN At(s, j) ELSE IF j = k THEN d ELSE At(s, j - 1)
  BY <1>1, AtInserted
<1>6. \A j \in 1..Len(c), i \in Int : At(c, i) = c[j] <=> i = j
  BY OnePlace
<1>7. \A i \in 1..Len(c) : c[i] \in ToSet(c) /\ At(c, i) = c[i]
  BY DEF ToSet, At
<1>8. \A i \in 1..Len(q) : q[i] = At(q, i)
  BY DEF At
<1>9. q \in Seq(Node) /\ Len(q) = m + 2 /\ ToSet(q) = ToSet(c) \cup {x}
  BY <1>1, <1>3
<1> HIDE DEF q, r, m
<1>10. ASSUME NEW i \in 1..Len(q)
       PROVE  more[q[i]] = [next |-> At(q, i + 1), user_data |-> At(r, i)]
  <2>1. i \in Int /\ i + 1 \in Int /\ 1 <= i /\ i <= m + 2 /\ (i + 1) - 1 = i
    BY <1>1, <1>9
  <2>2. CASE i = k
    <3>1. q[i] = x /\ At(r, i) = d
      BY <1>5, <1>8, <2>1, <2>2
    <3>2. At(q, i + 1) = At(c, k)
      BY <1>5, <2>1, <2>2
    <3>3. At(c, k) = c[k]
      BY <1>1, <1>7
    <3>4. QED
      BY <1>1, <3>1, <3>2, <3>3
  <2>3. ASSUME NEW j \in 1..Len(c), q[i] = c[j], At(r, i) = At(s, j),
               At(q, i + 1) = IF j = k - 1 THEN x ELSE At(c, j + 1)
        PROVE  more[q[i]] = [next |-> At(q, i + 1), user_data |-> At(r, i)]
    <3>1. c[j] \in ToSet(c) /\ k - 1 \in Int
      BY <1>1, <1>7
    <3>2. c[j] = At(c, k - 1) <=> j = k - 1
      BY <1>6, <3>1
    <3>3. nodes[c[j]].next = At(c, j + 1) /\ nodes[c[j]].user_data = At(s, j)
      <4>1. nodes[c[j]] = [next |-> At(c, j + 1), user_data |-> At(s, j)]
        BY <1>2, Zenon
      <4>2. QED
        BY <4>1
    <3>4. /\ more[c[j]].user_data = At(s, j)
          /\ more[c[j]].next = IF j = k - 1 THEN x ELSE At(c, j + 1)
      BY <1>1, <3>1, <3>2, <3>3
    <3>5. more[c[j]] \in OrderedNode
      BY <1>1, <3>1
    <3>6. more[c[j]] = [next |-> more[c[j]].next, user_data |-> more[c[j]].user_data]
      BY <3>5 DEF OrderedNode
    <3>7. QED
      BY <2>3, <3>4, <3>6
  <2>4. CASE i < k
    <3>1. i \in 1..Len(c)
      BY <1>1, <2>1, <2>4
    <3>2. q[i] = c[i] /\ At(r, i) = At(s, i)
      BY <1>5, <1>7, <1>8, <2>1, <2>4, <3>1
    <3>3. At(q, i + 1) = IF i = k - 1 THEN x ELSE At(c, i + 1)
      BY <1>1, <1>5, <2>1, <2>4
    <3>4. QED
      BY <2>3, <3>1, <3>2, <3>3
  <2>5. CASE i > k
    <3>1. i - 1 \in 1..Len(c) /\ i - 1 \in Int /\ (i - 1) + 1 = i /\ i - 1 # k - 1
      BY <1>1, <2>1, <2>5
    <3>2. q[i] = c[i - 1] /\ At(r, i) = At(s, i - 1)
      BY <1>1, <1>5, <1>7, <1>8, <2>1, <2>5, <3>1
    <3>3. At(q, i + 1) = At(c, (i - 1) + 1)
      <4>1. ~(i + 1 < k) /\ i + 1 # k
        BY <1>1, <2>1, <2>5
      <4>2. At(q, i + 1) = IF i + 1 < k THEN At(c, i + 1)
                           ELSE IF i + 1 = k THEN x ELSE At(c, (i + 1) - 1)
        BY <1>5, <2>1, Zenon
      <4>3. QED
        BY <2>1, <3>1, <4>1, <4>2
    <3>4. QED
      BY <2>3, <3>1, <3>2, <3>3
  <2>6. QED
    BY <1>1, <2>1, <2>2, <2>4, <2>5
<1>11. h2 = At(q, 1)
  BY <1>1, <1>2, <1>5
<1>12. more \in [ToSet(q) -> OrderedNode]
  BY <1>1, <1>9
<1>13. Threaded(q, r, h2, more)
  BY <1>10, <1>11, <1>12 DEF Threaded
<1>14. QED
  BY <1>3, <1>4, <1>13 DEF q, r

\* The node at place k overwritten with the next one, which goes.
ThreadedLess(c, s, nodes, k, fewer) ==
  /\ k \in 1..Len(s)
  /\ fewer \in [ToSet(c) \ {c[k + 1]} -> OrderedNode]
  /\ fewer[c[k]] = nodes[c[k + 1]]
  /\ \A y \in ToSet(c) \ {c[k], c[k + 1]} : fewer[y] = nodes[y]

LEMMA ThreadShrinks ==
  ASSUME Null \notin Node, NEW c \in Seq(Node), IsInjective(c),
         NEW s \in Seq(OrderedData), Len(c) = Len(s) + 1,
         NEW h, NEW nodes, Threaded(c, s, h, nodes),
         NEW k, NEW fewer, ThreadedLess(c, s, nodes, k, fewer)
  PROVE  /\ RemoveAt(c, k + 1) \in Seq(Node) /\ IsInjective(RemoveAt(c, k + 1))
         /\ Len(RemoveAt(c, k + 1)) = Len(c) - 1
         /\ RemoveAt(s, k) \in Seq(OrderedData)
         /\ Len(RemoveAt(s, k)) = Len(s) - 1
         /\ Threaded(RemoveAt(c, k + 1), RemoveAt(s, k), h, fewer)
<1> DEFINE m == Len(s)
           q == RemoveAt(c, k + 1)
           r == RemoveAt(s, k)
<1>1. /\ m \in Nat /\ Len(c) = m + 1 /\ k \in 1..m /\ k \in 1..Len(c) /\ k \in Int
      /\ k + 1 \in 1..Len(c) /\ k \in 1..Len(s)
      /\ fewer \in [ToSet(c) \ {c[k + 1]} -> OrderedNode]
      /\ fewer[c[k]] = nodes[c[k + 1]]
      /\ \A y \in ToSet(c) \ {c[k], c[k + 1]} : fewer[y] = nodes[y]
  BY DEF ThreadedLess
<1>2. /\ h = At(c, 1)
      /\ \A i \in 1..Len(c) : nodes[c[i]] = [next |-> At(c, i + 1), user_data |-> At(s, i)]
  BY DEF Threaded
<1>3. /\ RemoveAt(c, k + 1) \in Seq(Node) /\ Len(RemoveAt(c, k + 1)) = Len(c) - 1
      /\ RemoveAt(s, k) \in Seq(OrderedData) /\ Len(RemoveAt(s, k)) = Len(s) - 1
  BY <1>1, Removed
<1>4. /\ IsInjective(RemoveAt(c, k + 1))
      /\ ToSet(RemoveAt(c, k + 1)) = ToSet(c) \ {c[k + 1]}
  BY <1>1, RemovedOnce
<1>5. \A j \in Int : /\ At(q, j) = IF j < k + 1 THEN At(c, j) ELSE At(c, j + 1)
                     /\ At(r, j) = IF j < k THEN At(s, j) ELSE At(s, j + 1)
  <2>1. ASSUME NEW l \in 1..Len(c), NEW j \in Int
        PROVE  At(RemoveAt(c, l), j) = IF j < l THEN At(c, j) ELSE At(c, j + 1)
    BY AtRemoved
  <2>2. ASSUME NEW j \in Int
        PROVE  At(RemoveAt(s, k), j) = IF j < k THEN At(s, j) ELSE At(s, j + 1)
    BY <1>1, AtRemoved, Zenon
  <2>3. QED
    BY <1>1, <2>1, <2>2, Zenon
<1>6. \A i, j \in 1..Len(c) : c[i] = c[j] => i = j
  BY DEF IsInjective
<1>7. \A i \in 1..Len(c) : c[i] \in ToSet(c) /\ At(c, i) = c[i]
  BY DEF ToSet, At
<1>8. \A i \in 1..Len(q) : q[i] = At(q, i)
  BY DEF At
<1>9. q \in Seq(Node) /\ Len(q) = m /\ ToSet(q) = ToSet(c) \ {c[k + 1]}
  BY <1>1, <1>3, <1>4
<1> HIDE DEF q, r, m
<1>10. ASSUME NEW i \in 1..Len(q)
       PROVE  fewer[q[i]] = [next |-> At(q, i + 1), user_data |-> At(r, i)]
  <2>1. i \in Int /\ i + 1 \in Int /\ 1 <= i /\ i <= m
    BY <1>1, <1>9
  <2>2. /\ At(q, i) = IF i < k + 1 THEN At(c, i) ELSE At(c, i + 1)
        /\ At(q, i + 1) = IF i + 1 < k + 1 THEN At(c, i + 1) ELSE At(c, (i + 1) + 1)
        /\ At(r, i) = IF i < k THEN At(s, i) ELSE At(s, i + 1)
    BY <1>5, <2>1, Zenon
  <2>3. CASE i < k
    <3>1. i \in 1..Len(c) /\ i # k /\ i # k + 1 /\ i < k + 1 /\ i + 1 < k + 1
      BY <1>1, <2>1, <2>3
    <3>2. q[i] = c[i] /\ At(q, i + 1) = At(c, i + 1) /\ At(r, i) = At(s, i)
      BY <1>7, <1>8, <2>2, <2>3, <3>1
    <3>3. c[i] \in ToSet(c) \ {c[k], c[k + 1]}
      BY <1>1, <1>6, <1>7, <3>1
    <3>4. fewer[c[i]] = [next |-> At(c, i + 1), user_data |-> At(s, i)]
      BY <1>1, <1>2, <3>1, <3>3, Zenon
    <3>5. QED
      BY <3>2, <3>4, Zenon
  <2>4. CASE i = k
    <3>1. ~(i < k) /\ ~(i + 1 < k + 1) /\ i < k + 1
      BY <1>1, <2>4
    <3>2. q[i] = c[k] /\ At(q, i + 1) = At(c, (k + 1) + 1) /\ At(r, i) = At(s, k + 1)
      BY <1>1, <1>7, <1>8, <2>2, <2>4, <3>1
    <3>3. fewer[c[k]] = [next |-> At(c, (k + 1) + 1), user_data |-> At(s, k + 1)]
      BY <1>1, <1>2, Zenon
    <3>4. QED
      BY <3>2, <3>3, Zenon
  <2>5. CASE i > k
    <3>1. /\ i + 1 \in 1..Len(c) /\ i + 1 # k /\ i + 1 # k + 1
          /\ ~(i < k) /\ ~(i < k + 1) /\ ~(i + 1 < k + 1)
      BY <1>1, <2>1, <2>5
    <3>2. /\ q[i] = c[i + 1] /\ At(q, i + 1) = At(c, (i + 1) + 1)
          /\ At(r, i) = At(s, i + 1)
      BY <1>7, <1>8, <2>2, <3>1
    <3>3. c[i + 1] \in ToSet(c) \ {c[k], c[k + 1]}
      BY <1>1, <1>6, <1>7, <3>1
    <3>4. fewer[c[i + 1]] = [next |-> At(c, (i + 1) + 1), user_data |-> At(s, i + 1)]
      BY <1>1, <1>2, <3>1, <3>3, Zenon
    <3>5. QED
      BY <3>2, <3>4, Zenon
  <2>6. QED
    BY <1>1, <2>1, <2>3, <2>4, <2>5
<1>11. h = At(q, 1)
  <2>1. 1 < k + 1
    BY <1>1
  <2>2. QED
    BY <1>2, <1>5, <2>1
<1>12. Threaded(q, r, h, fewer)
  BY <1>1, <1>9, <1>10, <1>11 DEF Threaded
<1>13. QED
  BY <1>3, <1>4, <1>12 DEF q, r

\* The keys stay in order when a datum goes, and when one is put in behind
\* all smaller ones.
LEMMA AscendingLess ==
  ASSUME O!ConstantsOK, NEW s \in Seq(OrderedData), Ascending(s), NEW k \in 1..Len(s)
  PROVE  Ascending(RemoveAt(s, k))
<1> DEFINE r == RemoveAt(s, k)
           m == Len(s)
           from(j) == IF j < k THEN j ELSE j + 1
<1>1. /\ RemoveAt(s, k) \in Seq(OrderedData) /\ Len(RemoveAt(s, k)) = Len(s) - 1
      /\ \A i \in 1..(Len(s) - 1) : RemoveAt(s, k)[i] = IF i < k THEN s[i] ELSE s[i + 1]
  BY Removed, Zenon
<1>2. /\ Len(r) = m - 1 /\ m \in Nat /\ k \in 1..m
      /\ \A i \in 1..(m - 1) : r[i] = IF i < k THEN s[i] ELSE s[i + 1]
      /\ \A i, j \in 1..m : i < j => s[i][1] <= s[j][1]
  BY <1>1 DEF Ascending
<1> HIDE DEF r, m
<1>3. /\ \A i \in 1..(m - 1) : from(i) \in 1..m /\ r[i] = s[from(i)]
      /\ \A i, j \in 1..(m - 1) : i < j => from(i) < from(j)
  BY <1>2
<1> HIDE DEF from
<1>4. \A i, j \in 1..(m - 1) : i < j => r[i][1] <= r[j][1]
  <2>1. SUFFICES ASSUME NEW i \in 1..(m - 1), NEW j \in 1..(m - 1), i < j
                 PROVE  r[i][1] <= r[j][1]
    OBVIOUS
  <2>2. /\ from(i) \in 1..m /\ from(j) \in 1..m /\ from(i) < from(j)
        /\ r[i] = s[from(i)] /\ r[j] = s[from(j)]
    BY <1>3, <2>1
  <2>3. s[from(i)][1] <= s[from(j)][1]
    BY <1>2, <2>2
  <2>4. QED
    BY <2>2, <2>3, Zenon
<1>5. Ascending(r)
  BY <1>2, <1>4 DEF Ascending
<1>6. QED
  BY <1>5 DEF r

LEMMA AscendingMore ==
  ASSUME O!ConstantsOK, NEW s \in Seq(OrderedData), Ascending(s), NEW d \in OrderedData,
         NEW k \in 1..(Len(s) + 1), \A i \in 1..Len(s) : i < k <=> s[i][1] < d[1]
  PROVE  Ascending(InsertAt(s, k, d))
<1> DEFINE r == InsertAt(s, k, d)
           m == Len(s)
           from(j) == IF j < k THEN j ELSE j - 1
<1>1. /\ InsertAt(s, k, d) \in Seq(OrderedData) /\ Len(InsertAt(s, k, d)) = Len(s) + 1
      /\ \A i \in 1..(Len(s) + 1) :
           InsertAt(s, k, d)[i] = IF i < k THEN s[i] ELSE IF i = k THEN d ELSE s[i - 1]
  BY Inserted
<1>2. /\ Len(r) = m + 1 /\ m \in Nat /\ k \in 1..(m + 1)
      /\ \A i \in 1..(m + 1) : r[i] = IF i < k THEN s[i] ELSE IF i = k THEN d ELSE s[i - 1]
      /\ \A i, j \in 1..m : i < j => s[i][1] <= s[j][1]
      /\ \A i \in 1..m : i < k <=> s[i][1] < d[1]
  BY <1>1 DEF Ascending
<1>3. d[1] \in Int /\ \A i \in 1..m : s[i][1] \in Int
  BY DEF O!ConstantsOK
<1> HIDE DEF r, m
<1>4. /\ \A i \in 1..(m + 1) : i # k => from(i) \in 1..m /\ r[i] = s[from(i)]
      /\ r[k] = d
      /\ \A i, j \in 1..(m + 1) : i < j /\ i # k /\ j # k => from(i) < from(j)
      /\ \A i \in 1..(m + 1) : i # k => (from(i) < k <=> i < k)
  BY <1>2
<1> HIDE DEF from
<1>5. \A i, j \in 1..(m + 1) : i < j => r[i][1] <= r[j][1]
  <2>1. SUFFICES ASSUME NEW i \in 1..(m + 1), NEW j \in 1..(m + 1), i < j
                 PROVE  r[i][1] <= r[j][1]
    OBVIOUS
  <2>2. CASE i = k
    <3>1. from(j) \in 1..m /\ r[j] = s[from(j)] /\ ~(from(j) < k)
      BY <1>2, <1>4, <2>1, <2>2
    <3>2. ~(s[from(j)][1] < d[1]) /\ s[from(j)][1] \in Int
      BY <1>2, <1>3, <3>1
    <3>3. d[1] <= s[from(j)][1]
      BY <1>3, <3>2
    <3>4. QED
      BY <1>4, <2>2, <3>1, <3>3, Zenon
  <2>3. CASE j = k
    <3>1. from(i) \in 1..m /\ r[i] = s[from(i)] /\ from(i) < k
      BY <1>2, <1>4, <2>1, <2>3
    <3>2. s[from(i)][1] < d[1] /\ s[from(i)][1] \in Int
      BY <1>2, <1>3, <3>1
    <3>3. s[from(i)][1] <= d[1]
      BY <1>3, <3>2
    <3>4. QED
      BY <1>4, <2>3, <3>1, <3>3, Zenon
  <2>4. CASE i # k /\ j # k
    <3>1. /\ from(i) \in 1..m /\ from(j) \in 1..m /\ from(i) < from(j)
          /\ r[i] = s[from(i)] /\ r[j] = s[from(j)]
      BY <1>4, <2>1, <2>4
    <3>2. s[from(i)][1] <= s[from(j)][1]
      BY <1>2, <3>1
    <3>3. QED
      BY <3>1, <3>2, Zenon
  <2>5. QED
    BY <2>2, <2>3, <2>4
<1>6. Ascending(r)
  BY <1>2, <1>5 DEF Ascending
<1>7. QED
  BY <1>6 DEF r

-----------------------------------------------------------------------------
LEMMA OrderedNames ==
  /\ \A o, k, x : O!InsertAt(o, k, x) = InsertAt(o, k, x)
  /\ \A o, k : O!RemoveAt(o, k) = RemoveAt(o, k)
  /\ \A X : O!Min(X) = Min(X)
  /\ \A X : O!Cardinality(X) = Cardinality(X)
  /\ \A f, X : O!Restrict(f, X) = [x \in X |-> f[x]]
BY DEF O!InsertAt, InsertAt, O!RemoveAt, RemoveAt, O!Min, Min,
   O!Cardinality, Cardinality, O!Restrict

\* The walk from the head visits the places, the marker's the last.
LEMMA OrderedWalkIs ==
  ASSUME O!ConstantsOK, NEW c, OrderedAs(c)
  PROVE  /\ Cardinality(Node) \in Nat /\ Len(c) \in Nat /\ Len(c) <= Cardinality(Node)
         /\ DOMAIN O!Walk = 0..Cardinality(Node)
         /\ \A i \in 0..Cardinality(Node) : O!Walk[i] = At(c, i + 1)
<1> DEFINE N == O!Cardinality(Node)
<1>1. /\ c \in Seq(Node) /\ IsInjective(c) /\ ordered_head = At(c, 1) /\ Null \notin Node
      /\ \A i \in 1..Len(c) : ordered_node[c[i]].next = At(c, i + 1)
  <2>1. /\ c \in Seq(Node) /\ IsInjective(c) /\ ordered_head = At(c, 1) /\ Null \notin Node
        /\ \A i \in 1..Len(c) :
             ordered_node[c[i]] = [next |-> At(c, i + 1), user_data |-> At(sorted, i)]
    BY DEF OrderedAs, Threaded, O!ConstantsOK
  <2>2. ASSUME NEW i \in 1..Len(c)
        PROVE  ordered_node[c[i]].next = At(c, i + 1)
    <3>1. ordered_node[c[i]] = [next |-> At(c, i + 1), user_data |-> At(sorted, i)]
      BY <2>1, Zenon
    <3>2. QED
      BY <3>1
  <2>3. QED
    BY <2>1, <2>2
<1>2. IsFiniteSet(Node)
  BY DEF O!ConstantsOK, O!IsFiniteSet, IsFiniteSet
<1>3. N \in Nat /\ Len(c) \in Nat /\ Len(c) <= N /\ N = Cardinality(Node)
  BY <1>1, <1>2, DistinctBounded, FS_CardinalityType, OrderedNames
<1>a. Path(c, ordered_head, ordered_node)
  BY <1>1 DEF Path
<1>4. O!Walk = CHOOSE f : f = Step(f, ordered_head, ordered_node, N)
  BY Zenon DEF O!Walk, Step
<1> HIDE DEF N
<1>5. /\ \E f : f = Step(f, ordered_head, ordered_node, N)
      /\ \A f : f = Step(f, ordered_head, ordered_node, N) =>
               DOMAIN f = 0..N /\ \A i \in 0..N : f[i] = At(c, i + 1)
  BY <1>1, <1>3, <1>a, Followed
<1>6. DOMAIN O!Walk = 0..N /\ \A i \in 0..N : O!Walk[i] = At(c, i + 1)
  BY <1>4, <1>5, Zenon
<1>7. QED
  BY <1>3, <1>6

\* The loops stop at the marker and not before.
LEMMA NotEndIs ==
  ASSUME O!ConstantsOK, NEW c, OrderedAs(c), NEW i \in 0..Cardinality(Node)
  PROVE  /\ O!NotEnd(O!Walk[i]) <=> i < Len(sorted)
         /\ i < Len(sorted) =>
              /\ ordered_head # Null /\ Len(c) = Len(sorted) + 1
              /\ O!Walk[i] = c[i + 1]
              /\ ordered_node[c[i + 1]] = [next |-> c[i + 2], user_data |-> sorted[i + 1]]
<1> DEFINE m == Len(sorted)
<1>1. /\ Cardinality(Node) \in Nat /\ O!Walk[i] = At(c, i + 1)
  BY OrderedWalkIs
<1>2. /\ c \in Seq(Node) /\ sorted \in Seq(OrderedData) /\ m \in Nat
      /\ Len(c) = (IF ordered_head = Null THEN 0 ELSE m + 1)
      /\ ordered_head = Null => m = 0
      /\ Null \notin Node /\ Null \notin OrderedData
      /\ \A j \in 1..Len(c) :
           ordered_node[c[j]] = [next |-> At(c, j + 1), user_data |-> At(sorted, j)]
  BY DEF OrderedAs, Threaded, O!ConstantsOK
<1>3. i \in Nat /\ (i + 1) + 1 = i + 2 /\ i + 1 \in Nat
  BY <1>1
<1>4. CASE i < m
  <2>1. /\ i + 1 \in 1..Len(c) /\ i + 2 \in 1..Len(c) /\ i + 1 \in 1..m
        /\ ordered_head # Null /\ Len(c) = m + 1
    BY <1>2, <1>3, <1>4
  <2>2. /\ At(c, i + 1) = c[i + 1] /\ At(c, i + 2) = c[i + 2]
        /\ At(sorted, i + 1) = sorted[i + 1]
    BY <2>1 DEF At
  <2>3. ordered_node[c[i + 1]] = [next |-> c[i + 2], user_data |-> sorted[i + 1]]
    BY <1>2, <1>3, <2>1, <2>2, Zenon
  <2>4. c[i + 1] \in Node /\ c[i + 2] \in Node /\ sorted[i + 1] \in OrderedData
    BY <1>2, <2>1
  <2>5. O!Walk[i] = c[i + 1]
    BY <1>1, <2>2
  <2>6. /\ ordered_node[O!Walk[i]].next = c[i + 2]
        /\ ordered_node[O!Walk[i]].user_data = sorted[i + 1]
    BY <2>3, <2>5
  <2>7. O!NotEnd(O!Walk[i])
    BY <1>2, <2>4, <2>5, <2>6 DEF O!NotEnd
  <2>8. QED
    BY <1>4, <2>1, <2>3, <2>5, <2>7
<1>5. CASE ~(i < m)
  <2>1. CASE i + 1 \in 1..Len(c)
    <3>1. i = m /\ Len(c) = m + 1 /\ i + 2 \notin 1..Len(c)
      BY <1>2, <1>3, <1>5, <2>1
    <3>2. At(c, i + 1) = c[i + 1] /\ At(c, i + 2) = Null
      BY <2>1, <3>1 DEF At
    <3>3. ordered_node[c[i + 1]] = [next |-> Null, user_data |-> At(sorted, i + 1)]
      BY <1>2, <1>3, <2>1, <3>2, Zenon
    <3>4. ordered_node[O!Walk[i]].next = Null
      BY <1>1, <3>2, <3>3
    <3>5. QED
      BY <1>5, <3>4 DEF O!NotEnd
  <2>2. CASE i + 1 \notin 1..Len(c)
    BY <1>1, <1>5, <2>2 DEF At, O!NotEnd
  <2>3. QED
    BY <2>1, <2>2
<1>6. QED
  BY <1>4, <1>5

\* The loops pass just the nodes with a smaller key, so that they stop where
\* the header puts the datum.
LEMMA PassedIs ==
  ASSUME O!ConstantsOK, NEW c, OrderedAs(c), Ascending(sorted), NEW d \in OrderedData
  PROVE  /\ O!Passed(d) \in 0..Len(sorted)
         /\ O!SortedPlace(d) = O!Passed(d) + 1
         /\ \A i \in 1..Len(sorted) : i < O!Passed(d) + 1 <=> sorted[i][1] < d[1]
<1> DEFINE m == Len(sorted)
           N == Cardinality(Node)
           stops == {i \in DOMAIN O!Walk :
                       O!NotEnd(O!Walk[i]) =>
                         O!Key(ordered_node[O!Walk[i]].user_data) >= O!Key(d)}
           less == {i \in DOMAIN sorted : O!Key(sorted[i]) < O!Key(d)}
<1>1. /\ N \in Nat /\ Len(c) <= N /\ DOMAIN O!Walk = 0..N
  BY OrderedWalkIs
<1>2. /\ sorted \in Seq(OrderedData) /\ m \in Nat /\ DOMAIN sorted = 1..m
      /\ Len(c) = (IF ordered_head = Null THEN 0 ELSE m + 1)
      /\ ordered_head = Null => m = 0
      /\ d[1] \in Int /\ \A i \in 1..m : sorted[i][1] \in Int
  BY DEF OrderedAs, O!ConstantsOK
<1>3. m <= N
  BY <1>1, <1>2
<1>4. \A i \in 0..N : i \in stops <=> (i < m => sorted[i + 1][1] >= d[1])
  <2>1. SUFFICES ASSUME NEW i \in 0..N
                 PROVE  i \in stops <=> (i < m => sorted[i + 1][1] >= d[1])
    OBVIOUS
  <2>2. /\ O!NotEnd(O!Walk[i]) <=> i < m
        /\ i < m => /\ O!Walk[i] = c[i + 1]
                    /\ ordered_node[c[i + 1]] = [next |-> c[i + 2], user_data |-> sorted[i + 1]]
    BY NotEndIs
  <2>3. i < m => ordered_node[O!Walk[i]].user_data = sorted[i + 1]
    BY <2>2
  <2>4. QED
    BY <1>1, <2>2, <2>3 DEF O!Key
<1>5. O!Passed(d) = Min(stops)
  <2>1. O!Passed(d) = O!Min(stops)
    BY Zenon DEF O!Passed
  <2>2. QED
    BY <2>1, OrderedNames
<1>6. O!SortedPlace(d) = 1 + Cardinality(less)
  <2>1. O!SortedPlace(d) = 1 + O!Cardinality(less)
    BY Zenon DEF O!SortedPlace
  <2>2. O!Cardinality(less) = Cardinality(less)
    BY OrderedNames
  <2>3. QED
    BY <2>1, <2>2, Zenon
<1>7. less = {i \in 1..m : sorted[i][1] < d[1]}
  BY <1>2 DEF O!Key
<1>8. stops \subseteq 0..N
  BY <1>1
<1> HIDE DEF stops, less
<1>9. m \in stops
  BY <1>2, <1>3, <1>4
<1>10. stops \subseteq Nat /\ stops # {}
  BY <1>8, <1>9
<1>11. Min(stops) \in stops /\ \A y \in stops : Min(stops) <= y
  BY <1>10, LeastOf, Zenon
<1>c. PICK P : P = stops
  OBVIOUS
<1>12. /\ P \subseteq 0..N /\ m \in P
       /\ \A i \in 0..N : i \in P <=> (i < m => sorted[i + 1][1] >= d[1])
       /\ Min(P) \in P /\ \A y \in P : Min(P) <= y
       /\ O!Passed(d) = Min(P)
  BY <1>4, <1>5, <1>8, <1>9, <1>11, <1>c, Zenon
<1>13. PICK p \in P : p = Min(P) /\ \A y \in P : p <= y
  BY <1>12, Zenon
<1>14. p \in 0..m /\ O!Passed(d) = p
  BY <1>2, <1>12, <1>13
<1>15. ASSUME NEW i \in 1..m
       PROVE  i < p + 1 <=> sorted[i][1] < d[1]
  <2>1. CASE i < p + 1
    <3>1. i - 1 \in 0..N /\ ~(p <= i - 1) /\ (i - 1) + 1 = i
      BY <1>1, <1>2, <1>3, <1>14, <2>1
    <3>2. i - 1 \notin P
      BY <1>13, <3>1
    <3>3. ~(sorted[i][1] >= d[1])
      BY <1>12, <3>1, <3>2
    <3>4. QED
      BY <1>2, <2>1, <3>3
  <2>2. CASE ~(i < p + 1)
    <3>1. p < m /\ p + 1 \in 1..m /\ p + 1 <= i /\ p \in 0..N
      BY <1>1, <1>2, <1>3, <1>14, <2>2
    <3>2. sorted[p + 1][1] >= d[1]
      BY <1>12, <3>1
    <3>3. sorted[p + 1][1] <= sorted[i][1]
      <4>1. CASE p + 1 = i
        BY <1>2, <4>1
      <4>2. CASE p + 1 < i
        BY <3>1, <4>2 DEF Ascending
      <4>3. QED
        BY <1>2, <3>1, <4>1, <4>2
    <3>4. sorted[i][1] \in Int /\ sorted[p + 1][1] \in Int
      BY <1>2, <3>1
    <3>5. QED
      BY <1>2, <2>2, <3>2, <3>3, <3>4
  <2>3. QED
    BY <2>1, <2>2
<1>16. less = 1..p
  BY <1>2, <1>7, <1>14, <1>15
<1>17. Cardinality(1..p) = p
  <2>1. p \in Int /\ p >= 0
    BY <1>2, <1>14
  <2>2. Cardinality(1..p) = IF 1 > p THEN 0 ELSE p - 1 + 1
    BY <2>1, FS_Interval
  <2>3. QED
    BY <2>1, <2>2
<1>18. O!SortedPlace(d) = p + 1
  BY <1>2, <1>6, <1>14, <1>16, <1>17
<1>19. QED
  BY <1>14, <1>15, <1>18

\* A node put in with its datum where the list is to have that.
LEMMA OrderedGrows ==
  ASSUME O!ConstantsOK, OrderedInv, NEW c, OrderedAs(c), ordered_head # Null,
         NEW k, NEW x, NEW d,
         ThreadedMore(c, sorted, ordered_head, ordered_node, k, x, d,
                      ordered_head', ordered_node'),
         ordered_n' = ordered_n + 1, sorted' = InsertAt(sorted, k, d),
         ~unordered' => Ascending(sorted')
  PROVE  OrderedInv'
<1> DEFINE q == InsertAt(c, k, x)
<1>1. /\ c \in Seq(Node) /\ IsInjective(c) /\ sorted \in Seq(OrderedData)
      /\ Len(sorted) \in Nat /\ Len(c) = Len(sorted) + 1 /\ Null \notin Node
      /\ Threaded(c, sorted, ordered_head, ordered_node)
      /\ ordered_n = Len(sorted)
  BY DEF OrderedInv, OrderedAs, O!ConstantsOK
<1>2. /\ InsertAt(c, k, x) \in Seq(Node) /\ IsInjective(InsertAt(c, k, x))
      /\ Len(InsertAt(c, k, x)) = Len(c) + 1
      /\ InsertAt(sorted, k, d) \in Seq(OrderedData)
      /\ Len(InsertAt(sorted, k, d)) = Len(sorted) + 1
      /\ Threaded(InsertAt(c, k, x), InsertAt(sorted, k, d), ordered_head', ordered_node')
  BY <1>1, ThreadGrows
<1>3. ordered_head' # Null
  BY <1>1 DEF ThreadedMore
<1>4. /\ q \in Seq(Node) /\ IsInjective(q) /\ Len(q) = Len(sorted') + 1
      /\ sorted' \in Seq(OrderedData) /\ Len(sorted') = Len(sorted) + 1
      /\ Threaded(q, sorted', ordered_head', ordered_node')
  BY <1>1, <1>2
<1> HIDE DEF q
<1>5. OrderedAs(q)'
  BY <1>3, <1>4 DEF OrderedAs, Threaded
<1>6. ordered_n' = Len(sorted')
  BY <1>1, <1>4
<1>7. QED
  BY <1>4, <1>5, <1>6 DEF OrderedInv, Ascending

\* The nodes with a new link.
LEMMA OrderedNextSet ==
  ASSUME NEW D, NEW f \in [D -> OrderedNode], NEW a \in D, NEW p \in Node
  PROVE  /\ [f EXCEPT ![a].next = p] \in [D -> OrderedNode]
         /\ \A y \in D :
              /\ [f EXCEPT ![a].next = p][y].next = IF y = a THEN p ELSE f[y].next
              /\ [f EXCEPT ![a].next = p][y].user_data = f[y].user_data
              /\ y # a => [f EXCEPT ![a].next = p][y] = f[y]
BY DEF OrderedNode

\* ordered_list_add links the new node in behind the nodes it passed.
LEMMA NodeThreaded ==
  ASSUME O!ConstantsOK, NEW c, OrderedAs(c), ordered_head # Null, Ascending(sorted),
         NEW x \in Node, x \notin DOMAIN ordered_node, NEW d \in OrderedData,
         NEW p \in 0..Len(sorted), p = O!Passed(d), O!Link(x, d)
  PROVE  ThreadedMore(c, sorted, ordered_head, ordered_node, p + 1, x, d,
                      ordered_head', ordered_node')
<1> DEFINE m == Len(sorted)
           D == ToSet(c)
<1>1. /\ c \in Seq(Node) /\ m \in Nat /\ Len(c) = m + 1 /\ Null \notin Node
      /\ IsInjective(c) /\ ordered_head = At(c, 1)
      /\ ordered_node \in [D -> OrderedNode] /\ p \in 0..m
  BY DEF OrderedAs, Threaded, O!ConstantsOK
<1>2. \A i \in 1..Len(c) : c[i] \in D /\ c[i] \in Node /\ At(c, i) = c[i]
  BY <1>1 DEF ToSet, At
<1>3. p + 1 \in 1..(m + 1) /\ p + 1 \in 1..Len(c) /\ x \in Node \ D /\ (p + 1) - 1 = p
  BY <1>1
<1>4. CASE p > 0
  <2> DEFINE a == c[p]
             fields == [next |-> c[p + 1], user_data |-> d]
             f == O!NewNode(x, fields)
  <2>1. /\ ordered_node' = [O!NewNode(x, [next |-> ordered_node[O!Walk[p - 1]].next,
                                          user_data |-> d])
                              EXCEPT ![O!Walk[p - 1]].next = x]
        /\ ordered_head' = ordered_head
    BY <1>4, Zenon DEF O!Link
  <2>2. /\ p \in 1..Len(c) /\ p - 1 \in 0..Cardinality(Node) /\ p - 1 < m
        /\ (p - 1) + 1 = p /\ (p - 1) + 2 = p + 1 /\ p + 1 # 1
    <3>1. Cardinality(Node) \in Nat /\ Len(c) <= Cardinality(Node)
      BY OrderedWalkIs
    <3>2. QED
      BY <1>1, <1>4, <3>1
  <2>3. /\ O!Walk[p - 1] = c[(p - 1) + 1]
        /\ ordered_node[c[(p - 1) + 1]] =
             [next |-> c[(p - 1) + 2], user_data |-> sorted[(p - 1) + 1]]
    BY <2>2, NotEndIs, Zenon
  <2>4. /\ O!Walk[p - 1] = a
        /\ ordered_node[a] = [next |-> c[p + 1], user_data |-> sorted[p]]
    BY <2>2, <2>3, Zenon
  <2>5. ordered_node[a].next = c[p + 1]
    BY <2>4
  <2>6. ordered_node' = [f EXCEPT ![a].next = x]
    BY <2>1, <2>4, <2>5, Zenon
  <2>7. a \in D /\ a # x /\ c[p + 1] \in Node /\ At(c, p) = a
    BY <1>2, <1>3, <2>2
  <2>b. fields \in OrderedNode /\ fields = [next |-> c[p + 1], user_data |-> d]
    BY <2>7 DEF OrderedNode
  <2>8. /\ f \in [D \cup {x} -> OrderedNode]
        /\ f[x] = [next |-> c[p + 1], user_data |-> d]
        /\ \A y \in D : f[y] = ordered_node[y]
    <3>1. x \notin D
      BY <1>3
    <3> HIDE DEF D, fields
    <3>2. QED
      BY <1>1, <2>b, <3>1 DEF O!NewNode
  <2> HIDE DEF f, a, D, m
  <2>9. /\ [f EXCEPT ![a].next = x] \in [D \cup {x} -> OrderedNode]
        /\ \A y \in D \cup {x} :
             /\ [f EXCEPT ![a].next = x][y].next = IF y = a THEN x ELSE f[y].next
             /\ [f EXCEPT ![a].next = x][y].user_data = f[y].user_data
             /\ y # a => [f EXCEPT ![a].next = x][y] = f[y]
    <3> DEFINE E == D \cup {x}
    <3>1. f \in [E -> OrderedNode] /\ a \in E
      BY <2>7, <2>8
    <3> HIDE DEF E
    <3>2. /\ [f EXCEPT ![a].next = x] \in [E -> OrderedNode]
          /\ \A y \in E :
               /\ [f EXCEPT ![a].next = x][y].next = IF y = a THEN x ELSE f[y].next
               /\ [f EXCEPT ![a].next = x][y].user_data = f[y].user_data
               /\ y # a => [f EXCEPT ![a].next = x][y] = f[y]
      BY <3>1, OrderedNextSet
    <3>3. QED
      BY <3>2 DEF E
  <2>10. /\ ordered_node' \in [D \cup {x} -> OrderedNode]
         /\ ordered_node'[x] = [next |-> c[p + 1], user_data |-> d]
         /\ \A y \in D :
              /\ ordered_node'[y].next = IF y = a THEN x ELSE ordered_node[y].next
              /\ ordered_node'[y].user_data = ordered_node[y].user_data
    <3> DEFINE g == [f EXCEPT ![a].next = x]
    <3>1. /\ g \in [D \cup {x} -> OrderedNode]
          /\ \A y \in D \cup {x} : /\ g[y].next = IF y = a THEN x ELSE f[y].next
                                   /\ g[y].user_data = f[y].user_data
                                   /\ y # a => g[y] = f[y]
          /\ ordered_node' = g
      BY <2>6, <2>9, Zenon
    <3> HIDE DEF g
    <3>2. QED
      BY <2>7, <2>8, <3>1
  <2>11. /\ At(c, (p + 1) - 1) = a
         /\ ordered_head' = IF p + 1 = 1 THEN x ELSE ordered_head
    BY <1>3, <2>1, <2>2, <2>7
  <2>12. QED
    BY <1>3, <2>10, <2>11, Zenon DEF ThreadedMore, D, m
<1>5. CASE ~(p > 0)
  <2>1. /\ ordered_node' = O!NewNode(x, [next |-> ordered_head, user_data |-> d])
        /\ ordered_head' = x
    BY <1>5, Zenon DEF O!Link
  <2>2. p = 0 /\ 1 \in 1..Len(c) /\ p + 1 = 1
    BY <1>1, <1>5
  <2>3. ordered_head = c[1] /\ c[1] \in Node
    BY <1>1, <1>2, <2>2
  <2> DEFINE fields == [next |-> c[1], user_data |-> d]
  <2>b. fields \in OrderedNode /\ fields = [next |-> c[1], user_data |-> d]
    BY <2>3 DEF OrderedNode
  <2>4. /\ ordered_node' \in [D \cup {x} -> OrderedNode]
        /\ ordered_node'[x] = [next |-> c[1], user_data |-> d]
        /\ \A y \in D : ordered_node'[y] = ordered_node[y]
    <3>1. x \notin D
      BY <1>3
    <3>2. ordered_node' = O!NewNode(x, fields)
      BY <2>1, <2>3, Zenon
    <3> HIDE DEF D, fields
    <3>3. QED
      BY <1>1, <2>b, <3>1, <3>2 DEF O!NewNode
  <2>5. \A y \in D : y # At(c, p)
    BY <1>1, <1>2, <2>2 DEF At, ToSet
  <2>6. QED
    BY <1>3, <2>1, <2>2, <2>4, <2>5 DEF ThreadedMore
<1>6. QED
  BY <1>4, <1>5

\* ordered_list_add, which ordered_list_add_once is where it finds none.
LEMMA OrderedAdded ==
  ASSUME O!ConstantsOK, OrderedInv, NEW x \in Node, NEW d \in OrderedData,
         O!ordered_list_add(x, d)
  PROVE  OrderedInv'
<1>1. PICK c \in Seq(Node) : OrderedAs(c)
  BY DEF OrderedInv
<1>2. /\ ordered_head # Null /\ ~unordered /\ x \notin DOMAIN ordered_node
      /\ O!Link(x, d) /\ ordered_n' = ordered_n + 1
      /\ sorted' = O!InsertAt(sorted, O!SortedPlace(d), d)
  BY Zenon DEF O!ordered_list_add
<1>3. Ascending(sorted) /\ sorted \in Seq(OrderedData) /\ Len(sorted) \in Nat
  BY <1>1, <1>2 DEF OrderedInv, OrderedAs
<1>4. /\ O!Passed(d) \in 0..Len(sorted)
      /\ O!SortedPlace(d) = O!Passed(d) + 1
      /\ \A i \in 1..Len(sorted) : i < O!Passed(d) + 1 <=> sorted[i][1] < d[1]
  BY <1>1, <1>3, PassedIs
<1>5. PICK p \in 0..Len(sorted) : p = O!Passed(d)
  BY <1>4
<1>6. /\ sorted' = InsertAt(sorted, p + 1, d)
      /\ \A i \in 1..Len(sorted) : i < p + 1 <=> sorted[i][1] < d[1]
      /\ p + 1 \in 1..(Len(sorted) + 1)
  BY <1>2, <1>3, <1>4, <1>5, OrderedNames
<1>7. ThreadedMore(c, sorted, ordered_head, ordered_node, p + 1, x, d,
                   ordered_head', ordered_node')
  BY <1>1, <1>2, <1>3, <1>5, NodeThreaded
<1>8. PICK k \in 1..(Len(sorted) + 1) : k = p + 1
  BY <1>6
<1>9. Ascending(InsertAt(sorted, k, d))
  BY <1>3, <1>6, <1>8, AscendingMore
<1>10. /\ sorted' = InsertAt(sorted, k, d) /\ Ascending(sorted')
       /\ ThreadedMore(c, sorted, ordered_head, ordered_node, k, x, d,
                       ordered_head', ordered_node')
  BY <1>6, <1>7, <1>8, <1>9, Zenon
<1>11. QED
  BY <1>1, <1>2, <1>10, OrderedGrows

\* The caller who needs no order adds to the head.
LEMMA OrderedAddedToHead ==
  ASSUME O!ConstantsOK, OrderedInv, NEW x \in Node, NEW d \in OrderedData,
         O!thread_unsafe_ordered_list_add_to_head(x, d)
  PROVE  OrderedInv'
<1> DEFINE fields == [next |-> ordered_head, user_data |-> d]
<1>1. PICK c \in Seq(Node) : OrderedAs(c)
  BY DEF OrderedInv
<1>2. /\ ordered_head # Null /\ unordered /\ x \notin DOMAIN ordered_node
      /\ ordered_node' = O!NewNode(x, fields) /\ ordered_head' = x
      /\ ordered_n' = ordered_n + 1 /\ sorted' = <<d>> \o sorted /\ unordered' = unordered
  BY Zenon DEF O!thread_unsafe_ordered_list_add_to_head
<1>3. /\ sorted \in Seq(OrderedData) /\ Len(sorted) \in Nat /\ Len(c) = Len(sorted) + 1
      /\ ordered_head = At(c, 1) /\ ordered_node \in [ToSet(c) -> OrderedNode]
      /\ Null \notin Node
  BY <1>1, <1>2 DEF OrderedAs, Threaded, O!ConstantsOK
<1>4. sorted' = InsertAt(sorted, 1, d)
  BY <1>2, <1>3, InsertedAtEnds
<1>5. 1 \in 1..Len(c) /\ ordered_head = c[1] /\ c[1] \in Node
  <2>1. 1 \in 1..Len(c)
    BY <1>3
  <2>2. QED
    BY <1>3, <2>1 DEF At
<1>6. fields \in OrderedNode /\ fields = [next |-> c[1], user_data |-> d]
  BY <1>5 DEF OrderedNode
<1>7. /\ ordered_node' \in [ToSet(c) \cup {x} -> OrderedNode]
      /\ ordered_node'[x] = [next |-> c[1], user_data |-> d]
      /\ \A y \in ToSet(c) : ordered_node'[y] = ordered_node[y]
  <2> DEFINE D == ToSet(c)
  <2>1. ordered_node \in [D -> OrderedNode] /\ x \notin D
    BY <1>2, <1>3
  <2> HIDE DEF D, fields
  <2>2. /\ ordered_node' \in [D \cup {x} -> OrderedNode]
        /\ ordered_node'[x] = [next |-> c[1], user_data |-> d]
        /\ \A y \in D : ordered_node'[y] = ordered_node[y]
    BY <1>2, <1>6, <2>1 DEF O!NewNode
  <2>3. QED
    BY <2>2 DEF D
<1>8. \A y \in ToSet(c) : y # At(c, 1 - 1)
  <2>1. At(c, 1 - 1) = Null
    BY DEF At
  <2>2. ToSet(c) \subseteq Node
    BY <1>1, ElementsTyped
  <2>3. QED
    BY <1>3, <2>1, <2>2
<1>9. 1 \in 1..(Len(sorted) + 1) /\ x \notin ToSet(c)
  BY <1>2, <1>3
<1>10. ThreadedMore(c, sorted, ordered_head, ordered_node, 1, x, d,
                    ordered_head', ordered_node')
  BY <1>2, <1>7, <1>8, <1>9 DEF ThreadedMore
<1>11. QED
  BY <1>1, <1>2, <1>4, <1>10, OrderedGrows

\* A node deleted at place k.
LEMMA OrderedShrinks ==
  ASSUME O!ConstantsOK, OrderedInv, NEW i \in 0..Cardinality(Node), O!DeleteAt(i),
         sorted' = RemoveAt(sorted, i + 1)
  PROVE  OrderedInv'
<1>1. PICK c \in Seq(Node) : OrderedAs(c)
  BY DEF OrderedInv
<1>2. /\ O!NotEnd(O!Walk[i]) /\ O!NodeDelete(O!Walk[i])
      /\ ordered_n' = ordered_n - 1
      /\ unordered' = unordered /\ ordered_head' = ordered_head
  BY Zenon DEF O!DeleteAt
<1>3. /\ i < Len(sorted) /\ ordered_head # Null /\ Len(c) = Len(sorted) + 1
      /\ O!Walk[i] = c[i + 1]
      /\ ordered_node[c[i + 1]] = [next |-> c[i + 2], user_data |-> sorted[i + 1]]
  BY <1>1, <1>2, NotEndIs
<1>4. /\ sorted \in Seq(OrderedData) /\ Len(sorted) \in Nat /\ IsInjective(c)
      /\ ordered_node \in [ToSet(c) -> OrderedNode] /\ Null \notin Node
      /\ Threaded(c, sorted, ordered_head, ordered_node)
  BY <1>1, <1>3 DEF OrderedAs, Threaded, O!ConstantsOK
<1>5. PICK k \in 1..Len(sorted) : k = i + 1
  <2>1. Cardinality(Node) \in Nat
    BY <1>1, OrderedWalkIs
  <2>2. QED
    BY <1>3, <1>4, <2>1
<1>6. k + 1 = i + 2 /\ k \in 1..Len(c) /\ k + 1 \in 1..Len(c) /\ k # k + 1
  <2>1. Cardinality(Node) \in Nat
    BY <1>1, OrderedWalkIs
  <2>2. QED
    BY <1>3, <1>4, <1>5, <2>1
<1> DEFINE x == c[k]
           z == c[k + 1]
           D == ToSet(c)
<1>7. /\ x \in D /\ z \in D /\ x # z
  BY <1>1, <1>4, <1>6 DEF ToSet, IsInjective
<1>8. ordered_node' = [y \in D \ {z} |-> [ordered_node EXCEPT ![x] = ordered_node[z]][y]]
  <2>1. ordered_node[x].next = z /\ O!Walk[i] = x
    BY <1>3, <1>5, <1>6
  <2>2. DOMAIN ordered_node = D
    BY <1>4
  <2>3. ordered_node' = O!Restrict([ordered_node EXCEPT ![x] = ordered_node[z]],
                                   DOMAIN ordered_node \ {z})
    BY <1>2, <2>1, Zenon DEF O!NodeDelete
  <2> HIDE DEF D, x, z
  <2>4. QED
    BY <2>2, <2>3, Zenon DEF O!Restrict
<1>9. ThreadedLess(c, sorted, ordered_node, k, ordered_node')
  <2>1. /\ ordered_node' \in [D \ {z} -> OrderedNode]
        /\ ordered_node'[x] = ordered_node[z]
        /\ \A y \in D \ {x, z} : ordered_node'[y] = ordered_node[y]
    <3>1. ordered_node \in [D -> OrderedNode]
      BY <1>4
    <3> HIDE DEF D, x, z
    <3>2. QED
      BY <1>7, <1>8, <3>1
  <2>2. QED
    BY <1>5, <2>1 DEF ThreadedLess
<1> HIDE DEF x, z, D
<1>10. /\ RemoveAt(c, k + 1) \in Seq(Node) /\ IsInjective(RemoveAt(c, k + 1))
       /\ Len(RemoveAt(c, k + 1)) = Len(c) - 1
       /\ RemoveAt(sorted, k) \in Seq(OrderedData)
       /\ Len(RemoveAt(sorted, k)) = Len(sorted) - 1
       /\ Threaded(RemoveAt(c, k + 1), RemoveAt(sorted, k), ordered_head, ordered_node')
  BY <1>1, <1>3, <1>4, <1>9, ThreadShrinks
<1> DEFINE q == RemoveAt(c, k + 1)
<1>11. /\ q \in Seq(Node) /\ IsInjective(q) /\ Len(q) = Len(sorted') + 1
       /\ sorted' \in Seq(OrderedData) /\ Len(sorted') = Len(sorted) - 1
       /\ Threaded(q, sorted', ordered_head', ordered_node')
       /\ sorted' = RemoveAt(sorted, k)
  BY <1>2, <1>3, <1>4, <1>5, <1>10
<1> HIDE DEF q
<1>12. OrderedAs(q)'
  BY <1>2, <1>3, <1>11 DEF OrderedAs, Threaded
<1>13. ~unordered' => Ascending(sorted')
  <2>1. SUFFICES ASSUME ~unordered
                 PROVE  Ascending(RemoveAt(sorted, k))
    BY <1>2, <1>11
  <2>2. Ascending(sorted)
    BY <2>1 DEF OrderedInv
  <2>3. QED
    BY <1>4, <2>2, AscendingLess
<1>14. ordered_n' = Len(sorted')
  BY <1>2, <1>11 DEF OrderedInv
<1>15. \E r \in Seq(Node) : OrderedAs(r)'
  BY <1>11, <1>12, Zenon
<1>16. QED
  BY <1>13, <1>14, <1>15 DEF OrderedInv, Ascending

\* Deletion by node, and of the node that a search for the datum finds.
LEMMA OrderedDeleted ==
  ASSUME O!ConstantsOK, OrderedInv,
         \/ \E i \in 0..ordered_n : O!ordered_list_delete_node(i)
         \/ \E d \in OrderedData : O!ordered_list_delete(d)
  PROVE  OrderedInv'
<1>1. PICK c \in Seq(Node) : OrderedAs(c)
  BY DEF OrderedInv
<1>2. /\ Cardinality(Node) \in Nat /\ Len(sorted) \in Nat /\ ordered_n = Len(sorted)
      /\ Len(sorted) <= Cardinality(Node)
  <2>1. Cardinality(Node) \in Nat /\ Len(c) \in Nat /\ Len(c) <= Cardinality(Node)
    BY <1>1, OrderedWalkIs
  <2>2. /\ Len(c) = (IF ordered_head = Null THEN 0 ELSE Len(sorted) + 1)
        /\ ordered_head = Null => Len(sorted) = 0
        /\ Len(sorted) \in Nat /\ ordered_n = Len(sorted)
    BY <1>1 DEF OrderedInv, OrderedAs
  <2>3. QED
    BY <2>1, <2>2
<1>3. ASSUME NEW i \in 0..ordered_n, O!ordered_list_delete_node(i)
      PROVE  OrderedInv'
  <2>1. i \in 0..Cardinality(Node)
    BY <1>2
  <2>2. O!DeleteAt(i) /\ sorted' = RemoveAt(sorted, i + 1)
    BY <1>3, OrderedNames, Zenon DEF O!ordered_list_delete_node
  <2>3. QED
    BY <2>1, <2>2, OrderedShrinks
<1>4. ASSUME NEW d \in OrderedData, O!ordered_list_delete(d)
      PROVE  OrderedInv'
  <2>1. /\ ~unordered /\ O!DeleteAt(O!Passed(d))
        /\ sorted' = RemoveAt(sorted, O!SortedPlace(d))
    BY <1>4, OrderedNames, Zenon DEF O!ordered_list_delete
  <2>2. Ascending(sorted)
    BY <2>1 DEF OrderedInv
  <2>3. O!Passed(d) \in 0..Len(sorted) /\ O!SortedPlace(d) = O!Passed(d) + 1
    BY <1>1, <2>2, PassedIs
  <2>4. PICK i \in 0..Cardinality(Node) : i = O!Passed(d)
    BY <1>2, <2>3
  <2>5. O!DeleteAt(i) /\ sorted' = RemoveAt(sorted, i + 1)
    BY <2>1, <2>3, <2>4, Zenon
  <2>6. QED
    BY <2>5, OrderedShrinks
<1>5. QED
  BY <1>3, <1>4

\* A new list is the marker.
LEMMA MarkerAlone ==
  ASSUME NEW h \in Node, NEW nodes, nodes = [y \in {h} |-> O!Marker]
  PROVE  /\ <<h>> \in Seq(Node) /\ IsInjective(<<h>>) /\ Len(<<h>>) = 1
         /\ Threaded(<<h>>, <<>>, h, nodes)
<1> DEFINE c == <<h>>
<1>1. /\ c \in Seq(Node) /\ IsInjective(c) /\ Len(c) = 1 /\ c[1] = h
      /\ ToSet(c) = {h} /\ DOMAIN c = {1}
  BY DEF IsInjective, ToSet
<1>2. O!Marker = [next |-> Null, user_data |-> Null] /\ O!Marker \in OrderedNode
  BY DEF O!Marker, OrderedNode
<1>3. At(<<>>, 1) = Null
  BY DEF At
<1> HIDE DEF c
<1>4. At(c, 1) = h /\ At(c, 2) = Null
  BY <1>1 DEF At
<1>5. nodes \in [ToSet(c) -> OrderedNode] /\ nodes[h] = O!Marker
  BY <1>1, <1>2
<1>6. ASSUME NEW i \in 1..Len(c)
      PROVE  nodes[c[i]] = [next |-> At(c, i + 1), user_data |-> At(<<>>, i)]
  <2>1. i = 1 /\ i + 1 = 2
    BY <1>1
  <2>2. QED
    BY <1>1, <1>2, <1>3, <1>4, <1>5, <2>1
<1>7. Threaded(c, <<>>, h, nodes)
  BY <1>4, <1>5, <1>6 DEF Threaded
<1>8. QED
  BY <1>1, <1>7 DEF c

LEMMA OrderedBegins ==
  ASSUME O!ConstantsOK, O!Init
  PROVE  OrderedInv
<1>1. /\ ordered_n = 0 /\ sorted = <<>> /\ ordered_head \in Node
      /\ ordered_node = [y \in {ordered_head} |-> O!Marker]
      /\ Null \notin Node
  BY DEF O!Init, O!ConstantsOK
<1> DEFINE c == <<ordered_head>>
<1>2. c \in Seq(Node) /\ IsInjective(c) /\ Len(c) = 1 /\ Threaded(c, <<>>, ordered_head, ordered_node)
  BY <1>1, MarkerAlone
<1>3. sorted \in Seq(OrderedData) /\ Len(sorted) = 0 /\ ordered_head # Null
  BY <1>1
<1> HIDE DEF c
<1>4. OrderedAs(c)
  BY <1>1, <1>2, <1>3 DEF OrderedAs
<1>5. Ascending(sorted)
  BY <1>3 DEF Ascending
<1>6. QED
  BY <1>1, <1>2, <1>3, <1>4, <1>5 DEF OrderedInv

\* ordered_list_init, and ordered_list_destroy, whose walk passes every node.
LEMMA OrderedRenewed ==
  ASSUME O!ConstantsOK, OrderedInv, O!ordered_list_init \/ O!ordered_list_destroy
  PROVE  OrderedInv'
<1>1. PICK c \in Seq(Node) : OrderedAs(c)
  BY DEF OrderedInv
<1>2. /\ ordered_head = Null => Len(c) = 0 /\ sorted = <<>>
      /\ ordered_node \in [ToSet(c) -> OrderedNode] /\ Null \notin Node
  BY <1>1 DEF OrderedAs, Threaded, O!ConstantsOK
<1>3. CASE O!ordered_list_init
  <2>1. /\ ordered_head = Null /\ ordered_n' = 0 /\ sorted' = <<>> /\ ordered_head' \in Node
        /\ ordered_node' = O!NewNode(ordered_head', O!Marker)
    BY <1>3 DEF O!ordered_list_init
  <2>2. PICK h \in Node : h = ordered_head'
    BY <2>1
  <2>3. DOMAIN ordered_node = {}
    <3>1. c = <<>>
      BY <1>1, <1>2, <2>1, EmptySeq
    <3>2. ToSet(c) = {}
      BY <3>1, ElementsOfEmpty, Zenon
    <3>3. QED
      BY <1>2, <3>2
  <2>4. ordered_node' = [y \in {h} |-> O!Marker]
    <3>1. ordered_node' = O!NewNode(h, O!Marker)
      BY <2>1, <2>2, Zenon
    <3>2. QED
      BY <2>3, <3>1 DEF O!NewNode
  <2>5. /\ <<h>> \in Seq(Node) /\ IsInjective(<<h>>) /\ Len(<<h>>) = 1
        /\ Threaded(<<h>>, <<>>, h, ordered_node')
    BY <2>4, MarkerAlone, Zenon
  <2>6. sorted' \in Seq(OrderedData) /\ Len(sorted') = 0 /\ ordered_head' # Null
    BY <1>2, <2>1
  <2> DEFINE q == <<h>>
  <2>7. /\ q \in Seq(Node) /\ IsInjective(q) /\ Len(q) = Len(sorted') + 1
        /\ Threaded(q, sorted', ordered_head', ordered_node')
    BY <2>1, <2>2, <2>5, <2>6
  <2> HIDE DEF q
  <2>8. OrderedAs(q)'
    BY <2>6, <2>7 DEF OrderedAs, Threaded
  <2>9. \E r \in Seq(Node) : OrderedAs(r)'
    BY <2>7, <2>8, Zenon
  <2>10. Ascending(sorted')
    BY <2>6 DEF Ascending
  <2>11. QED
    BY <2>1, <2>6, <2>9, <2>10 DEF OrderedInv, Ascending
<1>4. CASE O!ordered_list_destroy
  <2> DEFINE left == DOMAIN ordered_node \ {O!Walk[i] : i \in DOMAIN O!Walk}
  <2>1. /\ ordered_node' = O!Restrict(ordered_node, left)
        /\ ordered_head' = Null /\ ordered_n' = 0 /\ sorted' = <<>>
    BY <1>4, Zenon DEF O!ordered_list_destroy
  <2>2. left = {}
    <3>1. SUFFICES ASSUME NEW y \in DOMAIN ordered_node
                   PROVE  \E i \in DOMAIN O!Walk : O!Walk[i] = y
      OBVIOUS
    <3>2. /\ Cardinality(Node) \in Nat /\ Len(c) \in Nat /\ Len(c) <= Cardinality(Node)
          /\ DOMAIN O!Walk = 0..Cardinality(Node)
          /\ \A i \in 0..Cardinality(Node) : O!Walk[i] = At(c, i + 1)
      BY <1>1, OrderedWalkIs
    <3>3. PICK j \in 1..Len(c) : c[j] = y
      BY <1>2 DEF ToSet
    <3>4. j - 1 \in 0..Cardinality(Node) /\ (j - 1) + 1 = j
      BY <3>2
    <3>5. At(c, j) = y
      BY <3>3 DEF At
    <3>6. QED
      BY <3>2, <3>4, <3>5
  <2> HIDE DEF left
  <2>3. ordered_node' = [y \in {} |-> ordered_node[y]]
    BY <2>1, <2>2, OrderedNames, Zenon
  <2>4. ordered_node' \in [{} -> OrderedNode]
    BY <2>3
  <2> DEFINE q == <<>>
  <2>5. q \in Seq(Node) /\ Len(q) = 0 /\ ToSet(q) = {} /\ IsInjective(q)
    BY ElementsOfEmpty
  <2>6. sorted' \in Seq(OrderedData) /\ Len(sorted') = 0
    BY <2>1
  <2> HIDE DEF q
  <2>7. Threaded(q, sorted', ordered_head', ordered_node')
    BY <2>1, <2>4, <2>5 DEF Threaded, At
  <2>8. OrderedAs(q)'
    BY <2>1, <2>5, <2>6, <2>7 DEF OrderedAs, Threaded
  <2>9. \E r \in Seq(Node) : OrderedAs(r)'
    BY <2>5, <2>8, Zenon
  <2>10. Ascending(sorted')
    BY <2>6 DEF Ascending
  <2>11. QED
    BY <2>1, <2>6, <2>9, <2>10 DEF OrderedInv, Ascending
<1>5. QED
  BY <1>3, <1>4

LEMMA OrderedStep ==
  ASSUME O!ConstantsOK, OrderedInv, [O!Next]_orderedVars
  PROVE  OrderedInv'
<1>1. CASE UNCHANGED orderedVars
  BY <1>1 DEF orderedVars, OrderedInv, OrderedAs, Threaded, Ascending
<1>2. CASE O!ordered_list_init \/ O!ordered_list_destroy
  BY <1>2, OrderedRenewed
<1>3. CASE \/ \E i \in 0..ordered_n : O!ordered_list_delete_node(i)
           \/ \E d \in OrderedData : O!ordered_list_delete(d)
  BY <1>3, OrderedDeleted
<1>4. ASSUME NEW x \in Node, NEW d \in OrderedData,
             \/ O!ordered_list_add(x, d) \/ O!ordered_list_add_once(x, d)
             \/ O!thread_unsafe_ordered_list_add_to_head(x, d)
      PROVE  OrderedInv'
  <2>1. O!ordered_list_add_once(x, d) => O!ordered_list_add(x, d)
    BY Zenon DEF O!ordered_list_add_once
  <2>2. QED
    BY <1>4, <2>1, OrderedAdded, OrderedAddedToHead
<1>5. QED
  BY <1>1, <1>2, <1>3, <1>4, Zenon DEF O!Next

LEMMA OrderedAsAsked ==
  ASSUME O!ConstantsOK, OrderedInv
  PROVE  O!Exact
<1>1. PICK c \in Seq(Node) : OrderedAs(c)
  BY DEF OrderedInv
<1> DEFINE m == Len(sorted)
           N == Cardinality(Node)
<1>2. /\ sorted \in Seq(OrderedData) /\ m \in Nat /\ DOMAIN sorted = 1..m
      /\ ordered_n = m
      /\ ordered_head = Null => m = 0
      /\ Len(c) = (IF ordered_head = Null THEN 0 ELSE m + 1)
      /\ ordered_node \in [ToSet(c) -> OrderedNode] /\ Null \notin Node
      /\ \A i \in 1..Len(c) :
           ordered_node[c[i]] = [next |-> At(c, i + 1), user_data |-> At(sorted, i)]
  BY <1>1 DEF OrderedInv, OrderedAs, Threaded, O!ConstantsOK
<1>3. /\ N \in Nat /\ Len(c) \in Nat /\ Len(c) <= N
      /\ DOMAIN O!Walk = 0..N
      /\ \A i \in 0..N : O!Walk[i] = At(c, i + 1)
  BY <1>1, OrderedWalkIs
<1>4. ~unordered =>
        \A i, j \in DOMAIN sorted : i < j => O!Key(sorted[i]) <= O!Key(sorted[j])
  BY <1>2 DEF OrderedInv, Ascending, O!Key
<1>5. ASSUME ordered_head # Null
      PROVE  /\ \A i \in DOMAIN sorted : ordered_node[O!Walk[i - 1]].user_data = sorted[i]
             /\ ordered_node[O!Walk[ordered_n]] = O!Marker
  <2>1. ASSUME NEW i \in DOMAIN sorted
        PROVE  ordered_node[O!Walk[i - 1]].user_data = sorted[i]
    <3>1. i - 1 \in 0..N /\ (i - 1) + 1 = i /\ i \in 1..Len(c) /\ i \in 1..m
      BY <1>2, <1>3, <1>5
    <3>2. O!Walk[i - 1] = c[i] /\ At(sorted, i) = sorted[i]
      BY <1>3, <3>1 DEF At
    <3>3. ordered_node[c[i]] = [next |-> At(c, i + 1), user_data |-> sorted[i]]
      BY <1>2, <3>1, <3>2, Zenon
    <3>4. QED
      BY <3>2, <3>3
  <2>2. ordered_node[O!Walk[ordered_n]] = O!Marker
    <3>1. /\ m \in 0..N /\ m + 1 \in 1..Len(c) /\ m + 1 \notin 1..m
          /\ (m + 1) + 1 \notin 1..Len(c)
      BY <1>2, <1>3, <1>5
    <3>2. O!Walk[m] = c[m + 1] /\ At(c, (m + 1) + 1) = Null /\ At(sorted, m + 1) = Null
      BY <1>3, <3>1 DEF At
    <3>3. ordered_node[c[m + 1]] = [next |-> Null, user_data |-> Null]
      BY <1>2, <3>1, <3>2, Zenon
    <3>4. QED
      BY <1>2, <3>2, <3>3 DEF O!Marker
  <2>3. QED
    BY <2>1, <2>2
<1>6. DOMAIN ordered_node = {O!Walk[i] : i \in DOMAIN O!Walk} \ {Null}
  <2>1. ASSUME NEW y \in DOMAIN ordered_node
        PROVE  y # Null /\ \E i \in DOMAIN O!Walk : O!Walk[i] = y
    <3>1. PICK j \in 1..Len(c) : c[j] = y
      BY <1>2 DEF ToSet
    <3>2. j - 1 \in 0..N /\ (j - 1) + 1 = j
      BY <1>3
    <3>3. At(c, j) = y /\ y \in Node
      BY <1>1, <3>1 DEF At
    <3>4. j - 1 \in DOMAIN O!Walk /\ O!Walk[j - 1] = y
      BY <1>3, <3>2, <3>3, Zenon
    <3>5. QED
      BY <1>2, <3>3, <3>4, Zenon
  <2>2. ASSUME NEW i \in DOMAIN O!Walk, O!Walk[i] # Null
        PROVE  O!Walk[i] \in DOMAIN ordered_node
    <3>1. O!Walk[i] = At(c, i + 1)
      BY <1>3
    <3>2. At(c, i + 1) \in ToSet(c)
      BY <1>1, <2>2, <3>1 DEF At, ToSet
    <3>3. QED
      BY <1>2, <3>1, <3>2
  <2>3. QED
    BY <2>1, <2>2, Zenon
<1>7. QED
  BY <1>2, <1>4, <1>5, <1>6, Zenon DEF O!Exact

-----------------------------------------------------------------------------
(***************************************************************************)
(* The buffer manager.                                                     *)
(***************************************************************************)
OutOf(p) == {bufp \in given : bufp[1][1] = p}

\* Exact, of one pool with its size, its free list and what it has lent; a
\* pool without memory has nothing to give.
PoolExact(p, size, list, out) ==
  /\ size \in {0, PoolSizes[p]}
  /\ list \in Seq(U!Buffers(p)) /\ IsInjective(list)
  /\ size = 0 => list = <<>> /\ out = {}
  /\ \A bufp \in out : bufp[2] <= size /\ bufp[1] \notin ToSet(list)
  /\ size > 0 =>
       /\ ToSet(list) \cup {bufp[1] : bufp \in out} = U!Buffers(p)
       /\ Cardinality(out) + Len(list) = PoolCounts[p]

Lent ==
  /\ IsFiniteSet(given)
  /\ \A bufp \in given : /\ bufp[1][1] \in U!Pools
                         /\ bufp[1] \in U!Buffers(bufp[1][1])
                         /\ bufp[2] \in U!Requests
                         /\ bufp = <<bufp[1], bufp[2]>>
  /\ \A b, c \in given : b[1] = c[1] => b = c
  /\ ~ready => given = {}

BuffersInv ==
  /\ DOMAIN specified_size = U!Pools
  /\ pool_head = [p \in U!Pools |-> pool_head[p]]
  /\ Lent
  /\ \A p \in U!Pools : PoolExact(p, specified_size[p], pool_head[p], OutOf(p))
  /\ size_lookup_table \in {U!NoTable, U!Table(specified_size)}

\* The operators on lists are the same under the module's name.
LEMMA BufferOperators ==
  /\ \A s : U!ToSet(s) = ToSet(s)
  /\ \A s : U!IsInjective(s) <=> IsInjective(s)
  /\ \A T : U!Min(T) = Min(T)
  /\ \A T : U!Cardinality(T) = Cardinality(T)
<1>1. \A s : U!ToSet(s) = ToSet(s)
  BY DEF U!ToSet, ToSet
<1>2. \A s : U!IsInjective(s) <=> IsInjective(s)
  BY DEF U!IsInjective, IsInjective
<1>3. \A T : U!Min(T) = Min(T)
  BY DEF U!Min, Min
<1>4. \A T : U!Cardinality(T) = Cardinality(T)
  BY DEF U!Cardinality, Cardinality
<1>5. QED
  BY <1>1, <1>2, <1>3, <1>4

\* What the assumption on the constants says.
LEMMA PoolsKnown ==
  ASSUME U!ConstantsOK
  PROVE  /\ U!num_pools \in Nat \ {0}
         /\ U!Pools = 1..U!num_pools
         /\ U!max_size \in Nat
         /\ \A p \in U!Pools : /\ PoolSizes[p] \in Nat \ {0}
                               /\ PoolCounts[p] \in Nat \ {0}
<1>1. \A p \in 1..U!num_pools : /\ PoolSizes[p] \in Nat \ {0}
                                /\ PoolCounts[p] \in Nat \ {0}
  BY DEF U!ConstantsOK
<1>2. U!num_pools \in Nat \ {0}
  BY DEF U!ConstantsOK, U!num_pools
<1>3. QED
  BY <1>1, <1>2 DEF U!Pools, U!max_size

\* A pool as it comes from its initialisation.
LEMMA PoolFilled ==
  ASSUME U!ConstantsOK, NEW p \in U!Pools,
         NEW list, list = [i \in 1..PoolCounts[p] |-> <<p, i>>]
  PROVE  /\ list \in Seq(U!Buffers(p)) /\ IsInjective(list)
         /\ ToSet(list) = U!Buffers(p) /\ Len(list) = PoolCounts[p]
<1>1. PoolCounts[p] \in Nat
  BY PoolsKnown
<1>2. \A i \in 1..PoolCounts[p] : <<p, i>> \in U!Buffers(p)
  BY DEF U!Buffers
<1>3. list \in Seq(U!Buffers(p)) /\ Len(list) = PoolCounts[p] /\ DOMAIN list = 1..PoolCounts[p]
  BY <1>1, <1>2
<1>4. ToSet(list) = U!Buffers(p)
  BY <1>3 DEF ToSet, U!Buffers
<1>5. \A i, j \in 1..PoolCounts[p] : <<p, i>> = <<p, j>> => i = j
  OBVIOUS
<1>6. IsInjective(list)
  BY <1>3, <1>5 DEF IsInjective
<1>7. QED
  BY <1>3, <1>4, <1>6

\* Pools that are initialised, some of them without memory, are exact.
LEMMA PoolsInitialised ==
  ASSUME U!ConstantsOK, NEW sizes, NEW heads, NEW table,
         U!Initialised(sizes, heads, table)
  PROVE  /\ DOMAIN sizes = U!Pools
         /\ heads = [p \in U!Pools |-> heads[p]]
         /\ table \in {U!NoTable, U!Table(sizes)}
         /\ \A p \in U!Pools : PoolExact(p, sizes[p], heads[p], {})
<1>1. PICK failed \in SUBSET U!Pools :
        /\ sizes = [p \in U!Pools |-> IF p \in failed THEN 0 ELSE PoolSizes[p]]
        /\ heads = [p \in U!Pools |-> IF p \in failed THEN <<>>
                                      ELSE [i \in 1..PoolCounts[p] |-> <<p, i>>]]
        /\ table \in {U!NoTable, U!Table(sizes)}
  BY DEF U!Initialised
<1>2. ASSUME NEW p \in U!Pools
      PROVE  PoolExact(p, sizes[p], heads[p], {})
  <2>1. CASE p \in failed
    <3>1. sizes[p] = 0 /\ heads[p] = <<>>
      BY <1>1, <2>1
    <3>2. <<>> \in Seq(U!Buffers(p)) /\ IsInjective(<<>>)
      BY ElementsOfEmpty
    <3>3. QED
      BY <3>1, <3>2 DEF PoolExact
  <2>2. CASE p \notin failed
    <3> DEFINE list == [i \in 1..PoolCounts[p] |-> <<p, i>>]
    <3>1. /\ list \in Seq(U!Buffers(p)) /\ IsInjective(list)
          /\ ToSet(list) = U!Buffers(p) /\ Len(list) = PoolCounts[p]
      BY PoolFilled
    <3>2. sizes[p] = PoolSizes[p] /\ heads[p] = list
      BY <1>1, <2>2
    <3>3. PoolSizes[p] \in Nat \ {0} /\ PoolCounts[p] \in Nat \ {0}
      BY PoolsKnown
    <3>4. Cardinality({}) = 0
      BY FS_EmptySet
    <3> HIDE DEF list
    <3>5. QED
      BY <3>1, <3>2, <3>3, <3>4 DEF PoolExact
  <2>3. QED
    BY <2>1, <2>2
<1>3. QED
  BY <1>1, <1>2

\* The first buffer of a pool's list goes to a user.
LEMMA PoolLends ==
  ASSUME NEW p, NEW size, NEW list, NEW out, PoolExact(p, size, list, out),
         IsFiniteSet(out), list # <<>>, NEW asked, asked <= size
  PROVE  /\ Head(list) \in U!Buffers(p)
         /\ \A bufp \in out : bufp[1] # Head(list)
         /\ PoolExact(p, size, Tail(list), out \cup {<<Head(list), asked>>})
<1> DEFINE h == Head(list)
           b == <<h, asked>>
<1>1. /\ list \in Seq(U!Buffers(p)) /\ IsInjective(list) /\ size # 0
      /\ size \in {0, PoolSizes[p]}
      /\ \A bufp \in out : bufp[2] <= size /\ bufp[1] \notin ToSet(list)
      /\ size > 0 => /\ ToSet(list) \cup {bufp[1] : bufp \in out} = U!Buffers(p)
                     /\ Cardinality(out) + Len(list) = PoolCounts[p]
  BY DEF PoolExact
<1>2. /\ h \in U!Buffers(p) /\ Tail(list) \in Seq(U!Buffers(p))
      /\ h \in ToSet(list) /\ ToSet(list) = {h} \cup ToSet(Tail(list))
      /\ IsInjective(Tail(list)) /\ h \notin ToSet(Tail(list))
  BY <1>1, ElementsOfTail
<1>3. Len(Tail(list)) = Len(list) - 1 /\ Len(list) \in Nat
  BY <1>1
<1>4. b[1] = h /\ b[2] = asked
  OBVIOUS
<1> HIDE DEF h, b
<1>5. \A bufp \in out : bufp[1] # h
  BY <1>1, <1>2
<1>6. b \notin out
  BY <1>4, <1>5
<1>7. Cardinality(out \cup {b}) = Cardinality(out) + 1 /\ Cardinality(out) \in Nat
  BY <1>6, FS_AddElement, FS_CardinalityType
<1>8. \A bufp \in out \cup {b} : bufp[2] <= size /\ bufp[1] \notin ToSet(Tail(list))
  BY <1>1, <1>2, <1>4, <1>5
<1>9. ToSet(Tail(list)) \cup {bufp[1] : bufp \in out \cup {b}}
        = ToSet(list) \cup {bufp[1] : bufp \in out}
  BY <1>2, <1>4
<1>10. PoolExact(p, size, Tail(list), out \cup {b})
  BY <1>1, <1>2, <1>3, <1>7, <1>8, <1>9 DEF PoolExact
<1>11. QED
  BY <1>2, <1>5, <1>10 DEF h, b

\* A buffer comes back to the head of its pool's list.
LEMMA PoolTakesBack ==
  ASSUME NEW p, NEW size, NEW list, NEW out, PoolExact(p, size, list, out),
         IsFiniteSet(out), NEW bufp \in out, bufp[1] \in U!Buffers(p),
         \A c \in out : c[1] = bufp[1] => c = bufp
  PROVE  PoolExact(p, size, <<bufp[1]>> \o list, out \ {bufp})
<1> DEFINE h == bufp[1]
           pushed == <<h>> \o list
<1>1. /\ list \in Seq(U!Buffers(p)) /\ IsInjective(list) /\ size # 0
      /\ size \in {0, PoolSizes[p]}
      /\ \A c \in out : c[2] <= size /\ c[1] \notin ToSet(list)
      /\ size > 0 => /\ ToSet(list) \cup {c[1] : c \in out} = U!Buffers(p)
                     /\ Cardinality(out) + Len(list) = PoolCounts[p]
  BY DEF PoolExact
<1>2. /\ pushed \in Seq(U!Buffers(p)) /\ ToSet(pushed) = {h} \cup ToSet(list)
      /\ IsInjective(pushed)
  BY <1>1, ElementsOfPush
<1>3. Len(pushed) = Len(list) + 1 /\ Len(list) \in Nat
  BY <1>1
<1> HIDE DEF pushed
<1>4. Cardinality(out \ {bufp}) = Cardinality(out) - 1 /\ Cardinality(out) \in Nat
  BY FS_RemoveElement, FS_CardinalityType
<1>5. \A c \in out \ {bufp} : c[2] <= size /\ c[1] \notin ToSet(pushed)
  BY <1>1, <1>2
<1>6. ToSet(pushed) \cup {c[1] : c \in out \ {bufp}} = ToSet(list) \cup {c[1] : c \in out}
  BY <1>2
<1>7. PoolExact(p, size, pushed, out \ {bufp})
  <2>1. size > 0 => Cardinality(out \ {bufp}) + Len(pushed) = PoolCounts[p]
    BY <1>1, <1>3, <1>4
  <2>2. size > 0 => ToSet(pushed) \cup {c[1] : c \in out \ {bufp}} = U!Buffers(p)
    BY <1>1, <1>6
  <2>3. QED
    BY <1>1, <1>2, <1>5, <2>1, <2>2 DEF PoolExact
<1>8. QED
  BY <1>7 DEF pushed

\* The pool that serves a request is one whose list is not empty and whose
\* buffers are large enough.
LEMMA PoolServes ==
  ASSUME U!ConstantsOK, BuffersInv, NEW size \in U!Requests,
         NEW start \in U!Starts(size), U!Serving(size, start) # {}
  PROVE  LET p == U!Min(U!Serving(size, start))
         IN p \in U!Pools /\ size <= specified_size[p] /\ pool_head[p] # <<>>
<1> DEFINE T == {p \in start..U!num_pools : size <= specified_size[p] /\ pool_head[p] # <<>>}
           p == Min(T)
<1>1. U!num_pools \in Nat \ {0} /\ U!Pools = 1..U!num_pools
  BY PoolsKnown
<1>2. start \in Nat \ {0}
  <2>1. CASE size_lookup_table = U!NoTable
    BY <2>1 DEF U!Starts
  <2>2. CASE size_lookup_table # U!NoTable /\ (size = U!max_size \/ size \notin DOMAIN size_lookup_table)
    BY <1>1, <2>2 DEF U!Starts
  <2>3. CASE size_lookup_table # U!NoTable /\ size # U!max_size /\ size \in DOMAIN size_lookup_table
    <3> DEFINE F == {q \in U!Pools : size <= specified_size[q]}
    <3>1. size_lookup_table = U!Table(specified_size)
      BY <2>3 DEF BuffersInv
    <3>2. F # {} /\ size_lookup_table[size] = Min(F)
      BY <2>3, <3>1, BufferOperators DEF U!Table
    <3>3. Min(F) \in F
      <4>1. F \subseteq Nat
        BY <1>1
      <4>2. QED
        BY <3>2, <4>1, LeastOf
    <3>4. QED
      BY <1>1, <2>3, <3>2, <3>3 DEF U!Starts
  <2>4. QED
    BY <2>1, <2>2, <2>3
<1>3. T # {} /\ T \subseteq Nat
  BY <1>1, <1>2 DEF U!Serving
<1>4. p \in T
  BY <1>3, LeastOf
<1>5. p = U!Min(U!Serving(size, start))
  BY BufferOperators DEF U!Serving
<1>6. p \in U!Pools
  BY <1>1, <1>2, <1>4
<1> HIDE DEF p
<1>7. QED
  BY <1>4, <1>5, <1>6

LEMMA AllocateInv ==
  ASSUME U!ConstantsOK, BuffersInv, NEW size \in U!Requests, U!buffer_allocate(size)
  PROVE  BuffersInv'
<1>1. PICK start \in U!Starts(size) : U!Serving(size, start) # {} /\
        LET p == U!Min(U!Serving(size, start))
        IN /\ pool_head' = [pool_head EXCEPT ![p] = Tail(@)]
           /\ given' = given \cup {<<Head(pool_head[p]), size>>}
  BY DEF U!buffer_allocate
<1>2. ready /\ UNCHANGED <<specified_size, size_lookup_table, ready>>
  BY DEF U!buffer_allocate
<1>3. PICK p \in U!Pools : /\ p = U!Min(U!Serving(size, start))
                           /\ size <= specified_size[p] /\ pool_head[p] # <<>>
  BY <1>1, PoolServes
<1> DEFINE h == Head(pool_head[p])
           b == <<h, size>>
<1>4. /\ pool_head' = [pool_head EXCEPT ![p] = Tail(@)]
      /\ given' = given \cup {b}
  BY <1>1, <1>3
<1>5. /\ DOMAIN specified_size = U!Pools /\ DOMAIN pool_head = U!Pools
      /\ IsFiniteSet(given)
      /\ \A bufp \in given : /\ bufp[1][1] \in U!Pools
                             /\ bufp[1] \in U!Buffers(bufp[1][1])
                             /\ bufp[2] \in U!Requests
                             /\ bufp = <<bufp[1], bufp[2]>>
      /\ \A c, d \in given : c[1] = d[1] => c = d
      /\ \A q \in U!Pools : PoolExact(q, specified_size[q], pool_head[q], OutOf(q))
      /\ size_lookup_table \in {U!NoTable, U!Table(specified_size)}
  BY DEF BuffersInv, Lent
<1>6. OutOf(p) \subseteq given /\ IsFiniteSet(OutOf(p))
  BY <1>5, FS_Subset DEF OutOf
<1>7. /\ h \in U!Buffers(p)
      /\ \A bufp \in OutOf(p) : bufp[1] # h
      /\ PoolExact(p, specified_size[p], Tail(pool_head[p]), OutOf(p) \cup {b})
  BY <1>3, <1>5, <1>6, PoolLends
<1>8. h[1] = p
  BY <1>7 DEF U!Buffers
<1>9. b[1] = h /\ b[2] = size /\ b = <<b[1], b[2]>>
  OBVIOUS
<1> HIDE DEF h, b
<1>10. OutOf(p)' = OutOf(p) \cup {b} /\ \A q \in U!Pools \ {p} : OutOf(q)' = OutOf(q)
  BY <1>4, <1>8, <1>9 DEF OutOf
<1>11. /\ pool_head'[p] = Tail(pool_head[p])
       /\ \A q \in U!Pools \ {p} : pool_head'[q] = pool_head[q]
       /\ pool_head' = [q \in U!Pools |-> pool_head'[q]]
  BY <1>4, <1>5
<1>12. \A q \in U!Pools : PoolExact(q, specified_size'[q], pool_head'[q], OutOf(q)')
  <2>1. specified_size' = specified_size
    BY <1>2
  <2>2. PoolExact(p, specified_size'[p], pool_head'[p], OutOf(p)')
    BY <1>7, <1>10, <1>11, <2>1, Zenon
  <2>3. ASSUME NEW q \in U!Pools, q # p
        PROVE  PoolExact(q, specified_size'[q], pool_head'[q], OutOf(q)')
    BY <1>5, <1>10, <1>11, <2>1, <2>3, Zenon
  <2>4. QED
    BY <2>2, <2>3, Zenon
<1>13. Lent'
  <2>1. IsFiniteSet(given')
    BY <1>4, <1>5, FS_AddElement
  <2>2. \A bufp \in given : bufp[1] # h
    BY <1>5, <1>7, <1>8 DEF OutOf
  <2>3. \A c, d \in given' : c[1] = d[1] => c = d
    BY <1>4, <1>5, <1>9, <2>2
  <2>4. \A bufp \in given' : /\ bufp[1][1] \in U!Pools
                             /\ bufp[1] \in U!Buffers(bufp[1][1])
                             /\ bufp[2] \in U!Requests
                             /\ bufp = <<bufp[1], bufp[2]>>
    BY <1>4, <1>5, <1>7, <1>8, <1>9
  <2>5. QED
    BY <1>2, <2>1, <2>3, <2>4 DEF Lent
<1>14. QED
  BY <1>2, <1>5, <1>11, <1>12, <1>13 DEF BuffersInv

LEMMA FreeInv ==
  ASSUME U!ConstantsOK, BuffersInv, NEW bufp \in given, U!buffer_free(bufp)
  PROVE  BuffersInv'
<1>1. /\ \A c \in given : /\ c[1][1] \in U!Pools /\ c[1] \in U!Buffers(c[1][1])
                          /\ c[2] \in U!Requests /\ c = <<c[1], c[2]>>
      /\ \A c, d \in given : c[1] = d[1] => c = d
      /\ DOMAIN specified_size = U!Pools /\ DOMAIN pool_head = U!Pools
      /\ IsFiniteSet(given) /\ ready
      /\ \A q \in U!Pools : PoolExact(q, specified_size[q], pool_head[q], OutOf(q))
      /\ size_lookup_table \in {U!NoTable, U!Table(specified_size)}
  BY DEF BuffersInv, Lent
<1>2. PICK p \in U!Pools : p = bufp[1][1]
  BY <1>1
<1>3. /\ pool_head' = [pool_head EXCEPT ![p] = <<bufp[1]>> \o @]
      /\ given' = given \ {bufp}
      /\ UNCHANGED <<specified_size, size_lookup_table, ready>>
  BY <1>2 DEF U!buffer_free
<1>4. /\ OutOf(p) \subseteq given /\ bufp \in OutOf(p) /\ bufp[1] \in U!Buffers(p)
      /\ \A c \in OutOf(p) : c[1] = bufp[1] => c = bufp
  BY <1>1, <1>2 DEF OutOf
<1>5. IsFiniteSet(OutOf(p))
  BY <1>1, <1>4, FS_Subset
<1>6. PoolExact(p, specified_size[p], <<bufp[1]>> \o pool_head[p], OutOf(p) \ {bufp})
  BY <1>1, <1>4, <1>5, PoolTakesBack
<1>7. OutOf(p)' = OutOf(p) \ {bufp} /\ \A q \in U!Pools \ {p} : OutOf(q)' = OutOf(q)
  BY <1>2, <1>3 DEF OutOf
<1>8. /\ pool_head'[p] = <<bufp[1]>> \o pool_head[p]
      /\ \A q \in U!Pools \ {p} : pool_head'[q] = pool_head[q]
      /\ pool_head' = [q \in U!Pools |-> pool_head'[q]]
  BY <1>1, <1>3
<1>9. \A q \in U!Pools : PoolExact(q, specified_size'[q], pool_head'[q], OutOf(q)')
  <2>1. specified_size' = specified_size
    BY <1>3
  <2>2. PoolExact(p, specified_size'[p], pool_head'[p], OutOf(p)')
    BY <1>6, <1>7, <1>8, <2>1, Zenon
  <2>3. ASSUME NEW q \in U!Pools, q # p
        PROVE  PoolExact(q, specified_size'[q], pool_head'[q], OutOf(q)')
    <3>1. PoolExact(q, specified_size[q], pool_head[q], OutOf(q))
      BY <1>1
    <3>2. OutOf(q)' = OutOf(q) /\ pool_head'[q] = pool_head[q]
      BY <1>7, <1>8, <2>3
    <3>3. QED
      BY <2>1, <3>1, <3>2, Zenon
  <2>4. QED
    BY <2>2, <2>3, Zenon
<1>10. Lent'
  <2>1. IsFiniteSet(given')
    BY <1>1, <1>3, FS_RemoveElement
  <2>2. QED
    BY <1>1, <1>3, <2>1 DEF Lent
<1>11. QED
  BY <1>1, <1>3, <1>8, <1>9, <1>10 DEF BuffersInv

\* Pools that have just been initialised, with no buffer lent.
LEMMA InitialisedInv ==
  ASSUME U!ConstantsOK, U!Initialised(specified_size, pool_head, size_lookup_table),
         given = {}
  PROVE  BuffersInv
<1>1. /\ DOMAIN specified_size = U!Pools
      /\ pool_head = [p \in U!Pools |-> pool_head[p]]
      /\ size_lookup_table \in {U!NoTable, U!Table(specified_size)}
      /\ \A p \in U!Pools : PoolExact(p, specified_size[p], pool_head[p], {})
  BY PoolsInitialised
<1>2. \A p \in U!Pools : OutOf(p) = {}
  BY DEF OutOf
<1>3. Lent
  BY FS_EmptySet DEF Lent
<1>4. QED
  BY <1>1, <1>2, <1>3 DEF BuffersInv

LEMMA BuffersStep ==
  ASSUME U!ConstantsOK, BuffersInv, [U!Next]_bufferVars
  PROVE  BuffersInv'
<1>1. CASE UNCHANGED bufferVars
  BY <1>1 DEF BuffersInv, Lent, OutOf, bufferVars
<1>2. CASE U!buffer_manager_destroy
  <2>1. /\ specified_size' = [p \in U!Pools |-> 0] /\ pool_head' = [p \in U!Pools |-> <<>>]
        /\ size_lookup_table' = U!NoTable /\ given' = {}
    BY <1>2 DEF U!buffer_manager_destroy
  <2>2. \A p \in U!Pools : OutOf(p)' = {}
    BY <2>1 DEF OutOf
  <2>3. Lent'
    BY <2>1, FS_EmptySet DEF Lent
  <2>4. ASSUME NEW p \in U!Pools
        PROVE  PoolExact(p, specified_size'[p], pool_head'[p], OutOf(p)')
    <3>1. <<>> \in Seq(U!Buffers(p)) /\ IsInjective(<<>>)
      BY ElementsOfEmpty
    <3>2. QED
      BY <2>1, <2>2, <3>1 DEF PoolExact
  <2>5. QED
    BY <2>1, <2>3, <2>4 DEF BuffersInv
<1>3. CASE U!buffer_manager_initialize
  <2>1. U!Initialised(specified_size, pool_head, size_lookup_table)'
    BY <1>3 DEF U!buffer_manager_initialize, U!Initialised
  <2>2. given = {} /\ given' = {}
    BY <1>3 DEF U!buffer_manager_initialize, BuffersInv, Lent
  <2>3. (U!Initialised(specified_size, pool_head, size_lookup_table) /\ given = {}
           => BuffersInv)'
    BY InitialisedInv, PTL
  <2>4. QED
    BY <2>1, <2>2, <2>3
<1>4. CASE \E size \in U!Requests : U!buffer_allocate(size)
  BY <1>4, AllocateInv
<1>5. CASE \E bufp \in given : U!buffer_free(bufp)
  BY <1>5, FreeInv
<1>6. QED
  BY <1>1, <1>2, <1>3, <1>4, <1>5 DEF U!Next

\* A table entry that is its own leads to the first pool whose buffers are
\* large enough, so that no pool before it could serve; and one that was not
\* written is for a size for which there is none.
LEMMA TableServes ==
  ASSUME U!ConstantsOK, BuffersInv, NEW size \in U!Requests,
         size # U!max_size \/ size_lookup_table = U!NoTable,
         NEW start \in U!Starts(size)
  PROVE  U!Serving(size, start) = U!Serving(size, 1)
<1>1. U!num_pools \in Nat \ {0} /\ U!Pools = 1..U!num_pools
  BY PoolsKnown
<1>2. CASE size_lookup_table = U!NoTable
  BY <1>2 DEF U!Starts
<1>3. CASE size_lookup_table # U!NoTable /\ size \notin DOMAIN size_lookup_table
  <2> DEFINE F == {q \in U!Pools : size <= specified_size[q]}
  <2>1. size_lookup_table = U!Table(specified_size)
    BY <1>3 DEF BuffersInv
  <2>2. F = {}
    BY <1>3, <2>1 DEF U!Table
  <2>3. U!Starts(size) = 1..(U!num_pools + 1)
    BY <1>3 DEF U!Starts
  <2>4. U!Serving(size, start) = {} /\ U!Serving(size, 1) = {}
    BY <1>1, <2>2, <2>3 DEF U!Serving
  <2>5. QED
    BY <2>4
<1>4. CASE size_lookup_table # U!NoTable /\ size # U!max_size /\ size \in DOMAIN size_lookup_table
  <2> DEFINE F == {q \in U!Pools : size <= specified_size[q]}
  <2>1. size_lookup_table = U!Table(specified_size)
    BY <1>4 DEF BuffersInv
  <2>2. F # {} /\ size_lookup_table[size] = Min(F)
    BY <1>4, <2>1, BufferOperators DEF U!Table
  <2>3. start = Min(F)
    BY <1>4, <2>2 DEF U!Starts
  <2>4. F \subseteq Nat
    BY <1>1
  <2>5. start \in F /\ \A q \in F : start <= q
    BY <2>2, <2>3, <2>4, LeastOf
  <2>6. QED
    BY <1>1, <2>5 DEF U!Serving
<1>5. QED
  BY <1>2, <1>3, <1>4

LEMMA BuffersInvExact ==
  ASSUME U!ConstantsOK, BuffersInv
  PROVE  U!Exact
<1>1. ASSUME NEW p \in U!Pools
      PROVE  LET out == {bufp \in given : bufp[1][1] = p}
             IN /\ U!IsInjective(pool_head[p])
                /\ \A bufp \in out : /\ bufp[2] <= specified_size[p]
                                     /\ bufp[1] \notin U!ToSet(pool_head[p])
                /\ specified_size[p] > 0 =>
                     /\ U!ToSet(pool_head[p]) \cup {bufp[1] : bufp \in out} = U!Buffers(p)
                     /\ Cardinality(out) + Len(pool_head[p]) = PoolCounts[p]
  <2> DEFINE out == {bufp \in given : bufp[1][1] = p}
  <2>1. PoolExact(p, specified_size[p], pool_head[p], out)
    BY DEF BuffersInv, OutOf
  <2> HIDE DEF out
  <2>2. /\ U!IsInjective(pool_head[p])
        /\ \A bufp \in out : /\ bufp[2] <= specified_size[p]
                             /\ bufp[1] \notin U!ToSet(pool_head[p])
        /\ specified_size[p] > 0 =>
             /\ U!ToSet(pool_head[p]) \cup {bufp[1] : bufp \in out} = U!Buffers(p)
             /\ Cardinality(out) + Len(pool_head[p]) = PoolCounts[p]
    BY <2>1, BufferOperators DEF PoolExact
  <2>3. QED
    BY <2>2 DEF out
<1>2. \A size \in U!Requests : size # U!max_size \/ size_lookup_table = U!NoTable =>
        \A start \in U!Starts(size) : U!Serving(size, start) = U!Serving(size, 1)
  BY TableServes
<1>3. QED
  BY <1>1, <1>2, BufferOperators DEF U!Exact

LEMMA BuffersBegin ==
  ASSUME U!ConstantsOK, U!Init
  PROVE  BuffersInv
BY InitialisedInv DEF U!Init

-----------------------------------------------------------------------------
(***************************************************************************)
(* The allocator in shared memory.                                         *)
(***************************************************************************)
\* The operators on sets and functions are the same under the module's name.
LEMMA AllocatorOperators ==
  /\ \A T : A!Min(T) = Min(T)
  /\ \A T : A!Cardinality(T) = Cardinality(T)
  /\ \A f, T : A!Restrict(f, T) = [x \in T |-> f[x]]
<1>1. \A T : A!Min(T) = Min(T)
  BY DEF A!Min, Min
<1>2. \A T : A!Cardinality(T) = Cardinality(T)
  BY DEF A!Cardinality, Cardinality
<1>3. \A f, T : A!Restrict(f, T) = [x \in T |-> f[x]]
  BY DEF A!Restrict
<1>4. QED
  BY <1>1, <1>2, <1>3

Lengths == 1..MALLOC_MAX_CHUNKS
Admins == UNION {[D -> Lengths] : D \in SUBSET A!Chunks}
Blocks == [first_free_chunk_index : Nat, free_chunks_left : Nat,
           freelist : SUBSET A!Chunks, admin : Admins]
Extents == [block : Nat, start : A!Chunks, chunks : Lengths]
Calls == [at : {"out", "search", "new", "take", "free"},
          howmany : Int, block : Int, start : Int]

BlocksTyped ==
  /\ mcb \in Seq(Blocks)
  /\ number_of_blocks = Len(mcb)
  /\ mapped \in [Process -> Int]
  /\ allocated \subseteq Extents
  /\ \A e \in allocated : e.block \in DOMAIN mcb

\* What Exact says of a block m at place b, when exts is handed out; and that
\* the block remembers the starts of its extents and nothing else.
Here(b, exts) == {e \in exts : e.block = b}
BlockExact(b, m, exts) ==
  /\ \A e \in Here(b, exts) : A!ChunksOf(e) \subseteq A!Chunks
  /\ \A e, f \in Here(b, exts) : e # f => A!ChunksOf(e) \cap A!ChunksOf(f) = {}
  /\ m.freelist = A!Chunks \ UNION {A!ChunksOf(e) : e \in Here(b, exts)}
  /\ m.free_chunks_left = Cardinality(m.freelist)
  /\ DOMAIN m.admin = {e.start : e \in Here(b, exts)}
  /\ \A e \in Here(b, exts) : m.admin[e.start] = e.chunks

\* What a process is told of the blocks in the call that it is in, and that
\* nobody else is in one.
Knows(c, count) ==
  \/ c = A!Out
  \/ /\ c.at = "search" /\ c.howmany \in Lengths
     /\ c.block \in 1..Len(mcb) + 1 /\ count = Len(mcb)
  \/ c.at = "new" /\ c.howmany \in Lengths /\ c.block \in 1..Len(mcb)
  \/ /\ c.at = "take" /\ c.howmany \in Lengths /\ c.block \in 1..Len(mcb)
     /\ A!Serves(mcb[c.block], c.howmany)
     /\ c.start = A!FindConsecutive(mcb[c.block], c.howmany)
  \/ c.at = "free" /\ A!Extent(c) \in allocated

BlocksKept ==
  /\ BlocksTyped
  /\ \A b \in DOMAIN mcb : BlockExact(b, mcb[b], allocated)
  /\ \A p \in Process : mapped[p] <= Len(mcb)

\* The inductive invariant.
BlocksInv ==
  ~overlapped =>
    /\ BlocksKept
    /\ call \in [Process -> Calls]
    /\ \A p \in Process : Knows(call[p], mapped[p])
    /\ \A p, q \in Process : p # q => call[p] = A!Out \/ call[q] = A!Out

-----------------------------------------------------------------------------
(***************************************************************************)
(* The sizes, and the search for a run of free chunks.                     *)
(***************************************************************************)

\* A legal request needs at least one chunk and no more than a block has.
LEMMA ChunksForRange ==
  ASSUME A!ConstantsOK, NEW size \in Nat, 0 < size, size <= A!MAX_MALLOCABLE_SIZE
  PROVE  A!ChunksFor(size + ADMIN_SIZE) \in Lengths
<1> DEFINE a == size + ADMIN_SIZE
           c == MALLOC_CHUNK_SIZE
           M == MALLOC_MAX_CHUNKS
           q == a \div c
           r == a % c
<1>1. a \in Nat /\ c \in Nat \ {0} /\ M \in Nat \ {0} /\ 0 < a /\ a <= M * c
  BY DEF A!ConstantsOK, A!MAX_MALLOCABLE_SIZE
<1> HIDE DEF a, c, M
<1>2. q \in Nat /\ r \in 0..(c - 1) /\ a = c * q + r
  BY <1>1
<1> HIDE DEF q, r
<1>3. r = 0 => q \in 1..M
  <2> SUFFICES ASSUME r = 0 PROVE q \in 1..M
    OBVIOUS
  <2>1. a = c * q
    BY <1>1, <1>2
  <2>2. q # 0
    BY <1>1, <1>2, <2>1
  <2>3. ~(q > M)
    BY <1>1, <1>2, <2>1
  <2>4. QED
    BY <1>1, <1>2, <2>2, <2>3
<1>4. r # 0 => q + 1 \in 1..M
  BY <1>1, <1>2
<1>5. QED
  BY <1>3, <1>4 DEF A!ChunksFor, Lengths, a, c, M, q, r

\* A block that serves a request has a run of free chunks for it.
LEMMA RunFound ==
  ASSUME A!ConstantsOK, NEW m \in Blocks, NEW howmany \in Lengths,
         A!Serves(m, howmany)
  PROVE  LET start == A!FindConsecutive(m, howmany) IN
         /\ start \in A!Chunks
         /\ start..(start + howmany - 1) \subseteq m.freelist
<1> DEFINE runs == {first \in m.first_free_chunk_index..MALLOC_MAX_CHUNKS - howmany :
                      first..first + howmany - 1 \subseteq m.freelist}
<1>1. A!FindConsecutive(m, howmany) = IF runs = {} THEN -1 ELSE Min(runs)
  BY AllocatorOperators DEF A!FindConsecutive
<1>2. m.first_free_chunk_index \in Nat /\ howmany \in 1..MALLOC_MAX_CHUNKS
      /\ MALLOC_MAX_CHUNKS \in Nat
  BY DEF A!ConstantsOK, Blocks, Lengths
<1>3. runs \subseteq Nat /\ runs \subseteq A!Chunks
  BY <1>2 DEF A!Chunks
<1>4. runs # {}
  BY <1>1 DEF A!Serves
<1>5. Min(runs) \in runs
  <2> HIDE DEF runs
  <2>1. QED
    BY <1>3, <1>4, LeastOf
<1>6. QED
  BY <1>1, <1>3, <1>4, <1>5

\* A new block serves every legal request.
LEMMA NewServes ==
  ASSUME A!ConstantsOK, NEW howmany \in Lengths
  PROVE  /\ A!NewBlock \in Blocks
         /\ A!Serves(A!NewBlock, howmany)
<1>1. MALLOC_MAX_CHUNKS \in Nat \ {0}
  BY DEF A!ConstantsOK
<1>2. A!NewBlock \in Blocks
  <2>1. <<>> \in [{} -> Lengths]
    OBVIOUS
  <2>2. <<>> \in Admins
    BY <2>1 DEF Admins
  <2>3. QED
    BY <1>1, <2>2 DEF A!NewBlock, Blocks
<1>3. 0 \in {first \in 0..MALLOC_MAX_CHUNKS - howmany :
               first..first + howmany - 1 \subseteq A!Chunks}
  BY <1>1 DEF A!Chunks, Lengths
<1>4. A!FindConsecutive(A!NewBlock, howmany) >= 0
  <2> DEFINE runs == {first \in 0..MALLOC_MAX_CHUNKS - howmany :
                        first..first + howmany - 1 \subseteq A!Chunks}
  <2>1. A!FindConsecutive(A!NewBlock, howmany) = IF runs = {} THEN -1 ELSE Min(runs)
    BY AllocatorOperators DEF A!FindConsecutive, A!NewBlock
  <2>2. runs # {} /\ runs \subseteq Nat
    BY <1>1, <1>3 DEF Lengths
  <2> HIDE DEF runs
  <2>3. Min(runs) \in Nat
    BY <2>2, LeastOf
  <2>4. A!FindConsecutive(A!NewBlock, howmany) = Min(runs)
    BY <2>1, <2>2
  <2>5. QED
    BY <2>3, <2>4
<1>5. QED
  BY <1>1, <1>2, <1>4 DEF A!Serves, A!NewBlock, Lengths

-----------------------------------------------------------------------------
(***************************************************************************)
(* One block under malloc and free.                                        *)
(***************************************************************************)

\* The chunks of an extent can be counted.
LEMMA ExtentSize ==
  ASSUME A!ConstantsOK, NEW e \in Extents
  PROVE  /\ IsFiniteSet(A!ChunksOf(e)) /\ Cardinality(A!ChunksOf(e)) = e.chunks
         /\ e.start \in A!ChunksOf(e)
         /\ IsFiniteSet(A!Chunks)
<1>1. e.start \in Nat /\ e.chunks \in Nat \ {0} /\ MALLOC_MAX_CHUNKS \in Nat
  BY DEF Extents, A!Chunks, Lengths, A!ConstantsOK
<1> DEFINE first == e.start
           last == e.start + e.chunks - 1
<1>2. first \in Int /\ last \in Int /\ first <= last /\ last - first + 1 = e.chunks
  BY <1>1
<1> HIDE DEF first, last
<1>3. IsFiniteSet(first..last) /\ Cardinality(first..last) = e.chunks
  BY <1>2, FS_Interval
<1>4. IsFiniteSet(A!Chunks)
  BY <1>1, FS_Interval DEF A!Chunks
<1>5. QED
  BY <1>1, <1>2, <1>3, <1>4 DEF A!ChunksOf, first, last

\* malloc takes a run of free chunks away and remembers it.
LEMMA MallocExact ==
  ASSUME A!ConstantsOK, NEW b \in Nat, NEW m \in Blocks, NEW exts \in SUBSET Extents,
         BlockExact(b, m, exts), NEW howmany \in Lengths, A!Serves(m, howmany),
         NEW c, c.block = b, c.howmany = howmany,
         c.start = A!FindConsecutive(m, howmany)
  PROVE  /\ A!Extent(c) \in Extents
         /\ A!Malloc(m, c.start, howmany) \in Blocks
         /\ BlockExact(b, A!Malloc(m, c.start, howmany), exts \cup {A!Extent(c)})
<1> DEFINE start == A!FindConsecutive(m, howmany)
           x == A!Extent(c)
           w == A!Malloc(m, c.start, howmany)
           more == exts \cup {x}
<1>1. start \in A!Chunks /\ start..(start + howmany - 1) \subseteq m.freelist
  BY RunFound
<1>2. /\ x \in Extents /\ x.block = b /\ x.start = start /\ x.chunks = howmany
      /\ A!ChunksOf(x) = start..(start + howmany - 1)
  BY <1>1 DEF A!Extent, Extents, A!ChunksOf
<1>3. /\ w.freelist = m.freelist \ A!ChunksOf(x)
      /\ w.free_chunks_left = m.free_chunks_left - howmany
      /\ w.first_free_chunk_index = m.first_free_chunk_index + howmany
      /\ w.admin = [i \in DOMAIN m.admin \cup {start} |->
                     IF i = start THEN howmany ELSE m.admin[i]]
      /\ w = [first_free_chunk_index |-> w.first_free_chunk_index,
              free_chunks_left |-> w.free_chunks_left,
              freelist |-> w.freelist, admin |-> w.admin]
  <2> DEFINE fl == m.freelist \ (start..start + howmany - 1)
             left == m.free_chunks_left - howmany
             ff == m.first_free_chunk_index + howmany
             adm == [i \in DOMAIN m.admin \cup {start} |->
                       IF i = start THEN howmany ELSE m.admin[i]]
  <2>1. w = [m EXCEPT !.freelist = fl, !.free_chunks_left = left,
                      !.first_free_chunk_index = ff, !.admin = adm]
    BY DEF A!Malloc
  <2>2. fl = m.freelist \ A!ChunksOf(x)
    BY <1>2
  <2> HIDE DEF fl, left, ff, adm, w
  <2>3. w = [first_free_chunk_index |-> ff, free_chunks_left |-> left,
             freelist |-> fl, admin |-> adm]
    BY <2>1 DEF Blocks
  <2>4. QED
    BY <2>2, <2>3 DEF left, ff, adm
<1>4. PICK D \in SUBSET A!Chunks : m.admin \in [D -> Lengths]
  BY DEF Blocks, Admins
<1>5. /\ w.admin \in [D \cup {start} -> Lengths]
      /\ w.admin[start] = howmany
      /\ \A i \in D : i # start => w.admin[i] = m.admin[i]
  BY <1>3, <1>4
<1>6. w \in Blocks
  <2>1. w.admin \in Admins
    BY <1>1, <1>5 DEF Admins
  <2>2. w.free_chunks_left \in Nat /\ w.first_free_chunk_index \in Nat
    BY <1>3 DEF A!Serves, Blocks, Lengths
  <2>3. w.freelist \in SUBSET A!Chunks
    BY <1>3 DEF Blocks
  <2> HIDE DEF w
  <2>4. QED
    BY <1>3, <2>1, <2>2, <2>3 DEF Blocks
<1> HIDE DEF start, x, w
<1>7. Here(b, more) = Here(b, exts) \cup {x}
  BY <1>2 DEF Here
<1>8. /\ \A e \in Here(b, exts) : e \in Extents /\ A!ChunksOf(e) \cap m.freelist = {}
      /\ A!ChunksOf(x) \subseteq m.freelist
  BY <1>1, <1>2 DEF BlockExact, Here
<1>9. \A e \in Here(b, exts) : e.start # start /\ e.start \in D
  <2>1. \A e \in Here(b, exts) : e.start \in D
    BY <1>4 DEF BlockExact
  <2>2. \A e \in Here(b, exts) : e.start \notin A!ChunksOf(x)
    BY <1>8, ExtentSize
  <2>3. QED
    BY <1>2, <2>1, <2>2, ExtentSize
<1>10. \A e \in Here(b, more) : A!ChunksOf(e) \subseteq A!Chunks
  BY <1>7, <1>8 DEF BlockExact, Blocks
<1>11. \A e, f \in Here(b, more) : e # f => A!ChunksOf(e) \cap A!ChunksOf(f) = {}
  BY <1>7, <1>8 DEF BlockExact
<1>12. w.freelist = A!Chunks \ UNION {A!ChunksOf(e) : e \in Here(b, more)}
  <2>1. UNION {A!ChunksOf(e) : e \in Here(b, more)}
          = A!ChunksOf(x) \cup UNION {A!ChunksOf(e) : e \in Here(b, exts)}
    BY <1>7
  <2>2. QED
    BY <1>3, <2>1 DEF BlockExact
<1>13. w.free_chunks_left = Cardinality(w.freelist)
  <2>1. m.freelist \subseteq A!Chunks /\ IsFiniteSet(A!Chunks)
        /\ Cardinality(A!ChunksOf(x)) = howmany
    BY <1>2, ExtentSize DEF Blocks
  <2>2. IsFiniteSet(m.freelist)
    BY <2>1, FS_Subset
  <2>3. m.freelist \cap A!ChunksOf(x) = A!ChunksOf(x)
    BY <1>8
  <2>4. Cardinality(m.freelist \ A!ChunksOf(x)) = Cardinality(m.freelist) - howmany
    <3>1. Cardinality(m.freelist \ A!ChunksOf(x))
            = Cardinality(m.freelist) - Cardinality(m.freelist \cap A!ChunksOf(x))
      BY <2>2, FS_Difference
    <3>2. QED
      BY <2>1, <2>3, <3>1, Zenon
  <2>5. QED
    BY <1>3, <2>4 DEF BlockExact
<1>14. DOMAIN w.admin = {e.start : e \in Here(b, more)}
  <2>1. DOMAIN w.admin = D \cup {start} /\ D = {e.start : e \in Here(b, exts)}
    BY <1>4, <1>5 DEF BlockExact
  <2>2. QED
    BY <1>2, <1>7, <2>1
<1>15. \A e \in Here(b, more) : w.admin[e.start] = e.chunks
  BY <1>2, <1>5, <1>7, <1>9 DEF BlockExact
<1>16. QED
  <2>1. BlockExact(b, w, more)
    BY <1>10, <1>11, <1>12, <1>13, <1>14, <1>15 DEF BlockExact
  <2>2. QED
    BY <1>2, <1>6, <2>1 DEF x, w

\* free gives an extent back and forgets it.
LEMMA FreedExact ==
  ASSUME A!ConstantsOK, NEW b \in Nat, NEW m \in Blocks, NEW exts \in SUBSET Extents,
         BlockExact(b, m, exts), NEW x \in Here(b, exts)
  PROVE  /\ A!Freed(m, x.start, x.chunks) \in Blocks
         /\ BlockExact(b, A!Freed(m, x.start, x.chunks), exts \ {x})
<1> DEFINE start == x.start
           w == A!Freed(m, start, x.chunks)
           rest == exts \ {x}
<1>1. /\ x \in Extents /\ start \in A!Chunks /\ x.chunks \in Lengths
      /\ m.admin[start] = x.chunks
      /\ A!ChunksOf(x) = start..(start + x.chunks - 1)
  BY DEF Extents, A!ChunksOf, BlockExact, Here
<1>2. PICK D \in SUBSET A!Chunks : m.admin \in [D -> Lengths]
  BY DEF Blocks, Admins
<1>3. /\ w.freelist = m.freelist \cup A!ChunksOf(x)
      /\ w.free_chunks_left = m.free_chunks_left + x.chunks
      /\ w.admin = [i \in D \ {start} |-> m.admin[i]]
      /\ w \in Blocks
  <2> DEFINE fl == m.freelist \cup (start..start + x.chunks - 1)
             left == m.free_chunks_left + x.chunks
             ff == Min({m.first_free_chunk_index, start})
             adm == [i \in DOMAIN m.admin \ {start} |-> m.admin[i]]
  <2>1. w = [m EXCEPT !.freelist = fl, !.free_chunks_left = left,
                      !.first_free_chunk_index = ff, !.admin = adm]
    BY AllocatorOperators DEF A!Freed
  <2>2. fl = m.freelist \cup A!ChunksOf(x) /\ left = m.free_chunks_left + x.chunks
    BY <1>1
  <2>3. adm = [i \in D \ {start} |-> m.admin[i]]
    BY <1>2
  <2>4. adm \in Admins
    <3>1. D \ {start} \in SUBSET A!Chunks
      BY <1>2
    <3>2. adm \in [D \ {start} -> Lengths]
      BY <1>2, <2>3
    <3>3. QED
      BY <3>1, <3>2, Zenon DEF Admins
  <2>5. ff \in Nat
    <3>1. {m.first_free_chunk_index, start} \subseteq Nat
      BY <1>1 DEF Blocks, A!Chunks
    <3>2. QED
      BY <3>1, LeastOf
  <2>6. fl \in SUBSET A!Chunks
    BY <2>2 DEF Blocks, BlockExact
  <2>7. left \in Nat
    BY <1>1, <2>2 DEF Blocks, Lengths
  <2> HIDE DEF fl, left, ff, adm, w
  <2>8. w = [first_free_chunk_index |-> ff, free_chunks_left |-> left,
             freelist |-> fl, admin |-> adm]
    BY <2>1 DEF Blocks
  <2>9. QED
    BY <2>2, <2>3, <2>4, <2>5, <2>6, <2>7, <2>8 DEF Blocks
<1> HIDE DEF start, w
<1>4. Here(b, rest) = Here(b, exts) \ {x}
  BY DEF Here
<1>5. \A e \in Here(b, rest) : A!ChunksOf(e) \cap A!ChunksOf(x) = {} /\ e.start # start
  <2>1. \A e \in Here(b, rest) : e \in Extents /\ A!ChunksOf(e) \cap A!ChunksOf(x) = {}
    BY <1>4 DEF BlockExact, Here
  <2>2. QED
    BY <1>1, <2>1, ExtentSize DEF start
<1>6. w.freelist = A!Chunks \ UNION {A!ChunksOf(e) : e \in Here(b, rest)}
  <2>1. UNION {A!ChunksOf(e) : e \in Here(b, exts)}
          = A!ChunksOf(x) \cup UNION {A!ChunksOf(e) : e \in Here(b, rest)}
    BY <1>4
  <2>2. A!ChunksOf(x) \cap UNION {A!ChunksOf(e) : e \in Here(b, rest)} = {}
    BY <1>5
  <2>3. A!ChunksOf(x) \subseteq A!Chunks
    BY DEF BlockExact
  <2>4. m.freelist = A!Chunks \ UNION {A!ChunksOf(e) : e \in Here(b, exts)}
    BY DEF BlockExact
  <2>5. QED
    BY <1>3, <2>1, <2>2, <2>3, <2>4
<1>7. w.free_chunks_left = Cardinality(w.freelist)
  <2>1. m.freelist \subseteq A!Chunks /\ IsFiniteSet(A!Chunks) /\ x.chunks \in Nat
        /\ Cardinality(A!ChunksOf(x)) = x.chunks /\ IsFiniteSet(A!ChunksOf(x))
    BY <1>1, ExtentSize DEF Blocks, Lengths
  <2>2. IsFiniteSet(m.freelist) /\ Cardinality(m.freelist) \in Nat
    BY <2>1, FS_Subset, FS_CardinalityType
  <2>3. m.freelist \cap A!ChunksOf(x) = {}
    BY DEF BlockExact
  <2>4. Cardinality(m.freelist \cup A!ChunksOf(x))
          = Cardinality(m.freelist) + x.chunks - Cardinality(m.freelist \cap A!ChunksOf(x))
    BY <2>1, <2>2, FS_Union
  <2>5. Cardinality(m.freelist \cap A!ChunksOf(x)) = 0
    BY <2>3, FS_EmptySet
  <2>6. Cardinality(m.freelist \cup A!ChunksOf(x)) = Cardinality(m.freelist) + x.chunks
    BY <2>1, <2>2, <2>4, <2>5
  <2>7. QED
    BY <1>3, <2>6 DEF BlockExact
<1>8. DOMAIN w.admin = {e.start : e \in Here(b, rest)}
  <2>1. DOMAIN w.admin = D \ {start} /\ D = {e.start : e \in Here(b, exts)}
    BY <1>2, <1>3 DEF BlockExact
  <2>2. QED
    BY <1>4, <1>5, <2>1 DEF start
<1>9. \A e \in Here(b, rest) : w.admin[e.start] = e.chunks
  <2>1. \A e \in Here(b, rest) : e.start \in DOMAIN w.admin
    BY <1>8
  <2>2. QED
    BY <1>3, <1>4, <2>1 DEF BlockExact
<1>10. QED
  <2>1. BlockExact(b, w, rest)
    BY <1>4, <1>6, <1>7, <1>8, <1>9 DEF BlockExact
  <2>2. QED
    BY <1>3, <2>1 DEF start, w

-----------------------------------------------------------------------------
(***************************************************************************)
(* The steps.                                                              *)
(***************************************************************************)

\* A block is exact as long as neither it nor its extents change.
LEMMA BlockUndisturbed ==
  ASSUME NEW b, NEW m, NEW exts, NEW more, Here(b, more) = Here(b, exts), BlockExact(b, m, exts)
  PROVE  BlockExact(b, m, more)
BY DEF BlockExact

LEMMA BlocksBegin == A!Init => BlocksInv
<1> SUFFICES ASSUME A!Init PROVE BlocksInv
  OBVIOUS
<1>1. /\ mcb = <<>> /\ DOMAIN mcb = {} /\ Len(mcb) = 0 /\ allocated = {}
      /\ mapped = [p \in Process |-> -1] /\ number_of_blocks = 0
      /\ call = [p \in Process |-> A!Out]
  BY DEF A!Init, A!Unattached
<1>2. BlocksKept
  BY <1>1 DEF BlocksKept, BlocksTyped
<1>3. A!Out \in Calls
  BY DEF A!Out, Calls
<1>4. QED
  BY <1>1, <1>2, <1>3 DEF BlocksInv, Knows

\* One block written, and the extents of that block only.
LEMMA BlockWritten ==
  ASSUME BlocksKept, NEW b \in 1..Len(mcb), NEW w \in Blocks,
         NEW exts \in SUBSET Extents, BlockExact(b, w, exts),
         \A e \in exts : e \in allocated \/ e.block = b,
         \A e \in allocated : e \in exts \/ e.block = b,
         mcb' = [mcb EXCEPT ![b] = w], allocated' = exts,
         UNCHANGED <<number_of_blocks, mapped>>
  PROVE  BlocksKept' /\ Len(mcb') = Len(mcb)
<1> DEFINE K == Len(mcb)
<1>1. /\ mcb \in Seq(Blocks) /\ K \in Nat /\ DOMAIN mcb = 1..K /\ number_of_blocks = K
      /\ \A e \in allocated : e.block \in 1..K
      /\ mapped \in [Process -> Int] /\ \A q \in Process : mapped[q] <= K
      /\ \A d \in 1..K : BlockExact(d, mcb[d], allocated)
  BY DEF BlocksKept, BlocksTyped
<1>2. mcb' \in Seq(Blocks) /\ Len(mcb') = K /\ DOMAIN mcb' = 1..K
      /\ mcb'[b] = w /\ \A d \in 1..K : d # b => mcb'[d] = mcb[d]
  BY <1>1
<1>3. ASSUME NEW d \in 1..K
      PROVE  BlockExact(d, mcb'[d], allocated')
  <2>1. CASE d = b
    BY <1>2, <2>1
  <2>2. CASE d # b
    <3>1. Here(d, allocated') = Here(d, allocated)
      BY <2>2 DEF Here
    <3>2. mcb'[d] = mcb[d] /\ BlockExact(d, mcb[d], allocated)
      BY <1>1, <1>2, <2>2
    <3>3. QED
      BY <3>1, <3>2, BlockUndisturbed
  <2>3. QED
    BY <2>1, <2>2
<1>4. BlocksTyped'
  BY <1>1, <1>2 DEF BlocksTyped
<1>5. QED
  BY <1>1, <1>2, <1>3, <1>4 DEF BlocksKept

\* A block created where there was none.
LEMMA BlockCreated ==
  ASSUME A!ConstantsOK, BlocksKept, NEW p \in Process,
         mcb' = Append(mcb, A!NewBlock), UNCHANGED allocated,
         number_of_blocks' = number_of_blocks + 1,
         mapped' = [mapped EXCEPT ![p] = @ + 1]
  PROVE  BlocksKept' /\ Len(mcb') = Len(mcb) + 1
<1> DEFINE K == Len(mcb)
           b == K + 1
<1>1. /\ mcb \in Seq(Blocks) /\ K \in Nat /\ DOMAIN mcb = 1..K /\ number_of_blocks = K
      /\ allocated \subseteq Extents /\ \A e \in allocated : e.block \in 1..K
      /\ mapped \in [Process -> Int] /\ \A q \in Process : mapped[q] <= K
      /\ \A d \in 1..K : BlockExact(d, mcb[d], allocated)
  <2>1. mcb \in Seq(Blocks) /\ K \in Nat /\ DOMAIN mcb = 1..K
    BY DEF BlocksKept, BlocksTyped
  <2>2. QED
    BY <2>1, Zenon DEF BlocksKept, BlocksTyped
<1>2. MALLOC_MAX_CHUNKS \in Nat \ {0}
  BY DEF A!ConstantsOK
<1>3. A!NewBlock \in Blocks /\ Here(b, allocated) = {}
  <2>1. MALLOC_MAX_CHUNKS \in Lengths
    BY <1>2 DEF Lengths
  <2>2. QED
    BY <1>1, <2>1, NewServes DEF Here
<1>4. BlockExact(b, A!NewBlock, allocated)
  <2>1. IsFiniteSet(A!Chunks) /\ Cardinality(A!Chunks) = MALLOC_MAX_CHUNKS
    <3> DEFINE last == MALLOC_MAX_CHUNKS - 1
    <3>1. last \in Int /\ 0 <= last
      BY <1>2
    <3> HIDE DEF last
    <3>2. IsFiniteSet(0..last) /\ Cardinality(0..last) = last - 0 + 1
      BY <3>1, FS_Interval
    <3>3. QED
      BY <1>2, <3>2 DEF last, A!Chunks
  <2>2. QED
    BY <1>3, <2>1 DEF BlockExact, A!NewBlock
<1>5. mcb' \in Seq(Blocks) /\ Len(mcb') = b /\ DOMAIN mcb' = 1..b
      /\ mcb'[b] = A!NewBlock /\ \A d \in 1..K : mcb'[d] = mcb[d]
  <2> DEFINE w == A!NewBlock
  <2>1. w \in Blocks /\ mcb' = Append(mcb, w)
    BY <1>3
  <2> HIDE DEF w
  <2>2. QED
    BY <1>1, <2>1 DEF w
<1>6. ASSUME NEW d \in 1..b
      PROVE  BlockExact(d, mcb'[d], allocated')
  <2>1. CASE d = b
    BY <1>4, <1>5, <2>1
  <2>2. CASE d # b
    BY <1>1, <1>5, <2>2
  <2>3. QED
    BY <2>1, <2>2
<1>7. mapped' \in [Process -> Int] /\ \A q \in Process : mapped'[q] <= Len(mcb')
  BY <1>1, <1>5
<1>8. BlocksTyped'
  BY <1>1, <1>5, <1>7 DEF BlocksTyped
<1>9. QED
  BY <1>5, <1>6, <1>7, <1>8 DEF BlocksKept

\* A step of the process that is in a call, and what it knows after it.
LEMMA CallGoesOn ==
  ASSUME BlocksInv, ~overlapped, NEW p \in Process, call[p] # A!Out, BlocksKept',
         NEW c \in Calls, call' = [call EXCEPT ![p] = c], Knows(c, mapped[p])'
  PROVE  BlocksInv'
<1>1. /\ call \in [Process -> Calls]
      /\ \A q \in Process : q # p => call[q] = A!Out
  BY DEF BlocksInv
<1>2. /\ call' \in [Process -> Calls] /\ call'[p] = c
      /\ \A q \in Process : q # p => call'[q] = A!Out
  BY <1>1
<1>3. \A q \in Process : Knows(call[q], mapped[q])'
  <2>1. ASSUME NEW q \in Process PROVE Knows(call[q], mapped[q])'
    <3>1. CASE q = p
      BY <1>2, <3>1
    <3>2. CASE q # p
      BY <1>2, <3>2 DEF Knows
    <3>3. QED
      BY <3>1, <3>2
  <2>2. QED
    BY <2>1
<1>4. \A q, r \in Process : q # r => call'[q] = A!Out \/ call'[r] = A!Out
  BY <1>2
<1>5. QED
  BY <1>2, <1>3, <1>4 DEF BlocksInv

\* A call begins, while nobody else is in one or not.
LEMMA CallBegins ==
  ASSUME BlocksInv, NEW p \in Process, NEW c \in Calls, A!Begins(p, c),
         ~overlapped => Knows(c, Len(mcb))
  PROVE  BlocksInv'
<1>1. ASSUME ~overlapped' PROVE BlocksInv'
  <2>1. /\ ~overlapped /\ \A q \in Process : call[q] = A!Out
        /\ call' = [call EXCEPT ![p] = c]
        /\ mapped' = [mapped EXCEPT ![p] = number_of_blocks]
        /\ UNCHANGED <<mcb, number_of_blocks, allocated>>
    BY <1>1 DEF A!Begins
  <2>2. /\ BlocksKept /\ call \in [Process -> Calls] /\ number_of_blocks = Len(mcb)
        /\ mapped \in [Process -> Int] /\ Len(mcb) \in Nat
    BY <2>1 DEF BlocksInv, BlocksKept, BlocksTyped
  <2>3. /\ call' \in [Process -> Calls] /\ call'[p] = c
        /\ mapped' \in [Process -> Int] /\ mapped'[p] = Len(mcb)
        /\ \A q \in Process : q # p => call'[q] = A!Out /\ mapped'[q] = mapped[q]
    BY <2>1, <2>2
  <2>4. BlocksKept'
    <3>1. \A q \in Process : mapped'[q] <= Len(mcb)
      BY <2>2, <2>3 DEF BlocksKept
    <3>2. QED
      BY <2>1, <2>2, <2>3, <3>1 DEF BlocksKept, BlocksTyped
  <2>5. ASSUME NEW q \in Process PROVE Knows(call[q], mapped[q])'
    <3>1. Knows(c, mapped[p])'
      <4>1. Knows(c, Len(mcb)) /\ mapped'[p] = Len(mcb')
        BY <2>1, <2>3
      <4>2. QED
        BY <2>1, <4>1 DEF Knows
    <3>2. CASE q = p
      BY <2>3, <3>1, <3>2
    <3>3. CASE q # p
      BY <2>3, <3>3 DEF Knows
    <3>4. QED
      BY <3>2, <3>3
  <2>6. \A q, r \in Process : q # r => call'[q] = A!Out \/ call'[r] = A!Out
    BY <2>3
  <2>7. QED
    BY <2>3, <2>4, <2>5, <2>6 DEF BlocksInv
<1>2. QED
  BY <1>1 DEF BlocksInv

\* What is known of the call of a process that is in one, when none has
\* overlapped another.
LEMMA InCall ==
  ASSUME BlocksInv, ~overlapped, NEW p \in Process
  PROVE  /\ BlocksKept /\ call \in [Process -> Calls] /\ call[p] \in Calls
         /\ Knows(call[p], mapped[p]) /\ A!Out \in Calls /\ A!Out.at = "out"
         /\ mcb \in Seq(Blocks) /\ Len(mcb) \in Nat /\ DOMAIN mcb = 1..Len(mcb)
         /\ mapped \in [Process -> Int] /\ mapped[p] <= Len(mcb)
         /\ allocated \in SUBSET Extents
         /\ \A b \in 1..Len(mcb) : mcb[b] \in Blocks /\ BlockExact(b, mcb[b], allocated)
<1>1. A!Out \in Calls /\ A!Out.at = "out"
  BY DEF A!Out, Calls
<1>2. BlocksKept /\ call \in [Process -> Calls] /\ call[p] \in Calls /\ Knows(call[p], mapped[p])
  BY DEF BlocksInv
<1>3. mcb \in Seq(Blocks) /\ Len(mcb) \in Nat /\ DOMAIN mcb = 1..Len(mcb)
  BY <1>2 DEF BlocksKept, BlocksTyped
<1>4. QED
  BY <1>1, <1>2, <1>3 DEF BlocksKept, BlocksTyped

\* A step that only maps blocks.
LEMMA OnlyMaps ==
  ASSUME BlocksInv, ~overlapped, NEW p \in Process, NEW k \in Int, k <= Len(mcb),
         call[p].at # "search", mapped' = [mapped EXCEPT ![p] = k],
         UNCHANGED <<mcb, number_of_blocks, call, allocated, overlapped>>
  PROVE  BlocksInv'
<1>1. /\ BlocksKept /\ call \in [Process -> Calls] /\ mapped \in [Process -> Int]
      /\ \A q \in Process : Knows(call[q], mapped[q]) /\ mapped[q] <= Len(mcb)
      /\ \A q, r \in Process : q # r => call[q] = A!Out \/ call[r] = A!Out
  BY DEF BlocksInv, BlocksKept, BlocksTyped
<1>2. \A q \in Process : mapped'[q] \in Int /\ mapped'[q] <= Len(mcb)
                        /\ (q # p => mapped'[q] = mapped[q])
  BY <1>1
<1>3. BlocksKept'
  BY <1>1, <1>2 DEF BlocksKept, BlocksTyped
<1>4. ASSUME NEW q \in Process PROVE Knows(call[q], mapped[q])'
  <2>1. Knows(call[q], mapped[q]) /\ (call[q].at = "search" => mapped'[q] = mapped[q])
    BY <1>1, <1>2
  <2>2. QED
    BY <2>1 DEF Knows
<1>5. QED
  BY <1>1, <1>3, <1>4 DEF BlocksInv

LEMMA CallSearches ==
  ASSUME A!ConstantsOK, BlocksInv, ~overlapped, NEW p \in Process, A!mcb_search(p)
  PROVE  BlocksInv'
<1> DEFINE c == call[p]
           m == mcb[c.block]
           found == [c EXCEPT !.at = "take", !.start = A!FindConsecutive(m, c.howmany)]
           next == [c EXCEPT !.block = @ + 1]
<1>1. /\ (c.at = "search" /\ c.block <= mapped[p]) \/ c.at = "new"
      /\ call' = [call EXCEPT ![p] = IF A!Serves(m, c.howmany) THEN found
                                     ELSE IF c.at = "search" THEN next ELSE A!Out]
      /\ UNCHANGED <<mcb, number_of_blocks, mapped, allocated, overlapped>>
  BY DEF A!mcb_search
<1>2. /\ BlocksKept /\ c \in Calls /\ Knows(c, mapped[p]) /\ A!Out \in Calls
      /\ c # A!Out /\ Len(mcb) \in Nat
      /\ \A b \in 1..Len(mcb) : mcb[b] \in Blocks
  BY <1>1, InCall, Zenon
<1>3. /\ c.howmany \in Lengths /\ c.block \in 1..Len(mcb)
      /\ c.at = "search" => mapped[p] = Len(mcb)
  BY <1>1, <1>2 DEF Knows
<1>4. BlocksKept'
  BY <1>1, <1>2 DEF BlocksKept, BlocksTyped
<1>9. call[p] # A!Out /\ BlocksKept' /\ UNCHANGED <<mcb, mapped>>
  BY <1>1, <1>2, <1>4
<1>5. CASE A!Serves(m, c.howmany)
  <2>1. A!FindConsecutive(m, c.howmany) \in A!Chunks
    BY <1>2, <1>3, <1>5, RunFound
  <2>2. A!Chunks \subseteq Int
    BY DEF A!Chunks
  <2> DEFINE start == A!FindConsecutive(m, c.howmany)
  <2>3. /\ found \in Calls /\ found.at = "take" /\ found.block = c.block
        /\ found.howmany = c.howmany /\ found.start = start
    <3>1. start \in Int
      BY <2>1, <2>2
    <3> HIDE DEF start, c
    <3>2. /\ [c EXCEPT !.at = "take", !.start = start] \in Calls
          /\ [c EXCEPT !.at = "take", !.start = start].at = "take"
          /\ [c EXCEPT !.at = "take", !.start = start].block = c.block
          /\ [c EXCEPT !.at = "take", !.start = start].howmany = c.howmany
          /\ [c EXCEPT !.at = "take", !.start = start].start = start
      BY <1>2, <3>1 DEF Calls
    <3>3. QED
      BY <3>2, Zenon DEF start
  <2> HIDE DEF found, c
  <2>4. call' = [call EXCEPT ![p] = found]
    BY <1>1, <1>5, Zenon
  <2>5. PICK d \in Calls :
          /\ call' = [call EXCEPT ![p] = d] /\ d.at = "take"
          /\ d.howmany \in Lengths /\ d.block \in 1..Len(mcb)
          /\ A!Serves(mcb[d.block], d.howmany)
          /\ d.start = A!FindConsecutive(mcb[d.block], d.howmany)
    BY <1>3, <1>5, <2>3, <2>4
  <2>6. Knows(d, mapped[p])'
    BY <1>9, <2>5 DEF Knows
  <2>7. QED
    BY <1>9, <2>5, <2>6, CallGoesOn
<1>6. CASE ~A!Serves(m, c.howmany) /\ c.at = "search"
  <2>1. /\ next \in Calls /\ next.at = "search" /\ next.block = c.block + 1
        /\ next.howmany = c.howmany
    <3> HIDE DEF c
    <3>1. QED
      BY <1>2, <1>6 DEF Calls
  <2> HIDE DEF next, c
  <2>2. call' = [call EXCEPT ![p] = next]
    BY <1>1, <1>6, Zenon
  <2>3. next.block \in 1..Len(mcb) + 1 /\ mapped[p] = Len(mcb)
    BY <1>2, <1>3, <1>6, <2>1
  <2>4. PICK d \in Calls :
          /\ call' = [call EXCEPT ![p] = d] /\ d.at = "search"
          /\ d.howmany \in Lengths /\ d.block \in 1..Len(mcb) + 1
    BY <1>3, <2>1, <2>2, <2>3
  <2>5. Knows(d, mapped[p])'
    BY <1>9, <2>3, <2>4 DEF Knows
  <2>6. QED
    BY <1>9, <2>4, <2>5, CallGoesOn
<1>7. CASE ~A!Serves(m, c.howmany) /\ c.at # "search"
  <2> HIDE DEF c, m, found, next
  <2>1. call' = [call EXCEPT ![p] = A!Out]
    BY <1>1, <1>7, Zenon
  <2>2. Knows(A!Out, mapped[p])'
    BY DEF Knows
  <2>3. QED
    BY <1>2, <1>9, <2>1, <2>2, CallGoesOn
<1>8. QED
  BY <1>5, <1>6, <1>7

LEMMA CallTakes ==
  ASSUME A!ConstantsOK, BlocksInv, ~overlapped, NEW p \in Process, A!mcb_take(p)
  PROVE  BlocksInv'
<1> DEFINE c == call[p]
           b == c.block
           w == A!Malloc(mcb[b], c.start, c.howmany)
           x == A!Extent(c)
<1>1. /\ c.at = "take" /\ mcb' = [mcb EXCEPT ![b] = w]
      /\ allocated' = allocated \cup {x} /\ call' = [call EXCEPT ![p] = A!Out]
      /\ UNCHANGED <<number_of_blocks, mapped, overlapped>>
  BY DEF A!mcb_take
<1>2. /\ BlocksKept /\ c \in Calls /\ Knows(c, mapped[p]) /\ A!Out \in Calls
      /\ c # A!Out /\ Len(mcb) \in Nat /\ allocated \in SUBSET Extents
      /\ \A d \in 1..Len(mcb) : mcb[d] \in Blocks /\ BlockExact(d, mcb[d], allocated)
  BY <1>1, InCall, Zenon
<1>3. /\ c.howmany \in Lengths /\ b \in 1..Len(mcb) /\ A!Serves(mcb[b], c.howmany)
      /\ c.start = A!FindConsecutive(mcb[b], c.howmany)
  BY <1>1, <1>2 DEF Knows
<1>4. x \in Extents /\ x.block = b /\ w \in Blocks /\ BlockExact(b, w, allocated \cup {x})
  <2>1. x.block = b /\ b \in Nat /\ mcb[b] \in Blocks /\ BlockExact(b, mcb[b], allocated)
    BY <1>2, <1>3 DEF A!Extent
  <2> HIDE DEF c
  <2>2. QED
    BY <1>2, <1>3, <2>1, MallocExact
<1> HIDE DEF w, x, c
<1>5. BlocksKept'
  <2>1. allocated \cup {x} \in SUBSET Extents
    BY <1>2, <1>4
  <2>2. /\ \A e \in allocated \cup {x} : e \in allocated \/ e.block = b
        /\ \A e \in allocated : e \in allocated \cup {x} \/ e.block = b
    BY <1>4
  <2>3. QED
    BY <1>1, <1>2, <1>3, <1>4, <2>1, <2>2, BlockWritten
<1>6. Knows(A!Out, mapped[p])'
  BY DEF Knows
<1>7. QED
  BY <1>1, <1>2, <1>5, <1>6, CallGoesOn DEF c

LEMMA CallCreates ==
  ASSUME A!ConstantsOK, BlocksInv, ~overlapped, NEW p \in Process, A!create_mcb(p)
  PROVE  BlocksInv'
<1> DEFINE c == call[p]
           new == [c EXCEPT !.at = "new"]
<1>1. /\ c.at = "search" /\ c.block > mapped[p]
      /\ mcb' = IF c.block \in DOMAIN mcb THEN [mcb EXCEPT ![c.block] = A!NewBlock]
                                          ELSE Append(mcb, A!NewBlock)
      /\ number_of_blocks' = number_of_blocks + 1
      /\ mapped' = [mapped EXCEPT ![p] = @ + 1]
      /\ call' = [call EXCEPT ![p].at = "new"]
      /\ UNCHANGED <<allocated, overlapped>>
  BY DEF A!create_mcb
<1>2. /\ BlocksKept /\ c \in Calls /\ Knows(c, mapped[p]) /\ A!Out.at = "out"
      /\ Len(mcb) \in Nat /\ DOMAIN mcb = 1..Len(mcb)
  BY <1>1, InCall, Zenon
<1>3. /\ c.howmany \in Lengths /\ c.block \in 1..Len(mcb) + 1 /\ mapped[p] = Len(mcb)
  BY <1>1, <1>2 DEF Knows
<1>4. c.block = Len(mcb) + 1 /\ c.block \notin DOMAIN mcb
  BY <1>1, <1>2, <1>3
<1>5. BlocksKept' /\ Len(mcb') = Len(mcb) + 1
  <2>1. /\ mcb' = Append(mcb, A!NewBlock) /\ UNCHANGED allocated
        /\ number_of_blocks' = number_of_blocks + 1
        /\ mapped' = [mapped EXCEPT ![p] = @ + 1]
    BY <1>1, <1>4, Zenon
  <2>2. QED
    BY <1>2, <2>1, BlockCreated
<1>6. /\ new \in Calls /\ new.at = "new" /\ new.block = c.block /\ new.howmany = c.howmany
  <2> HIDE DEF c
  <2>1. QED
    BY <1>2 DEF Calls
<1>7. call' = [call EXCEPT ![p] = new] /\ call[p] # A!Out
  <2>1. call' = [call EXCEPT ![p] = new]
    BY <1>1
  <2>2. call[p] # A!Out
    BY <1>1, <1>2
  <2>3. QED
    BY <2>1, <2>2
<1> HIDE DEF new, c
<1>8. PICK d \in Calls :
        /\ call' = [call EXCEPT ![p] = d] /\ d.at = "new"
        /\ d.howmany \in Lengths /\ d.block = Len(mcb) + 1
  BY <1>3, <1>4, <1>6, <1>7
<1>9. Knows(d, mapped[p])'
  <2>1. d.block \in 1..Len(mcb')
    BY <1>2, <1>5, <1>8
  <2>2. QED
    BY <1>8, <2>1 DEF Knows
<1>10. QED
  BY <1>5, <1>7, <1>8, <1>9, CallGoesOn

LEMMA CallFrees ==
  ASSUME A!ConstantsOK, BlocksInv, ~overlapped, NEW p \in Process, A!mcb_free(p)
  PROVE  BlocksInv'
<1> DEFINE c == call[p]
           b == c.block
           w == A!Freed(mcb[b], c.start, c.howmany)
           x == A!Extent(c)
<1>1. /\ c.at = "free" /\ mcb' = [mcb EXCEPT ![b] = w]
      /\ allocated' = allocated \ {x} /\ call' = [call EXCEPT ![p] = A!Out]
      /\ UNCHANGED <<number_of_blocks, mapped, overlapped>>
  BY DEF A!mcb_free
<1>2. /\ BlocksKept /\ c \in Calls /\ Knows(c, mapped[p]) /\ A!Out \in Calls
      /\ A!Out.at = "out" /\ Len(mcb) \in Nat /\ allocated \in SUBSET Extents
      /\ \A d \in 1..Len(mcb) : mcb[d] \in Blocks /\ BlockExact(d, mcb[d], allocated)
  BY <1>1, InCall, Zenon
<1>3. x \in allocated /\ c # A!Out
  BY <1>1, <1>2 DEF Knows
<1>4. x.block = b /\ x.start = c.start /\ x.chunks = c.howmany
  BY DEF A!Extent
<1>5. b \in 1..Len(mcb) /\ x \in Here(b, allocated)
  BY <1>2, <1>3, <1>4 DEF BlocksKept, BlocksTyped, Here
<1>6. w \in Blocks /\ BlockExact(b, w, allocated \ {x})
  <2>1. b \in Nat /\ mcb[b] \in Blocks /\ BlockExact(b, mcb[b], allocated)
    BY <1>2, <1>5
  <2> HIDE DEF c, x
  <2>2. QED
    BY <1>2, <1>4, <1>5, <2>1, FreedExact
<1> HIDE DEF w, x, c
<1>7. BlocksKept'
  <2>1. allocated \ {x} \in SUBSET Extents
    BY <1>2
  <2>2. /\ \A e \in allocated \ {x} : e \in allocated \/ e.block = b
        /\ \A e \in allocated : e \in allocated \ {x} \/ e.block = b
    BY <1>4
  <2>3. QED
    BY <1>1, <1>2, <1>5, <1>6, <2>1, <2>2, BlockWritten
<1>8. Knows(A!Out, mapped[p])'
  BY DEF Knows
<1>9. QED
  BY <1>1, <1>2, <1>3, <1>7, <1>8, CallGoesOn DEF c

LEMMA BlocksStep ==
  ASSUME A!ConstantsOK, BlocksInv, [A!Next]_allocatorVars
  PROVE  BlocksInv'
<1>1. ASSUME NEW p \in Process, A!shm_allocator_init(p)
      PROVE  BlocksInv'
  <2>1. ASSUME ~overlapped PROVE BlocksInv'
    <3>1. /\ mapped' = [mapped EXCEPT ![p] = 0] /\ mapped[p] = -1
          /\ UNCHANGED <<mcb, number_of_blocks, call, allocated, overlapped>>
      BY <1>1 DEF A!shm_allocator_init, A!Unattached
    <3>2. 0 <= Len(mcb) /\ Knows(call[p], mapped[p]) /\ A!Out.at = "out" /\ Len(mcb) \in Nat
      <4>1. Len(mcb) \in Nat
        BY <2>1, InCall, Zenon
      <4>2. QED
        BY <2>1, <4>1, InCall
    <3>3. call[p].at # "search"
      BY <3>1, <3>2, SMTT(30) DEF Knows
    <3>4. PICK k \in Int : k <= Len(mcb) /\ mapped' = [mapped EXCEPT ![p] = k]
      <4>1. 0 \in Int
        OBVIOUS
      <4>2. QED
        BY <3>1, <3>2, <4>1, Zenon
    <3>5. QED
      BY <2>1, <3>1, <3>3, <3>4, OnlyMaps
  <2>2. overlapped' = overlapped
    BY <1>1 DEF A!shm_allocator_init
  <2>3. QED
    BY <2>1, <2>2 DEF BlocksInv
<1>2. ASSUME NEW p \in Process, A!shm_addr2addr(p)
      PROVE  BlocksInv'
  <2>1. /\ mapped' = [mapped EXCEPT ![p] = number_of_blocks] /\ call[p] = A!Out /\ ~overlapped
        /\ UNCHANGED <<mcb, number_of_blocks, call, allocated, overlapped>>
    BY <1>2 DEF A!shm_addr2addr
  <2>2. BlocksKept /\ Len(mcb) \in Nat /\ A!Out.at = "out"
    BY <2>1, InCall, Zenon
  <2>3. number_of_blocks = Len(mcb)
    BY <2>2 DEF BlocksKept, BlocksTyped
  <2>4. number_of_blocks \in Int /\ number_of_blocks <= Len(mcb) /\ call[p].at # "search"
    BY <2>1, <2>2, <2>3
  <2>5. QED
    BY <2>1, <2>4, OnlyMaps
<1>3. ASSUME NEW p \in Process, NEW size \in MallocSizes, A!shm_alloc(p, size)
      PROVE  BlocksInv'
  <2> DEFINE howmany == A!ChunksFor(size + ADMIN_SIZE)
             c == [at |-> "search", howmany |-> howmany, block |-> 1, start |-> 0]
  <2>1. howmany \in Lengths
    BY <1>3, ChunksForRange DEF A!ConstantsOK, A!shm_alloc
  <2>2. A!Begins(p, c)
    BY <1>3 DEF A!shm_alloc
  <2>3. ~overlapped
    BY <2>2 DEF A!Begins
  <2> HIDE DEF howmany
  <2>4. c \in Calls
    BY <2>1 DEF Calls, Lengths
  <2>5. Knows(c, Len(mcb))
    <3>1. 1 \in 1..Len(mcb) + 1
      BY <2>3, InCall
    <3>2. QED
      BY <2>1, <3>1 DEF Knows
  <2> HIDE DEF c
  <2>6. QED
    BY <2>2, <2>4, <2>5, CallBegins
<1>4. ASSUME NEW p \in Process, NEW e \in allocated, ~overlapped, A!shm_free(p, e)
      PROVE  BlocksInv'
  <2> DEFINE number == mcb[e.block].admin[e.start]
             c == [at |-> "free", howmany |-> number, block |-> e.block, start |-> e.start]
  <2>1. A!Begins(p, c)
    BY <1>4 DEF A!shm_free
  <2>2. e \in Extents /\ number = e.chunks
    <3>1. /\ BlocksKept /\ allocated \in SUBSET Extents /\ DOMAIN mcb = 1..Len(mcb)
          /\ \A b \in 1..Len(mcb) : BlockExact(b, mcb[b], allocated)
      BY <1>4, InCall, Zenon
    <3>2. e.block \in 1..Len(mcb)
      BY <3>1 DEF BlocksKept, BlocksTyped
    <3>3. e \in Here(e.block, allocated) /\ BlockExact(e.block, mcb[e.block], allocated)
      BY <3>1, <3>2 DEF Here
    <3>4. QED
      BY <3>1, <3>3 DEF BlockExact
  <2> HIDE DEF number
  <2>3. c \in Calls
    <3>1. e.chunks \in Int /\ e.block \in Int /\ e.start \in Int
      BY <2>2 DEF Extents, Lengths, A!Chunks
    <3>2. QED
      BY <2>2, <3>1 DEF Calls
  <2>4. Knows(c, Len(mcb))
    <3>1. A!Extent(c) = e
      BY <2>2 DEF A!Extent, Extents
    <3>2. QED
      BY <3>1 DEF Knows
  <2> HIDE DEF c
  <2>5. QED
    BY <2>1, <2>3, <2>4, CallBegins
<1>5. ASSUME NEW p \in Process,
             A!mcb_search(p) \/ A!mcb_take(p) \/ A!create_mcb(p) \/ A!no_more_blocks(p)
               \/ A!mcb_free(p)
      PROVE  BlocksInv'
  <2>1. overlapped' = overlapped
    BY <1>5 DEF A!mcb_search, A!mcb_take, A!create_mcb, A!no_more_blocks, A!mcb_free
  <2>2. ASSUME ~overlapped, A!no_more_blocks(p) PROVE BlocksInv'
    <3>1. /\ call[p].at = "search" /\ call' = [call EXCEPT ![p] = A!Out]
          /\ UNCHANGED <<mcb, number_of_blocks, mapped, allocated, overlapped>>
      BY <2>2 DEF A!no_more_blocks
    <3>2. BlocksKept /\ A!Out \in Calls /\ A!Out.at = "out"
      BY <2>2, InCall, Zenon
    <3>3. BlocksKept' /\ call[p] # A!Out
      BY <3>1, <3>2 DEF BlocksKept, BlocksTyped
    <3>4. Knows(A!Out, mapped[p])'
      BY DEF Knows
    <3>5. QED
      BY <2>2, <3>1, <3>2, <3>3, <3>4, CallGoesOn
  <2>3. ASSUME ~overlapped PROVE BlocksInv'
    BY <1>5, <2>2, <2>3, CallSearches, CallTakes, CallCreates, CallFrees, Zenon
  <2>4. QED
    BY <2>1, <2>3 DEF BlocksInv
<1>6. CASE UNCHANGED allocatorVars
  BY <1>6 DEF allocatorVars, BlocksInv, BlocksKept, BlocksTyped, Knows
<1>7. QED
  BY <1>1, <1>2, <1>3, <1>4, <1>5, <1>6, Zenon DEF A!Next

\* As long as no two calls have overlapped: extents that are handed out lie in
\* their blocks and share no chunk, whichever processes asked; a chunk is free
\* exactly when no extent has it; and the counts and what the blocks remember
\* of the extents are right.
LEMMA BlocksAsAsked ==
  ASSUME BlocksInv
  PROVE  A!Exact
BY AllocatorOperators DEF BlocksInv, BlocksKept, BlocksTyped, BlockExact, Here, A!Exact

-----------------------------------------------------------------------------
(***************************************************************************)
(* Bit lists.  The words hold the bits asked to be 1, and nothing said of  *)
(* the spare ones: they are past the highest valid bit.                    *)
(***************************************************************************)
BitInv ==
  /\ lowest_valid_bit \in Int /\ highest_valid_bit \in Int
  /\ lowest_valid_bit <= highest_valid_bit
  /\ size_in_ints =
       (highest_valid_bit - lowest_valid_bit + 1) \div BITS_PER_INT + 2
  /\ DOMAIN the_bits = 0..(size_in_ints - 1)
  /\ HoldsBits(the_bits, size_in_ints, BITS_PER_INT,
               lowest_valid_bit, highest_valid_bit, set)
  /\ bits_set_count = Cardinality(set)

LEMMA BitsOfModel ==
  /\ \A s : B!Cardinality(s) = Cardinality(s)
  /\ \A s : B!Min(s) = Min(s)
  /\ \A b : B!Word(b) = WordOf(b, BITS_PER_INT, lowest_valid_bit)
  /\ \A b : B!Bit(b) = BitOf(b, BITS_PER_INT, lowest_valid_bit)
  /\ \A has : B!FirstOf(has) = FirstBit(has, size_in_ints, BITS_PER_INT,
                                        lowest_valid_bit, highest_valid_bit)
<1>1. /\ \A s : B!Cardinality(s) = Cardinality(s)
      /\ \A s : B!Min(s) = Min(s)
  BY DEF B!Cardinality, Cardinality, B!Min, Min
<1>2. \A has : B!FirstOf(has) = FirstBit(has, size_in_ints, BITS_PER_INT,
                                         lowest_valid_bit, highest_valid_bit)
  BY <1>1, Zenon DEF B!FirstOf, FirstBit
<1>3. QED
  BY <1>1, <1>2 DEF B!Word, WordOf, B!Bit, BitOf

\* Every valid bit has its word among those of the list.
LEMMA WordInList ==
  ASSUME BITS_PER_INT \in Nat \ {0}, lowest_valid_bit \in Int, highest_valid_bit \in Int,
         lowest_valid_bit <= highest_valid_bit,
         size_in_ints =
           (highest_valid_bit - lowest_valid_bit + 1) \div BITS_PER_INT + 2
  PROVE  /\ size_in_ints \in Nat
         /\ \A b \in B!Valid :
              WordOf(b, BITS_PER_INT, lowest_valid_bit) \in 0..(size_in_ints - 1)
<1> DEFINE w == BITS_PER_INT
           all == (highest_valid_bit - lowest_valid_bit + 1) \div w
<1>1. highest_valid_bit - lowest_valid_bit + 1 \in Int /\ highest_valid_bit - lowest_valid_bit + 1 >= 0
  OBVIOUS
<1>2. all \in Int /\ all >= 0 /\ size_in_ints = all + 2
  BY <1>1, WordAndBit
<1>3. ASSUME NEW b \in B!Valid PROVE WordOf(b, w, lowest_valid_bit) \in 0..(size_in_ints - 1)
  <2> DEFINE p == b - lowest_valid_bit
             q == highest_valid_bit - lowest_valid_bit + 1
             u == p \div w
  <2>1. p \in Int /\ p >= 0 /\ q \in Int /\ p <= q
    BY DEF B!Valid
  <2>2. u \in Int /\ u >= 0 /\ u <= all
    BY <2>1, WordAndBit, WordsMonotone
  <2> HIDE DEF u, all, p, q
  <2>3. u \in 0..(size_in_ints - 1)
    BY <1>2, <2>2
  <2>4. QED
    BY <2>3 DEF WordOf, u, p
<1>4. QED
  BY <1>2, <1>3

LEMMA BitAsAsked == BitInv => B!Exact
<1>1. SUFFICES ASSUME BitInv PROVE B!Exact
  OBVIOUS
<1> DEFINE low == lowest_valid_bit
           high == highest_valid_bit
           w == BITS_PER_INT
           size == size_in_ints
<1>2. /\ low \in Int /\ high \in Int /\ low <= high /\ w \in Nat \ {0}
      /\ size \in Nat /\ set \subseteq low..high
      /\ HoldsBits(the_bits, size, w, low, high, set)
      /\ bits_set_count = Cardinality(set)
      /\ \A b \in B!Valid : WordOf(b, w, low) \in 0..(size - 1)
  BY <1>1, WordInList DEF BitInv, HoldsBits
<1>3. \A b \in B!Valid : B!Get(b) <=> b \in set
  <2>1. ASSUME NEW b \in low..high
        PROVE  BitOf(b, w, low) \in the_bits[WordOf(b, w, low)] <=> b \in set
    <3>1. WordOf(b, w, low) \in 0..(size - 1)
      BY <1>2 DEF B!Valid
    <3>2. QED
      BY <1>2, <3>1, BitRead, Zenon
  <2>2. QED
    BY <2>1, BitsOfModel, Zenon DEF B!Get, B!Valid
<1>4. B!bitlist_first_set_bit = B!Lowest(set)
  <2>1. FirstBit(the_bits, size, w, low, high) = IF set = {} THEN {} ELSE {Min(set)}
    BY <1>2, FirstBitFound, Zenon
  <2>2. QED
    BY <2>1, BitsOfModel, Zenon DEF B!bitlist_first_set_bit, B!Lowest
<1>5. B!bitlist_first_clear_bit = B!Lowest(B!Valid \ set)
  <2> DEFINE other == [i \in 0..(size - 1) |-> (0..(w - 1)) \ the_bits[i]]
  <2>1. \A b \in low..high : WordOf(b, w, low) \in 0..(size - 1)
    BY <1>2 DEF B!Valid
  <2>2. HoldsBits(other, size, w, low, high, (low..high) \ set)
    BY <1>2, <2>1, BitsInverted, Zenon
  <2> HIDE DEF other
  <2>3. FirstBit(other, size, w, low, high) =
          IF (low..high) \ set = {} THEN {} ELSE {Min((low..high) \ set)}
    BY <2>2, FirstBitFound, Zenon
  <2>4. B!bitlist_first_clear_bit = B!FirstOf(other)
    BY DEF B!bitlist_first_clear_bit, B!ALL_ONES, other
  <2>5. QED
    BY <2>3, <2>4, BitsOfModel, Zenon DEF B!Lowest, B!Valid
<1>6. bits_set_count = B!Cardinality(set)
  BY <1>2, BitsOfModel
<1>7. QED
  BY <1>3, <1>4, <1>5, <1>6 DEF B!Exact

LEMMA BitBegins ==
  ASSUME B!ConstantsOK
  PROVE  B!Init => BitInv
<1>1. SUFFICES ASSUME NEW b \in Ranges, NEW one \in BOOLEAN, B!Fill(b, one)
      PROVE  BitInv
  BY DEF B!Init
<1> DEFINE low == lowest_valid_bit
           high == highest_valid_bit
           w == BITS_PER_INT
           size == size_in_ints
<1>2. /\ w \in Nat \ {0} /\ low \in Int /\ high \in Int /\ low <= high
      /\ size = (high - low + 1) \div w + 2
      /\ the_bits = [i \in 0..(size - 1) |-> IF one THEN 0..(w - 1) ELSE {}]
      /\ bits_set_count = IF one THEN high - low + 1 ELSE 0
      /\ set = IF one THEN low..high ELSE {}
  BY <1>1 DEF B!Fill, B!ConstantsOK, B!ALL_ONES, B!Valid
<1>3. /\ size \in Nat /\ \A c \in low..high : WordOf(c, w, low) \in 0..(size - 1)
  BY <1>2, WordInList DEF B!Valid
<1>4. bits_set_count = Cardinality(set)
  <2>1. Cardinality({}) = 0
    BY FS_EmptySet
  <2>2. Cardinality(low..high) = high - low + 1
    BY <1>2, FS_Interval
  <2>3. QED
    BY <1>2, <2>1, <2>2
<1>5. HoldsBits(the_bits, size, w, low, high, set)
  <2>1. \A c \in set : (c - low) \div w \in 0..(size - 1)
    BY <1>2, <1>3 DEF WordOf
  <2>2. set \subseteq low..high
    BY <1>2
  <2>3. ASSUME NEW i \in 0..(size - 1)
        PROVE  /\ the_bits[i] \subseteq 0..(w - 1)
               /\ \A j \in 0..(w - 1) : i * w + j + low <= high =>
                    (j \in the_bits[i] <=> i * w + j + low \in set)
    <3>1. the_bits[i] = IF one THEN 0..(w - 1) ELSE {}
      BY <1>2
    <3>2. ASSUME NEW j \in 0..(w - 1), i * w + j + low <= high
          PROVE  i * w + j + low \in low..high
      <4> DEFINE c == i * w
      <4>1. c \in Nat
        BY <1>2
      <4>2. c + j + low <= high
        BY <3>2
      <4> HIDE DEF c
      <4>3. c + j + low \in low..high
        BY <1>2, <4>1, <4>2
      <4>4. QED
        BY <4>3 DEF c
    <3>3. QED
      BY <1>2, <3>1, <3>2
  <2>4. QED
    BY <1>2, <1>3, <2>1, <2>2, <2>3 DEF HoldsBits
<1>6. DOMAIN the_bits = 0..(size - 1)
  BY <1>2
<1>7. QED
  BY <1>2, <1>4, <1>5, <1>6 DEF BitInv

LEMMA BitStep == BitInv /\ [B!Next]_bitVars => BitInv'
<1>1. CASE UNCHANGED bitVars
  BY <1>1 DEF bitVars, BitInv
<1>2. SUFFICES ASSUME BitInv, B!Next PROVE BitInv'
  BY <1>1
<1> DEFINE low == lowest_valid_bit
           high == highest_valid_bit
           w == BITS_PER_INT
           size == size_in_ints
<1>3. /\ low \in Int /\ high \in Int /\ low <= high /\ w \in Nat \ {0}
      /\ size = (high - low + 1) \div w + 2
      /\ size \in Nat /\ set \subseteq low..high
      /\ DOMAIN the_bits = 0..(size - 1)
      /\ HoldsBits(the_bits, size, w, low, high, set)
      /\ bits_set_count = Cardinality(set)
      /\ \A b \in low..high : WordOf(b, w, low) \in 0..(size - 1)
  BY <1>2, WordInList DEF BitInv, HoldsBits, B!Valid
<1>4. PICK b \in low..high : B!bitlist_set(b) \/ B!bitlist_clear(b)
  BY <1>2 DEF B!Next, B!Valid
<1> DEFINE u == WordOf(b, w, low)
           v == BitOf(b, w, low)
<1>5. /\ HoldsBits(BitOn(the_bits, u, v), size, w, low, high, set \cup {b})
      /\ HoldsBits(BitOff(the_bits, u, v), size, w, low, high, set \ {b})
      /\ v \in the_bits[u] <=> b \in set
  <2>1. u \in 0..(size - 1)
    BY <1>3
  <2>2. v \in the_bits[u] <=> b \in set
    <3>1. HoldsBits(the_bits, size, w, low, high, set) /\ b \in low..high
      BY <1>3, <1>4
    <3>2. QED
      BY <2>1, <3>1, BitRead, ZenonT(30)
  <2>3. /\ HoldsBits(BitOn(the_bits, u, v), size, w, low, high, set \cup {b})
        /\ HoldsBits(BitOff(the_bits, u, v), size, w, low, high, set \ {b})
    BY <1>3, <2>1, BitWritten, Zenon
  <2>4. QED
    BY <2>2, <2>3
<1>6. UNCHANGED <<lowest_valid_bit, highest_valid_bit, size_in_ints>>
  BY <1>4 DEF B!bitlist_set, B!bitlist_clear, B!bounds
<1>7. B!Word(b) = u /\ B!Bit(b) = v /\ (B!Get(b) <=> b \in set)
  BY <1>5, BitsOfModel DEF B!Get
<1> HIDE DEF u, v
<1>8. IsFiniteSet(set) /\ Cardinality(set) \in Nat
  <2>1. IsFiniteSet(low..high)
    BY <1>3, FS_Interval
  <2>2. QED
    BY <1>3, <2>1, FS_Subset, FS_CardinalityType
<1>9. CASE B!bitlist_set(b)
  <2>1. /\ the_bits' = BitOn(the_bits, u, v)
        /\ bits_set_count' = bits_set_count + (IF b \in set THEN 0 ELSE 1)
        /\ set' = set \cup {b}
    BY <1>7, <1>9 DEF B!bitlist_set, BitOn
  <2>2. bits_set_count' = Cardinality(set')
    <3>1. Cardinality(set \cup {b}) = IF b \in set THEN Cardinality(set) ELSE Cardinality(set) + 1
      BY <1>8, FS_AddElement
    <3>2. QED
      BY <1>3, <1>8, <2>1, <3>1
  <2>3. DOMAIN the_bits' = 0..(size - 1)
    BY <1>3, <2>1 DEF BitOn
  <2>4. QED
    BY <1>3, <1>5, <1>6, <2>1, <2>2, <2>3 DEF BitInv
<1>10. CASE B!bitlist_clear(b)
  <2>1. /\ the_bits' = BitOff(the_bits, u, v)
        /\ bits_set_count' = bits_set_count - (IF b \in set THEN 1 ELSE 0)
        /\ set' = set \ {b}
    BY <1>7, <1>10 DEF B!bitlist_clear, BitOff
  <2>2. bits_set_count' = Cardinality(set')
    <3>1. Cardinality(set \ {b}) = IF b \in set THEN Cardinality(set) - 1 ELSE Cardinality(set)
      BY <1>8, FS_RemoveElement
    <3>2. QED
      BY <1>3, <1>8, <2>1, <3>1
  <2>3. DOMAIN the_bits' = 0..(size - 1)
    BY <1>3, <2>1 DEF BitOff
  <2>4. QED
    BY <1>3, <1>5, <1>6, <2>1, <2>2, <2>3 DEF BitInv
<1>11. QED
  BY <1>4, <1>9, <1>10

-----------------------------------------------------------------------------
(***************************************************************************)
(* The bit list in shared memory.  It has no spare bits that are 1, and so *)
(* a walk through its words meets those asked for, in order.               *)
(***************************************************************************)
ShmBitInv ==
  /\ size_in_bits \in Nat /\ WordBits \in Nat \ {0}
  /\ DOMAIN bits = 0..(S!size_in_ints - 1)
  /\ HoldsBits(bits, S!size_in_ints, WordBits,
               0, S!size_in_ints * WordBits - 1, ones)
  /\ ones \subseteq 0..size_in_bits - 1
  /\ shm_n = Cardinality(ones)

LEMMA ShmBitsOfModel ==
  /\ \A s : S!Cardinality(s) = Cardinality(s)
  /\ \A s : S!Min(s) = Min(s)
  /\ \A s : S!Ascending(s) = AscendingOf(s)
  /\ \A s : S!FlattenSeq(s) = FlattenSeq(s)
<1>1. /\ \A s : S!Cardinality(s) = Cardinality(s)
      /\ \A s : S!Min(s) = Min(s)
  BY DEF S!Cardinality, Cardinality, S!Min, Min
<1>2. \A s : S!Ascending(s) = AscendingOf(s)
  BY <1>1 DEF S!Ascending, AscendingOf
<1>3. \A s : S!FlattenSeq(s) = FlattenSeq(s)
  BY Zenon DEF S!FlattenSeq, FlattenSeq
<1>4. QED
  BY <1>1, <1>2, <1>3

\* The words of a list have room for its bits.
LEMMA WordInShmList ==
  ASSUME WordBits \in Nat \ {0}, size_in_bits \in Nat
  PROVE  /\ S!size_in_ints \in Nat \ {0}
         /\ S!size_in_ints * WordBits - 1 \in Int
         /\ \A b \in 0..size_in_bits - 1 :
              /\ b \in 0..(S!size_in_ints * WordBits - 1)
              /\ WordOf(b, WordBits, 0) \in 0..(S!size_in_ints - 1)
              /\ b \div WordBits = WordOf(b, WordBits, 0)
              /\ b % WordBits = BitOf(b, WordBits, 0)
<1> DEFINE w == WordBits
           all == size_in_bits \div w
           size == S!size_in_ints
<1>1. all \in Int /\ all >= 0 /\ size = all + 1
  BY WordAndBit DEF S!size_in_ints
<1> HIDE DEF all, size
<1>2. size \in Nat \ {0} /\ size * w - 1 \in Int
  BY <1>1
<1>3. ASSUME NEW b \in 0..size_in_bits - 1
      PROVE  /\ b \in 0..(size * w - 1) /\ WordOf(b, w, 0) \in 0..(size - 1)
             /\ b \div w = WordOf(b, w, 0) /\ b % w = BitOf(b, w, 0)
  <2> DEFINE u == b \div w
             v == b % w
  <2>1. b \in Int /\ b >= 0 /\ b <= size_in_bits /\ b - 0 = b
    OBVIOUS
  <2>2. /\ u \in Int /\ u >= 0 /\ u <= all
        /\ v \in 0..w - 1 /\ b = u * w + v
    <3>1. u \in Int /\ v \in 0..w - 1 /\ b = u * w + v /\ u >= 0
      BY <2>1, WordAndBit
    <3>2. u <= all
      BY <2>1, WordsMonotone DEF all
    <3>3. QED
      BY <3>1, <3>2
  <2>3. u = WordOf(b, w, 0) /\ v = BitOf(b, w, 0)
    BY <2>1 DEF WordOf, BitOf
  <2> HIDE DEF u, v
  <2>4. u \in 0..(size - 1) /\ u < size
    BY <1>1, <2>2
  <2>5. u * w + v < size * w + 0
    BY <1>2, <2>2, <2>4, WordsFirst
  <2> DEFINE c == size * w
             d == u * w
  <2>6. c \in Int /\ d \in Int /\ d + v < c + 0 /\ b = d + v
    BY <1>2, <2>2, <2>5
  <2> HIDE DEF c, d
  <2>7. b \in 0..(c - 1)
    BY <2>1, <2>2, <2>6
  <2>8. QED
    BY <2>3, <2>4, <2>7 DEF c, u, v
<1>4. QED
  BY <1>2, <1>3 DEF size

LEMMA ShmBitAsAsked == ShmBitInv => S!Exact
<1>1. SUFFICES ASSUME ShmBitInv PROVE S!Exact
  OBVIOUS
<1> DEFINE w == WordBits
           size == S!size_in_ints
<1>2. /\ w \in Nat \ {0} /\ size_in_bits \in Nat /\ size \in Nat \ {0}
      /\ HoldsBits(bits, size, w, 0, size * w - 1, ones)
      /\ ones \subseteq 0..size_in_bits - 1 /\ shm_n = Cardinality(ones)
      /\ \A b \in 0..size_in_bits - 1 :
           /\ b \in 0..(size * w - 1) /\ WordOf(b, w, 0) \in 0..(size - 1)
           /\ b \div w = WordOf(b, w, 0) /\ b % w = BitOf(b, w, 0)
  BY <1>1, WordInShmList DEF ShmBitInv
<1> DEFINE high == size * w - 1
<1> HIDE DEF size, high
<1>3. ASSUME NEW b \in 0..size_in_bits - 1
      PROVE  S!get_bit_value(b) <=> b \in ones
  <2>1. b \in 0..high /\ WordOf(b, w, 0) \in 0..(size - 1)
    BY <1>2 DEF high
  <2>0. HoldsBits(bits, size, w, 0, high, ones)
    BY <1>2 DEF high
  <2>2. BitOf(b, w, 0) \in bits[WordOf(b, w, 0)] <=> b \in ones
    BY <2>0, <2>1, BitRead, ZenonT(30)
  <2>3. QED
    BY <1>2, <2>2 DEF S!get_bit_value
<1>4. Ascends(WalkOf(bits, size, w), ones)
  BY <1>2, NoBitSpare, WalkAscends
<1>5. ones \subseteq Nat /\ IsFiniteSet(ones)
  <2>1. IsFiniteSet(0..size_in_bits - 1)
    <3>1. 0 \in Int /\ size_in_bits - 1 \in Int
      BY <1>2
    <3>2. QED
      BY <3>1, FS_Interval
  <2>2. ones \subseteq Nat
    BY <1>2
  <2>3. QED
    BY <1>2, <2>1, <2>2, FS_Subset
<1>6. Ascends(AscendingOf(ones), ones)
  BY <1>5, AscendingIs
<1>7. /\ WalkOf(bits, size, w) = AscendingOf(ones)
      /\ Len(AscendingOf(ones)) = Cardinality(ones) /\ Cardinality(ones) \in Nat
  BY <1>4, <1>6, AscendsUniquely, AscendsAll
<1>8. ASSUME NEW howmany \in 1..size_in_bits
      PROVE  S!shm_bitlist_collect_ones(howmany) =
               SubSeq(S!Ascending(ones), 1,
                      S!Min({howmany, S!Cardinality(ones)}))
  <2> DEFINE walk == AscendingOf(ones)
             k == Cardinality(ones)
  <2>1. S!FlattenSeq([i \in 1..size |->
             LET positions == S!Ascending(bits[i - 1])
             IN [j \in DOMAIN positions |-> (i - 1) * w + positions[j]]]) = walk
    BY <1>7, ShmBitsOfModel DEF WalkOf
  <2>2. S!shm_bitlist_collect_ones(howmany) =
          IF k <= 0 THEN <<>>
          ELSE SubSeq(walk, 1, Min({howmany, k, Len(walk)}))
    BY <1>2, <2>1, ShmBitsOfModel DEF S!shm_bitlist_collect_ones, size
  <2>3. {howmany, k, Len(walk)} = {howmany, k}
    BY <1>7
  <2>4. Len(walk) = k /\ k \in Nat /\ walk \in Seq(Nat)
    BY <1>6, <1>7 DEF Ascends
  <2>5. S!Min({howmany, S!Cardinality(ones)}) = Min({howmany, k})
    BY ShmBitsOfModel, Zenon
  <2>6. S!Ascending(ones) = walk
    BY ShmBitsOfModel, Zenon
  <2> HIDE DEF walk, k
  <2>7. CASE k = 0
    <3>1. SubSeq(walk, 1, Min({howmany, k})) = <<>>
      <4>1. Min({howmany, k}) = 0
        <5>1. \A x \in {howmany, k} : 0 <= x /\ 0 \in {howmany, k}
          BY <2>7
        <5>2. QED
          BY <2>7, <5>1 DEF Min
      <4>2. QED
        BY <4>1, <2>4, SubSeqProperties
    <3>2. k <= 0
      BY <2>7
    <3>3. QED
      BY <2>2, <3>1, <3>2, <2>5, <2>6, Zenon
  <2>8. CASE k # 0
    <3>1. ~(k <= 0)
      BY <2>4, <2>8
    <3>2. QED
      BY <2>2, <2>3, <3>1, <2>5, <2>6, Zenon
  <2>9. QED
    BY <2>7, <2>8
<1>9. QED
  BY <1>2, <1>3, <1>8, ShmBitsOfModel DEF S!Exact

LEMMA NoBitYet ==
  ASSUME WordBits \in Nat \ {0}, size_in_bits \in Nat
  PROVE  HoldsBits([i \in 0..(S!size_in_ints - 1) |-> {}], S!size_in_ints,
                   WordBits, 0, S!size_in_ints * WordBits - 1, {})
<1>1. S!size_in_ints \in Nat /\ S!size_in_ints * WordBits - 1 \in Int
  BY WordInShmList
<1>2. QED
  BY <1>1 DEF HoldsBits

LEMMA ShmBitBegins ==
  ASSUME S!ConstantsOK
  PROVE  S!Init => ShmBitInv
<1>1. SUFFICES ASSUME S!Init PROVE ShmBitInv
  OBVIOUS
<1>2. size_in_bits \in Nat /\ WordBits \in Nat \ {0}
  BY <1>1 DEF S!Init, S!ConstantsOK
<1>3. /\ bits = [i \in 0..(S!size_in_ints - 1) |-> {}]
      /\ shm_n = 0 /\ ones = {}
  BY <1>1 DEF S!Init
<1>4. Cardinality({}) = 0
  BY FS_EmptySet
<1>5. QED
  BY <1>2, <1>3, <1>4, NoBitYet DEF ShmBitInv

LEMMA ShmBitStep == ShmBitInv /\ [S!Next]_shmBitVars => ShmBitInv'
<1>1. CASE UNCHANGED shmBitVars
  BY <1>1 DEF shmBitVars, ShmBitInv, S!size_in_ints
<1>2. SUFFICES ASSUME ShmBitInv, S!Next PROVE ShmBitInv'
  BY <1>1
<1> DEFINE w == WordBits
           size == S!size_in_ints
           high == size * w - 1
<1>3. /\ w \in Nat \ {0} /\ size_in_bits \in Nat /\ size \in Nat \ {0}
      /\ HoldsBits(bits, size, w, 0, high, ones)
      /\ DOMAIN bits = 0..(size - 1)
      /\ ones \subseteq 0..size_in_bits - 1 /\ shm_n = Cardinality(ones)
      /\ \A b \in 0..size_in_bits - 1 :
           /\ b \in 0..high /\ WordOf(b, w, 0) \in 0..(size - 1)
           /\ b \div w = WordOf(b, w, 0) /\ b % w = BitOf(b, w, 0)
  BY <1>2, WordInShmList DEF ShmBitInv
<1>4. size_in_bits' = size_in_bits /\ size' = size
  BY <1>2 DEF S!Next, S!shm_bitlist_reset, S!shm_bitlist_set_bit,
              S!shm_bitlist_clear_bit, S!size_in_ints
<1>5. CASE S!shm_bitlist_reset
  <2>1. bits' = [i \in 0..(size - 1) |-> {}] /\ shm_n' = 0 /\ ones' = {}
    BY <1>3, <1>5 DEF S!shm_bitlist_reset
  <2>2. HoldsBits([i \in 0..(size - 1) |-> {}], size, w, 0, high, {})
    BY <1>3, NoBitYet
  <2>3. Cardinality({}) = 0
    BY FS_EmptySet
  <2> HIDE DEF size
  <2>4. QED
    BY <1>3, <1>4, <2>1, <2>2, <2>3 DEF ShmBitInv, size
<1>6. ASSUME NEW b \in -1..size_in_bits,
             S!shm_bitlist_set_bit(b) \/ S!shm_bitlist_clear_bit(b)
      PROVE  ShmBitInv'
  <2>1. b \in 0..size_in_bits - 1
    BY <1>3, <1>6 DEF S!shm_bitlist_set_bit, S!shm_bitlist_clear_bit, S!InRange
  <2> DEFINE u == WordOf(b, w, 0)
             v == BitOf(b, w, 0)
  <2>2. b \in 0..high /\ u \in 0..(size - 1) /\ b \div w = u /\ b % w = v
    BY <1>3, <2>1
  <2> HIDE DEF size, high
  <2>3. v \in bits[u] <=> b \in ones
    BY <1>3, <2>2, BitRead, ZenonT(30)
  <2>4. /\ HoldsBits(BitOn(bits, u, v), size, w, 0, high, ones \cup {b})
        /\ HoldsBits(BitOff(bits, u, v), size, w, 0, high, ones \ {b})
    BY <1>3, <2>2, BitWritten, Zenon
  <2> HIDE DEF u, v
  <2>5. S!get_bit_value(b) <=> b \in ones
    BY <2>2, <2>3 DEF S!get_bit_value
  <2>6. IsFiniteSet(ones) /\ Cardinality(ones) \in Nat
    <3>1. 0 \in Int /\ size_in_bits - 1 \in Int
      BY <1>3
    <3>2. IsFiniteSet(0..size_in_bits - 1)
      BY <3>1, FS_Interval
    <3>3. QED
      BY <1>3, <3>2, FS_Subset, FS_CardinalityType
  <2>7. CASE S!shm_bitlist_set_bit(b)
    <3>1. /\ bits' = BitOn(bits, u, v)
          /\ shm_n' = IF b \in ones THEN shm_n ELSE shm_n + 1
          /\ ones' = ones \cup {b}
      BY <2>2, <2>5, <2>7 DEF S!shm_bitlist_set_bit, BitOn
    <3>2. Cardinality(ones \cup {b}) =
            IF b \in ones THEN Cardinality(ones) ELSE Cardinality(ones) + 1
      BY <2>6, FS_AddElement
    <3>3. shm_n' = Cardinality(ones') /\ ones' \subseteq 0..size_in_bits - 1
      BY <1>3, <2>1, <3>1, <3>2
    <3>4. DOMAIN bits' = 0..(size - 1)
      BY <1>3, <3>1 DEF BitOn
    <3>5. QED
      BY <1>3, <1>4, <2>4, <3>1, <3>3, <3>4 DEF ShmBitInv, size, high
  <2>8. CASE S!shm_bitlist_clear_bit(b)
    <3>1. /\ bits' = BitOff(bits, u, v)
          /\ shm_n' = IF b \in ones THEN shm_n - 1 ELSE shm_n
          /\ ones' = ones \ {b}
      BY <2>2, <2>5, <2>8 DEF S!shm_bitlist_clear_bit, BitOff
    <3>2. Cardinality(ones \ {b}) =
            IF b \in ones THEN Cardinality(ones) - 1 ELSE Cardinality(ones)
      BY <2>6, FS_RemoveElement
    <3>3. shm_n' = Cardinality(ones') /\ ones' \subseteq 0..size_in_bits - 1
      BY <1>3, <3>1, <3>2
    <3>4. DOMAIN bits' = 0..(size - 1)
      BY <1>3, <3>1 DEF BitOff
    <3>5. QED
      BY <1>3, <1>4, <2>4, <3>1, <3>3, <3>4 DEF ShmBitInv, size, high
  <2>9. QED
    BY <1>6, <2>7, <2>8
<1>7. QED
  BY <1>2, <1>5, <1>6 DEF S!Next
=============================================================================
