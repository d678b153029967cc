----------------------------- MODULE DataLemmas -----------------------------
(***************************************************************************)
(* What the operations that the models use on lists do to the set of the   *)
(* elements of a list, and to a list that has each of them once; the least *)
(* element of a set of numbers; induction on a set of numbers, and, by it, *)
(* sums over finite sets, what a parser finds, and the way to a node of a  *)
(* trie; numbers as bits of words, and ascending lists of numbers; a walk  *)
(* over the nodes of a trie that keeps its place in counters at the nodes. *)
(***************************************************************************)
EXTENDS Integers, SequencesExt, SequenceTheorems, FiniteSetTheorems,
        WellFoundedInduction, TLAPS

\* The elements of a list of S are in S.
LEMMA ElementsTyped ==
  ASSUME NEW S, NEW s \in Seq(S)
  PROVE  ToSet(s) \subseteq S
BY DEF ToSet

\* The empty list.
LEMMA ElementsOfEmpty ==
  /\ ToSet(<<>>) = {}
  /\ IsInjective(<<>>)
BY DEF ToSet, IsInjective

\* Only the empty list has no element.
LEMMA EmptyElements ==
  ASSUME NEW S, NEW s \in Seq(S), ToSet(s) = {}
  PROVE  s = <<>>
<1>1. s # <<>> => 1 \in DOMAIN s
  OBVIOUS
<1>2. QED
  BY <1>1 DEF ToSet

\* A list is its head and the rest.
LEMMA ElementsOfTail ==
  ASSUME NEW S, NEW s \in Seq(S), s # <<>>
  PROVE  /\ Head(s) \in S /\ Tail(s) \in Seq(S)
         /\ Head(s) \in ToSet(s)
         /\ ToSet(s) = {Head(s)} \cup ToSet(Tail(s))
         /\ IsInjective(s) =>
              IsInjective(Tail(s)) /\ Head(s) \notin ToSet(Tail(s))
<1>1. /\ Head(s) \in S /\ Tail(s) \in Seq(S)
      /\ Len(Tail(s)) = Len(s) - 1
      /\ \A i \in 1..(Len(s) - 1) : Tail(s)[i] = s[i + 1]
      /\ Head(s) = s[1] /\ Len(s) \in Nat \ {0}
      /\ DOMAIN s = 1..Len(s) /\ DOMAIN Tail(s) = 1..(Len(s) - 1)
  BY HeadTailProperties, EmptySeq, LenProperties
<1>2. ToSet(s) = {Head(s)} \cup ToSet(Tail(s))
  <2>1. ASSUME NEW i \in 1..Len(s)
        PROVE  s[i] \in {Head(s)} \cup ToSet(Tail(s))
    <3>1. CASE i = 1
      BY <1>1, <3>1
    <3>2. CASE i # 1
      <4>1. i - 1 \in 1..(Len(s) - 1) /\ Tail(s)[i - 1] = s[i]
        BY <1>1, <3>2
      <4>2. QED
        BY <1>1, <4>1 DEF ToSet
    <3>3. QED
      BY <3>1, <3>2
  <2>2. ASSUME NEW i \in 1..(Len(s) - 1)
        PROVE  Tail(s)[i] \in ToSet(s)
    <3>1. i + 1 \in 1..Len(s) /\ Tail(s)[i] = s[i + 1]
      BY <1>1
    <3>2. QED
      BY <1>1, <3>1 DEF ToSet
  <2>3. Head(s) \in ToSet(s)
    BY <1>1 DEF ToSet
  <2>4. QED
    BY <1>1, <2>1, <2>2, <2>3 DEF ToSet
<1>3. ASSUME IsInjective(s)
      PROVE  IsInjective(Tail(s)) /\ Head(s) \notin ToSet(Tail(s))
  <2>1. ASSUME NEW i \in 1..(Len(s) - 1), NEW j \in 1..(Len(s) - 1),
               Tail(s)[i] = Tail(s)[j]
        PROVE  i = j
    <3>1. i + 1 \in 1..Len(s) /\ j + 1 \in 1..Len(s) /\ s[i + 1] = s[j + 1]
      BY <1>1, <2>1
    <3>2. i + 1 = j + 1
      BY <1>1, <1>3, <3>1 DEF IsInjective
    <3>3. QED
      BY <3>2
  <2>2. ASSUME NEW i \in 1..(Len(s) - 1)
        PROVE  Tail(s)[i] # Head(s)
    <3>1. i + 1 \in 1..Len(s) /\ 1 \in 1..Len(s) /\ i + 1 # 1
      BY <1>1
    <3>2. s[i + 1] # s[1]
      BY <1>1, <1>3, <3>1 DEF IsInjective
    <3>3. QED
      BY <1>1, <3>2
  <2>3. QED
    BY <1>1, <2>1, <2>2 DEF IsInjective, ToSet
<1>4. QED
  BY <1>1, <1>2, <1>3

\* Two lists, one after the other.
LEMMA ElementsOfConcat ==
  ASSUME NEW S, NEW s \in Seq(S), NEW t \in Seq(S)
  PROVE  /\ s \o t \in Seq(S)
         /\ ToSet(s \o t) = ToSet(s) \cup ToSet(t)
         /\ IsInjective(s) /\ IsInjective(t) /\ ToSet(s) \cap ToSet(t) = {}
              => IsInjective(s \o t)
<1> DEFINE u == s \o t
           m == Len(s)
           k == Len(t)
<1>1. /\ u \in Seq(S) /\ m \in Nat /\ k \in Nat
      /\ DOMAIN s = 1..m /\ DOMAIN t = 1..k /\ DOMAIN u = 1..(m + k)
      /\ \A i \in 1..m : u[i] = s[i]
      /\ \A i \in (m + 1)..(m + k) : i - m \in 1..k /\ u[i] = t[i - m]
  <2>1. /\ u \in Seq(S) /\ Len(u) = m + k /\ m \in Nat /\ k \in Nat
        /\ \A i \in 1..(m + k) : u[i] = IF i <= m THEN s[i] ELSE t[i - m]
    BY ConcatProperties, LenProperties
  <2>2. DOMAIN s = 1..m /\ DOMAIN t = 1..k /\ DOMAIN u = 1..(m + k)
    BY <2>1, LenProperties
  <2>3. QED
    BY <2>1, <2>2
<1> HIDE DEF u, m, k
<1>2. ToSet(u) = ToSet(s) \cup ToSet(t)
  <2>1. ASSUME NEW i \in 1..(m + k)
        PROVE  u[i] \in ToSet(s) \cup ToSet(t)
    <3>1. CASE i <= m
      <4>1. i \in 1..m /\ u[i] = s[i]
        BY <1>1, <3>1
      <4>2. QED
        BY <1>1, <4>1 DEF ToSet
    <3>2. CASE i > m
      <4>1. i - m \in 1..k /\ u[i] = t[i - m]
        BY <1>1, <3>2
      <4>2. QED
        BY <1>1, <4>1 DEF ToSet
    <3>3. QED
      BY <1>1, <3>1, <3>2
  <2>2. ASSUME NEW i \in 1..m
        PROVE  s[i] \in ToSet(u)
    <3>1. i \in 1..(m + k) /\ u[i] = s[i]
      BY <1>1
    <3>2. QED
      BY <1>1, <3>1 DEF ToSet
  <2>3. ASSUME NEW i \in 1..k
        PROVE  t[i] \in ToSet(u)
    <3>1. i + m \in (m + 1)..(m + k) /\ i + m \in 1..(m + k) /\ (i + m) - m = i
      BY <1>1
    <3>2. u[i + m] = t[i]
      BY <1>1, <3>1
    <3>3. QED
      BY <1>1, <3>1, <3>2 DEF ToSet
  <2>4. QED
    BY <1>1, <2>1, <2>2, <2>3, ZenonT(60) DEF ToSet
<1>3. ASSUME IsInjective(s), IsInjective(t), ToSet(s) \cap ToSet(t) = {}
      PROVE  IsInjective(u)
  <2>1. SUFFICES ASSUME NEW i \in 1..(m + k), NEW j \in 1..(m + k), u[i] = u[j]
                 PROVE  i = j
    BY <1>1 DEF IsInjective
  <2>2. ASSUME NEW a \in 1..m, NEW b \in (m + 1)..(m + k)
        PROVE  u[a] # u[b]
    <3>1. u[a] = s[a] /\ b - m \in 1..k /\ u[b] = t[b - m]
      BY <1>1
    <3>2. u[a] \in ToSet(s) /\ u[b] \in ToSet(t)
      BY <1>1, <3>1 DEF ToSet
    <3>3. QED
      BY <1>3, <3>2
  <2>3. CASE i <= m /\ j <= m
    <3>1. i \in 1..m /\ j \in 1..m /\ s[i] = s[j]
      BY <1>1, <2>1, <2>3
    <3>2. QED
      BY <1>1, <1>3, <3>1 DEF IsInjective
  <2>4. CASE i > m /\ j > m
    <3>1. i - m \in 1..k /\ j - m \in 1..k /\ t[i - m] = t[j - m]
      BY <1>1, <2>1, <2>4
    <3>2. i - m = j - m
      BY <1>1, <1>3, <3>1 DEF IsInjective
    <3>3. QED
      BY <1>1, <3>2
  <2>5. QED
    BY <1>1, <2>1, <2>2, <2>3, <2>4
<1>4. QED
  BY <1>1, <1>2, <1>3 DEF u

\* A new head.
LEMMA ElementsOfPush ==
  ASSUME NEW S, NEW s \in Seq(S), NEW x \in S
  PROVE  /\ <<x>> \o s \in Seq(S)
         /\ ToSet(<<x>> \o s) = {x} \cup ToSet(s)
         /\ IsInjective(s) /\ x \notin ToSet(s) => IsInjective(<<x>> \o s)
<1>1. <<x>> \in Seq(S) /\ ToSet(<<x>>) = {x} /\ IsInjective(<<x>>)
  <2>1. <<x>> \in Seq(S) /\ DOMAIN <<x>> = {1} /\ <<x>>[1] = x
    OBVIOUS
  <2>2. QED
    BY <2>1 DEF ToSet, IsInjective
<1> DEFINE one == <<x>>
<1> HIDE DEF one
<1>2. /\ one \o s \in Seq(S)
      /\ ToSet(one \o s) = ToSet(one) \cup ToSet(s)
      /\ IsInjective(one) /\ IsInjective(s) /\ ToSet(one) \cap ToSet(s) = {}
           => IsInjective(one \o s)
  <2>1. one \in Seq(S)
    BY <1>1 DEF one
  <2>2. QED
    BY <2>1, ElementsOfConcat
<1>3. ToSet(one) = {x} /\ IsInjective(one)
  BY <1>1 DEF one
<1>4. x \notin ToSet(s) => ToSet(one) \cap ToSet(s) = {}
  BY <1>3
<1>5. /\ one \o s \in Seq(S)
      /\ ToSet(one \o s) = {x} \cup ToSet(s)
      /\ IsInjective(s) /\ x \notin ToSet(s) => IsInjective(one \o s)
  BY <1>2, <1>3, <1>4, Zenon
<1>6. QED
  BY <1>5 DEF one

\* An element put in before position i, what follows moved right.
LEMMA Inserted ==
  ASSUME NEW S, NEW s \in Seq(S), NEW i \in 1..(Len(s) + 1), NEW x \in S
  PROVE  /\ InsertAt(s, i, x) \in Seq(S)
         /\ Len(InsertAt(s, i, x)) = Len(s) + 1
         /\ \A j \in 1..(Len(s) + 1) :
              InsertAt(s, i, x)[j] = IF j < i THEN s[j]
                                     ELSE IF j = i THEN x ELSE s[j - 1]
         /\ ToSet(InsertAt(s, i, x)) = ToSet(s) \cup {x}
<1> DEFINE m == Len(s)
           a == SubSeq(s, 1, i - 1)
           b == SubSeq(s, i, m)
           one == <<x>>
           u == (a \o one) \o b
<1>1. m \in Nat /\ DOMAIN s = 1..m
  BY LenProperties
<1>2. /\ a \in Seq(S) /\ Len(a) = i - 1
      /\ \A j \in 1..(i - 1) : a[j] = s[j]
  BY <1>1, SubSeqProperties
<1>3. /\ b \in Seq(S) /\ Len(b) = m - i + 1
      /\ \A j \in 1..(m - i + 1) : b[j] = s[i + j - 1]
  BY <1>1, SubSeqProperties
<1>4. one \in Seq(S) /\ Len(one) = 1 /\ one[1] = x
  OBVIOUS
<1> HIDE DEF m, a, b, one, u
<1>5. /\ a \o one \in Seq(S) /\ Len(a \o one) = i
      /\ \A j \in 1..i : (a \o one)[j] = IF j < i THEN s[j] ELSE x
  <2>1. /\ a \o one \in Seq(S) /\ Len(a \o one) = Len(a) + Len(one)
        /\ \A j \in 1..(Len(a) + Len(one)) :
             (a \o one)[j] = IF j <= Len(a) THEN a[j] ELSE one[j - Len(a)]
    BY <1>2, <1>4, ConcatProperties
  <2>2. i \in Nat /\ i - 1 \in Nat /\ (i - 1) + 1 = i /\ i - (i - 1) = 1
    BY <1>1
  <2>3. QED
    BY <1>2, <1>4, <2>1, <2>2, SMTT(30)
<1>6. /\ u \in Seq(S) /\ Len(u) = m + 1 /\ DOMAIN u = 1..(m + 1)
      /\ \A j \in 1..(m + 1) :
           u[j] = IF j < i THEN s[j] ELSE IF j = i THEN x ELSE s[j - 1]
  <2> DEFINE c == a \o one
  <2> HIDE DEF c
  <2>1. /\ c \o b \in Seq(S) /\ Len(c \o b) = Len(c) + Len(b)
        /\ \A j \in 1..(Len(c) + Len(b)) :
             (c \o b)[j] = IF j <= Len(c) THEN c[j] ELSE b[j - Len(c)]
    <3>1. c \in Seq(S) /\ b \in Seq(S)
      BY <1>3, <1>5 DEF c
    <3>2. QED
      BY <3>1, ConcatProperties
  <2>2. /\ Len(c) = i /\ i \in 1..(m + 1)
        /\ \A j \in 1..i : c[j] = IF j < i THEN s[j] ELSE x
    BY <1>5 DEF c, m
  <2>3. ASSUME NEW j \in 1..(m + 1)
        PROVE  (c \o b)[j]
                 = IF j < i THEN s[j] ELSE IF j = i THEN x ELSE s[j - 1]
    <3>1. CASE j <= i
      <4>1. /\ j \in 1..i /\ j \in 1..(Len(c) + Len(b)) /\ j <= Len(c)
            /\ j < i \/ (j = i /\ ~(j < i))
        BY <1>1, <1>3, <2>2, <3>1
      <4>2. (c \o b)[j] = c[j]
        BY <2>1, <4>1
      <4>3. QED
        BY <2>2, <4>1, <4>2
    <3>2. CASE j > i
      <4>1. j - i \in 1..(m - i + 1) /\ i + (j - i) - 1 = j - 1
        BY <1>1, <2>2, <3>2
      <4>2. (c \o b)[j] = b[j - i]
        BY <1>1, <1>3, <2>1, <2>2, <3>2, SMTT(30)
      <4>3. b[j - i] = s[j - 1] /\ ~(j < i) /\ j # i
        BY <1>1, <1>3, <2>2, <3>2, <4>1
      <4>4. QED
        BY <4>2, <4>3
    <3>3. j <= i \/ j > i
      BY <1>1, <2>2
    <3>4. QED
      BY <3>1, <3>2, <3>3
  <2>4. u = c \o b
    BY DEF u, c
  <2>5. u \in Seq(S) /\ Len(u) = m + 1
    BY <1>1, <1>3, <2>1, <2>2, <2>4
  <2>6. DOMAIN u = 1..(m + 1)
    BY <2>5, LenProperties
  <2>7. QED
    BY <2>3, <2>4, <2>5, <2>6
<1>7. ToSet(u) = ToSet(s) \cup {x}
  <2>1. DOMAIN u = 1..(m + 1) /\ i \in 1..(m + 1)
    BY <1>6 DEF m
  <2>2. ASSUME NEW j \in 1..(m + 1)
        PROVE  u[j] \in ToSet(s) \cup {x}
    <3>1. j < i => j \in 1..m
      BY <1>1, <2>1
    <3>2. j > i => j - 1 \in 1..m
      BY <1>1, <2>1
    <3>3. j < i \/ j = i \/ j > i
      BY <1>1, <2>1
    <3>4. QED
      BY <1>1, <1>6, <2>1, <3>1, <3>2, <3>3 DEF ToSet
  <2>3. ASSUME NEW j \in 1..m
        PROVE  s[j] \in ToSet(u)
    <3>1. CASE j < i
      <4>1. j \in 1..(m + 1) /\ u[j] = s[j]
        BY <1>1, <1>6, <3>1
      <4>2. QED
        BY <2>1, <4>1 DEF ToSet
    <3>2. CASE j >= i
      <4>1. j + 1 \in 1..(m + 1) /\ (j + 1) - 1 = j /\ ~(j + 1 < i) /\ j + 1 # i
        BY <1>1, <2>1, <3>2
      <4>2. u[j + 1] = s[j]
        BY <1>6, <4>1
      <4>3. QED
        BY <2>1, <4>1, <4>2 DEF ToSet
    <3>3. QED
      BY <1>1, <2>1, <3>1, <3>2
  <2>4. u[i] = x
    BY <1>6, <2>1
  <2>5. x \in ToSet(u)
    BY <2>1, <2>4 DEF ToSet
  <2>6. QED
    BY <1>1, <2>1, <2>2, <2>3, <2>5 DEF ToSet
<1>8. InsertAt(s, i, x) = u
  BY DEF InsertAt, u, a, b, one, m
<1>9. QED
  BY <1>6, <1>7, <1>8 DEF m

\* The element at position i taken out, what follows pulled left.
LEMMA Removed ==
  ASSUME NEW S, NEW s \in Seq(S), NEW i \in 1..Len(s)
  PROVE  /\ RemoveAt(s, i) \in Seq(S)
         /\ Len(RemoveAt(s, i)) = Len(s) - 1
         /\ \A j \in 1..(Len(s) - 1) :
              RemoveAt(s, i)[j] = IF j < i THEN s[j] ELSE s[j + 1]
         /\ ToSet(RemoveAt(s, i)) = {s[j] : j \in (1..Len(s)) \ {i}}
<1> DEFINE m == Len(s)
           a == SubSeq(s, 1, i - 1)
           b == SubSeq(s, i + 1, m)
<1>1. m \in Nat /\ i \in 1..m
  BY LenProperties
<1>2. /\ a \in Seq(S) /\ Len(a) = i - 1
      /\ \A j \in 1..(i - 1) : a[j] = s[j]
  BY <1>1, SubSeqProperties
<1>3. /\ b \in Seq(S) /\ Len(b) = m - i
      /\ \A j \in 1..(m - i) : b[j] = s[i + j]
  <2>1. /\ b \in Seq(S)
        /\ Len(b) = IF i + 1 <= m THEN m - (i + 1) + 1 ELSE 0
        /\ \A j \in 1..(m - (i + 1) + 1) : b[j] = s[(i + 1) + j - 1]
    BY <1>1, SubSeqProperties
  <2>2. /\ m - (i + 1) + 1 = m - i
        /\ (IF i + 1 <= m THEN m - (i + 1) + 1 ELSE 0) = m - i
    BY <1>1
  <2>3. ASSUME NEW j \in 1..(m - i)
        PROVE  b[j] = s[i + j]
    <3>1. (i + 1) + j - 1 = i + j
      BY <1>1
    <3>2. b[j] = s[(i + 1) + j - 1]
      BY <2>1, <2>2, Zenon
    <3>3. QED
      BY <3>1, <3>2
  <2>4. b \in Seq(S) /\ Len(b) = m - i
    BY <2>1, <2>2, Zenon
  <2>5. QED
    BY <2>3, <2>4
<1> HIDE DEF m, a, b
<1>4. /\ a \o b \in Seq(S) /\ Len(a \o b) = Len(a) + Len(b)
      /\ \A j \in 1..(Len(a) + Len(b)) :
           (a \o b)[j] = IF j <= Len(a) THEN a[j] ELSE b[j - Len(a)]
  BY <1>2, <1>3, ConcatProperties
<1>5. ASSUME NEW j \in 1..(m - 1)
      PROVE  (a \o b)[j] = IF j < i THEN s[j] ELSE s[j + 1]
  <2>1. CASE j < i
    <3>1. j \in 1..(i - 1) /\ j <= Len(a) /\ j \in 1..(Len(a) + Len(b))
      BY <1>1, <1>2, <1>3, <2>1
    <3>2. QED
      BY <1>2, <1>4, <2>1, <3>1
  <2>2. CASE j >= i
    <3>1. /\ ~(j <= Len(a)) /\ j \in 1..(Len(a) + Len(b)) /\ ~(j < i)
          /\ j - Len(a) \in 1..(m - i) /\ i + (j - Len(a)) = j + 1
      BY <1>1, <1>2, <1>3, <2>2
    <3>2. QED
      BY <1>3, <1>4, <3>1
  <2>3. j < i \/ (j >= i /\ ~(j < i))
    BY <1>1
  <2>4. QED
    BY <2>1, <2>2, <2>3
<1>6. RemoveAt(s, i) = a \o b
  BY DEF RemoveAt, a, b, m
<1> DEFINE u == a \o b
<1>7. u \in Seq(S) /\ Len(u) = m - 1 /\ DOMAIN u = 1..(m - 1)
  <2>1. u \in Seq(S) /\ Len(u) = m - 1
    BY <1>1, <1>2, <1>3, <1>4
  <2>2. QED
    BY <2>1, LenProperties
<1>8. \A j \in 1..(m - 1) : u[j] = IF j < i THEN s[j] ELSE s[j + 1]
  BY <1>5
<1> HIDE DEF u
<1>9. ToSet(u) = {s[j] : j \in (1..m) \ {i}}
  <2>1. ASSUME NEW j \in 1..(m - 1)
        PROVE  \E k \in (1..m) \ {i} : u[j] = s[k]
    <3>1. CASE j < i
      <4>1. j \in (1..m) \ {i} /\ u[j] = s[j]
        BY <1>1, <1>8, <3>1
      <4>2. QED
        BY <4>1
    <3>2. CASE ~(j < i)
      <4>1. j + 1 \in (1..m) \ {i} /\ u[j] = s[j + 1]
        BY <1>1, <1>8, <3>2
      <4>2. QED
        BY <4>1
    <3>3. QED
      BY <3>1, <3>2
  <2>2. ASSUME NEW k \in (1..m) \ {i}
        PROVE  \E j \in 1..(m - 1) : s[k] = u[j]
    <3>1. CASE k < i
      <4>1. k \in 1..(m - 1) /\ u[k] = s[k]
        BY <1>1, <1>8, <3>1
      <4>2. QED
        BY <4>1
    <3>2. CASE k > i
      <4>1. k - 1 \in 1..(m - 1) /\ ~(k - 1 < i) /\ (k - 1) + 1 = k
        BY <1>1, <3>2
      <4>2. u[k - 1] = s[k]
        BY <1>8, <4>1
      <4>3. QED
        BY <4>1, <4>2
    <3>3. k < i \/ k > i
      BY <1>1
    <3>4. QED
      BY <3>1, <3>2, <3>3
  <2>3. ToSet(u) = {u[j] : j \in 1..(m - 1)}
    BY <1>7 DEF ToSet
  <2>4. ToSet(u) \subseteq {s[j] : j \in (1..m) \ {i}}
    BY <2>1, <2>3
  <2>5. {s[j] : j \in (1..m) \ {i}} \subseteq ToSet(u)
    BY <2>2, <2>3
  <2>6. QED
    BY <2>4, <2>5
<1>10. RemoveAt(s, i) = u
  BY <1>6 DEF u
<1>11. QED
  BY <1>7, <1>8, <1>9, <1>10 DEF m

\* An element put in before the first one, and after the last one.
LEMMA InsertedAtEnds ==
  ASSUME NEW S, NEW s \in Seq(S), NEW x \in S
  PROVE  /\ InsertAt(s, 1, x) = <<x>> \o s
         /\ InsertAt(s, Len(s) + 1, x) = Append(s, x)
<1> DEFINE m == Len(s)
           a == InsertAt(s, 1, x)
           b == InsertAt(s, m + 1, x)
           c == <<x>> \o s
           d == Append(s, x)
<1>1. m \in Nat
  OBVIOUS
<1>2. /\ a \in Seq(S) /\ Len(a) = m + 1
      /\ \A j \in 1..(m + 1) : a[j] = IF j = 1 THEN x ELSE s[j - 1]
  <2>1. /\ InsertAt(s, 1, x) \in Seq(S) /\ Len(InsertAt(s, 1, x)) = Len(s) + 1
        /\ \A j \in 1..(Len(s) + 1) :
             InsertAt(s, 1, x)[j] = IF j < 1 THEN s[j]
                                    ELSE IF j = 1 THEN x ELSE s[j - 1]
    <3>1. 1 \in 1..(Len(s) + 1)
      BY <1>1
    <3>2. QED
      BY <3>1, Inserted
  <2>2. \A j \in 1..(m + 1) : ~(j < 1)
    BY <1>1
  <2>3. QED
    BY <2>1, <2>2
<1>3. /\ b \in Seq(S) /\ Len(b) = m + 1
      /\ \A j \in 1..(m + 1) : b[j] = IF j < m + 1 THEN s[j] ELSE x
  <2>1. ASSUME NEW k \in 1..(Len(s) + 1), k = m + 1
        PROVE  /\ b \in Seq(S) /\ Len(b) = m + 1
               /\ \A j \in 1..(m + 1) :
                    b[j] = IF j < m + 1 THEN s[j] ELSE IF j = m + 1 THEN x ELSE s[j - 1]
    <3>1. /\ InsertAt(s, k, x) \in Seq(S) /\ Len(InsertAt(s, k, x)) = Len(s) + 1
          /\ \A j \in 1..(Len(s) + 1) :
               InsertAt(s, k, x)[j] = IF j < k THEN s[j]
                                      ELSE IF j = k THEN x ELSE s[j - 1]
      BY Inserted
    <3>2. QED
      BY <2>1, <3>1, Zenon
  <2>2. \A j \in 1..(m + 1) : j < m + 1 \/ j = m + 1
    BY <1>1
  <2>3. m + 1 \in 1..(Len(s) + 1)
    BY <1>1
  <2>4. QED
    BY <2>1, <2>2, <2>3
<1>4. /\ c \in Seq(S) /\ Len(c) = m + 1
      /\ \A j \in 1..(m + 1) : c[j] = IF j = 1 THEN x ELSE s[j - 1]
  <2>1. <<x>> \in Seq(S) /\ Len(<<x>>) = 1 /\ <<x>>[1] = x
    OBVIOUS
  <2>2. QED
    BY <1>1, <2>1, ConcatProperties
<1>5. /\ d \in Seq(S) /\ Len(d) = m + 1
      /\ \A j \in 1..(m + 1) : d[j] = IF j < m + 1 THEN s[j] ELSE x
  BY <1>1, AppendProperties
<1> HIDE DEF a, b, c, d, m
<1>6. a = c
  BY <1>1, <1>2, <1>4, SeqEqual
<1>7. b = d
  BY <1>1, <1>3, <1>5, SeqEqual
<1>8. QED
  BY <1>6, <1>7 DEF a, b, c, d, m

\* A list that has each of its elements once still does after one that it had
\* not was put in, and after one was taken out.
LEMMA InsertedOnce ==
  ASSUME NEW S, NEW s \in Seq(S), IsInjective(s), NEW i \in 1..(Len(s) + 1),
         NEW x \in S, x \notin ToSet(s)
  PROVE  IsInjective(InsertAt(s, i, x))
<1> DEFINE q == InsertAt(s, i, x)
           m == Len(s)
           from(j) == IF j < i THEN j ELSE j - 1
<1>1. /\ InsertAt(s, i, x) \in Seq(S)
      /\ Len(InsertAt(s, i, x)) = Len(s) + 1
      /\ \A j \in 1..(Len(s) + 1) :
           InsertAt(s, i, x)[j] = IF j < i THEN s[j]
                                  ELSE IF j = i THEN x ELSE s[j - 1]
  BY Inserted
<1>2. /\ q \in Seq(S) /\ DOMAIN q = 1..(m + 1)
      /\ \A j \in 1..(m + 1) :
           q[j] = IF j < i THEN s[j] ELSE IF j = i THEN x ELSE s[j - 1]
  BY <1>1
<1>3. m \in Nat /\ i \in 1..(m + 1) /\ \A j \in 1..m : s[j] # x
  BY DEF ToSet
<1>4. \A a, b \in 1..m : s[a] = s[b] => a = b
  BY DEF IsInjective
<1> HIDE DEF q, m
<1>a. \A j \in 1..(m + 1) : j # i => from(j) \in 1..m /\ q[j] = s[from(j)]
  BY <1>2, <1>3
<1>b. \A j \in 1..(m + 1), k \in 1..(m + 1) :
        j # i /\ k # i /\ from(j) = from(k) => j = k
  BY <1>3
<1> HIDE DEF from
<1>5. SUFFICES ASSUME NEW j \in 1..(m + 1), NEW k \in 1..(m + 1), q[j] = q[k]
               PROVE  j = k
  <2>1. IsInjective(q)
    BY <1>2, <1>5 DEF IsInjective
  <2>2. QED
    BY <2>1 DEF q
<1>6. CASE j = i \/ k = i
  <2>1. \A a \in 1..(m + 1) : a # i => q[a] # x
    BY <1>3, <1>a
  <2>2. q[i] = x
    BY <1>2, <1>3
  <2>3. QED
    BY <1>5, <1>6, <2>1, <2>2
<1>7. CASE j # i /\ k # i
  BY <1>4, <1>5, <1>7, <1>a, <1>b
<1>8. QED
  BY <1>6, <1>7

LEMMA RemovedOnce ==
  ASSUME NEW S, NEW s \in Seq(S), IsInjective(s), NEW i \in 1..Len(s)
  PROVE  /\ IsInjective(RemoveAt(s, i))
         /\ ToSet(RemoveAt(s, i)) = ToSet(s) \ {s[i]}
<1> DEFINE q == RemoveAt(s, i)
           m == Len(s)
           from(j) == IF j < i THEN j ELSE j + 1
<1>1. /\ RemoveAt(s, i) \in Seq(S)
      /\ Len(RemoveAt(s, i)) = Len(s) - 1
      /\ \A j \in 1..(Len(s) - 1) :
           RemoveAt(s, i)[j] = IF j < i THEN s[j] ELSE s[j + 1]
      /\ ToSet(RemoveAt(s, i)) = {s[j] : j \in (1..Len(s)) \ {i}}
  BY Removed
<1>2. /\ q \in Seq(S) /\ DOMAIN q = 1..(m - 1)
      /\ \A j \in 1..(m - 1) : q[j] = IF j < i THEN s[j] ELSE s[j + 1]
      /\ ToSet(q) = {s[j] : j \in (1..m) \ {i}}
  BY <1>1
<1>3. m \in Nat /\ i \in 1..m /\ ToSet(s) = {s[j] : j \in 1..m}
  BY DEF ToSet
<1>4. \A a, b \in 1..m : s[a] = s[b] => a = b
  BY DEF IsInjective
<1> HIDE DEF q, m
<1>a. \A j \in 1..(m - 1) : from(j) \in 1..m /\ q[j] = s[from(j)]
  BY <1>2, <1>3
<1>b. \A j \in 1..(m - 1), k \in 1..(m - 1) : from(j) = from(k) => j = k
  BY <1>3
<1> HIDE DEF from
<1>5. IsInjective(q)
  <2>1. ASSUME NEW j \in 1..(m - 1), NEW k \in 1..(m - 1), q[j] = q[k]
        PROVE  j = k
    BY <1>4, <1>a, <1>b, <2>1
  <2>2. QED
    BY <1>2, <2>1 DEF IsInjective
<1>6. ToSet(q) = ToSet(s) \ {s[i]}
  BY <1>2, <1>3, <1>4
<1>7. QED
  BY <1>5, <1>6 DEF q

\* A list that has each of its elements once is no longer than there are
\* elements.
LEMMA DistinctBounded ==
  ASSUME NEW S, IsFiniteSet(S), NEW s \in Seq(S), IsInjective(s)
  PROVE  Len(s) <= Cardinality(S)
<1>1. s \in Injection(1..Len(s), S)
  BY DEF IsInjective, Injection, IsInjective
<1>2. Cardinality(1..Len(s)) <= Cardinality(S)
  BY <1>1, FS_Injection
<1>3. Len(s) \in Nat
  OBVIOUS
<1>4. Cardinality(1..Len(s)) = Len(s)
  <2>1. Cardinality(1..Len(s)) = IF 1 > Len(s) THEN 0 ELSE Len(s) - 1 + 1
    BY FS_Interval
  <2>2. QED
    BY <1>3, <2>1
<1>5. QED
  BY <1>2, <1>4

\* The element at position i replaced.
LEMMA Replaced ==
  ASSUME NEW S, NEW s \in Seq(S), NEW i \in 1..Len(s), NEW x \in S
  PROVE  /\ [s EXCEPT ![i] = x] \in Seq(S)
         /\ Len([s EXCEPT ![i] = x]) = Len(s)
         /\ \A j \in 1..Len(s) :
              [s EXCEPT ![i] = x][j] = IF j = i THEN x ELSE s[j]
         /\ ToSet([s EXCEPT ![i] = x]) = {s[j] : j \in (1..Len(s)) \ {i}} \cup {x}
<1> DEFINE u == [s EXCEPT ![i] = x]
<1>1. /\ u \in Seq(S) /\ Len(u) = Len(s)
      /\ \A j \in 1..Len(s) : u[j] = IF j = i THEN x ELSE s[j]
  BY ExceptSeq
<1> HIDE DEF u
<1>2. DOMAIN u = 1..Len(s)
  BY <1>1, LenProperties
<1>3. ToSet(u) = {s[j] : j \in (1..Len(s)) \ {i}} \cup {x}
  BY <1>1, <1>2 DEF ToSet
<1>4. QED
  BY <1>1, <1>3 DEF u
-----------------------------------------------------------------------------
\* A set of naturals that is not empty has a least element, which is what Min
\* returns: the order of the sets 1..x is that of strict inclusion.
LEMMA LeastOf ==
  ASSUME NEW T, T \subseteq Nat, T # {}
  PROVE  /\ Min(T) \in T
         /\ \A y \in T : Min(T) <= y
<1> DEFINE C == {1..x : x \in T}
           R == StrictSubsetOrdering(Nat)
           F == FiniteSubsetsOf(Nat)
<1>1. C \subseteq F
  <2>1. \A x \in T : 1..x \in SUBSET Nat /\ IsFiniteSet(1..x)
    BY FS_Interval
  <2>2. QED
    BY <2>1 DEF FiniteSubsetsOf
<1>2. C # {}
  OBVIOUS
<1>3. IsWellFoundedOn(R, F)
  BY FS_StrictSubsetOrderingWellFounded
<1>4. \E c \in C : \A d \in C : ~(<<d, c>> \in R)
  <2> HIDE DEF C, R, F
  <2>1. QED
    BY <1>1, <1>2, <1>3, WFMin
<1>5. PICK x \in T : \A d \in C : ~(<<d, 1..x>> \in R)
  BY <1>4
<1>6. ASSUME NEW y \in T, y < x
      PROVE  FALSE
  <2>1. x \in 1..x /\ x \notin 1..y
    BY <1>6
  <2>2. <<1..y, 1..x>> \in R
    BY <1>6, <2>1 DEF StrictSubsetOrdering
  <2>3. QED
    BY <1>5, <2>2
<1>7. \E z \in T : \A y \in T : z <= y
  BY <1>6
<1>8. QED
  BY <1>7 DEF Min

-----------------------------------------------------------------------------
\* A set of naturals with 0, and with each number's successor, has them all.
LEMMA Inductive ==
  ASSUME NEW T, T \subseteq Nat, 0 \in T, \A n \in T : n + 1 \in T
  PROVE  T = Nat
<1> DEFINE C == Nat \ T
<1>1. SUFFICES ASSUME C # {} PROVE FALSE
  OBVIOUS
<1>2. PICK n \in C : \A m \in C : n <= m
  <2>1. Min(C) \in C /\ \A m \in C : Min(C) <= m
    <3> HIDE DEF C
    <3>1. C \subseteq Nat
      BY DEF C
    <3>2. QED
      BY <1>1, <3>1, LeastOf
  <2>2. QED
    BY <2>1
<1>3. n # 0 /\ n \in Nat
  OBVIOUS
<1>4. n - 1 \in T
  BY <1>2, <1>3
<1>5. QED
  BY <1>3, <1>4

-----------------------------------------------------------------------------
(***************************************************************************)
(* Sums over finite sets.  f gives the sum of w over each set of arguments *)
(* of w, taken in the order of CHOOSE.                                     *)
(***************************************************************************)
One(s) == CHOOSE x \in s : TRUE
SumsAre(f, w) ==
  f = [s \in SUBSET DOMAIN w |->
         IF s = {} THEN 0 ELSE w[One(s)] + f[s \ {One(s)}]]
Total(w) == (CHOOSE f : SumsAre(f, w))[DOMAIN w]
Summable(w) == IsFiniteSet(DOMAIN w) /\ \A x \in DOMAIN w : w[x] \in Int

LEMMA OneIn == ASSUME NEW s, s # {} PROVE One(s) \in s
BY DEF One

\* There is such an f.
LEMMA SumsExist ==
  ASSUME NEW w, Summable(w)
  PROVE  \E f : SumsAre(f, w)
<1> DEFINE D == SUBSET DOMAIN w
           step(f) == [s \in D |-> IF s = {} THEN 0 ELSE w[One(s)] + f[s \ {One(s)}]]
           upto(f, n) == /\ f = [s \in D |-> f[s]]
                         /\ \A s \in D : Cardinality(s) < n => f[s] = step(f)[s]
           T == {n \in Nat : \E f : upto(f, n)}
<1>1. \A s \in D : IsFiniteSet(s) /\ Cardinality(s) \in Nat
  BY FS_Subset, FS_CardinalityType DEF Summable
<1>2. \A s \in D : s # {} => /\ s \ {One(s)} \in D
                             /\ Cardinality(s \ {One(s)}) = Cardinality(s) - 1
  BY <1>1, OneIn, FS_RemoveElement
<1>3. 0 \in T
  <2>1. upto([s \in D |-> 0], 0)
    BY <1>1
  <2>2. QED
    BY <2>1
<1>4. ASSUME NEW n \in T PROVE n + 1 \in T
  <2>1. PICK f : upto(f, n)
    OBVIOUS
  <2> DEFINE g == step(f)
  <2>2. g = [s \in D |-> g[s]]
    OBVIOUS
  <2>3. ASSUME NEW s \in D, Cardinality(s) < n + 1
        PROVE  g[s] = step(g)[s]
    <3>1. CASE s = {}
      BY <3>1
    <3>2. CASE s # {}
      <4> DEFINE r == s \ {One(s)}
      <4>1. r \in D /\ Cardinality(r) < n
        <5>1. n \in Nat
          OBVIOUS
        <5>2. QED
          BY <1>1, <1>2, <2>3, <3>2, <5>1
      <4>2. f[r] = g[r]
        BY <2>1, <4>1
      <4> HIDE DEF r
      <4>3. g[s] = w[One(s)] + f[r] /\ step(g)[s] = w[One(s)] + g[r]
        BY <3>2 DEF r
      <4>4. QED
        BY <4>2, <4>3
    <3>3. QED
      BY <3>1, <3>2
  <2>4. upto(g, n + 1)
    BY <2>2, <2>3
  <2> HIDE DEF g, upto
  <2>5. QED
    BY <2>4
<1>5. T = Nat
  <2> HIDE DEF upto
  <2>1. T \subseteq Nat
    OBVIOUS
  <2> HIDE DEF T
  <2>2. QED
    BY <1>3, <1>4, <2>1, Inductive
<1>6. PICK f : upto(f, Cardinality(DOMAIN w) + 1)
  <2>1. Cardinality(DOMAIN w) + 1 \in Nat
    BY <1>1
  <2> HIDE DEF upto
  <2>2. Cardinality(DOMAIN w) + 1 \in T
    <3> HIDE DEF T
    <3>1. QED
      BY <1>5, <2>1
  <2>3. QED
    BY <2>2
<1>7. \A s \in D : f[s] = step(f)[s]
  <2>1. \A s \in D : Cardinality(s) <= Cardinality(DOMAIN w)
    BY FS_Subset DEF Summable
  <2>2. \A s \in D : Cardinality(s) < Cardinality(DOMAIN w) + 1
    BY <1>1, <2>1
  <2>3. QED
    BY <1>6, <2>2
<1>8. QED
  BY <1>6, <1>7 DEF SumsAre

\* The sum is the same whatever is left to the last.
LEMMA SumsSplit ==
  ASSUME NEW w, Summable(w), NEW f, SumsAre(f, w)
  PROVE  \A s \in SUBSET DOMAIN w :
           /\ f[s] \in Int
           /\ \A x \in s : f[s] = w[x] + f[s \ {x}]
<1> DEFINE D == SUBSET DOMAIN w
           good(s) == f[s] \in Int /\ \A x \in s : f[s] = w[x] + f[s \ {x}]
           T == {n \in Nat : \A s \in D : Cardinality(s) <= n => good(s)}
<1>1. \A s \in D : IsFiniteSet(s) /\ Cardinality(s) \in Nat
  BY FS_Subset, FS_CardinalityType DEF Summable
<1>2. \A s \in D : \A x \in s : /\ s \ {x} \in D
                                /\ Cardinality(s \ {x}) = Cardinality(s) - 1
  BY <1>1, FS_RemoveElement, Zenon
<1>3. /\ f[{}] = 0
      /\ \A s \in D : s # {} => f[s] = w[One(s)] + f[s \ {One(s)}]
  BY DEF SumsAre
<1>4. 0 \in T
  <2>1. \A s \in D : Cardinality(s) <= 0 => s = {}
    BY <1>1, FS_EmptySet
  <2>2. QED
    BY <1>3, <2>1
<1>5. ASSUME NEW n \in T PROVE n + 1 \in T
  <2>0. SUFFICES ASSUME NEW s \in D, Cardinality(s) <= n + 1 PROVE good(s)
    OBVIOUS
  <2>1. SUFFICES ASSUME s # {} PROVE good(s)
    <3>1. good({})
      BY <1>3
    <3>2. QED
      BY <3>1
  <2> DEFINE c == One(s)
  <2>2. c \in s
    BY <2>1, OneIn
  <2>3. n \in Nat /\ \A t \in D : Cardinality(t) <= n => good(t)
    OBVIOUS
  <2>4. \A x \in s : s \ {x} \in D /\ good(s \ {x})
    BY <1>1, <1>2, <2>0, <2>1, <2>3
  <2> HIDE DEF c
  <2>5. f[s] = w[c] + f[s \ {c}] /\ w[c] \in Int /\ f[s \ {c}] \in Int
    BY <1>3, <2>1, <2>2, <2>4 DEF c, Summable
  <2>6. ASSUME NEW x \in s PROVE f[s] = w[x] + f[s \ {x}]
    <3>1. CASE x = c
      BY <2>5, <3>1
    <3>2. CASE x # c
      <4>1. f[s \ {c}] = w[x] + f[(s \ {c}) \ {x}]
        BY <2>2, <2>4, <3>2
      <4>2. f[s \ {x}] = w[c] + f[(s \ {x}) \ {c}]
        BY <2>2, <2>4, <3>2
      <4>3. (s \ {c}) \ {x} = (s \ {x}) \ {c}
        OBVIOUS
      <4>4. f[(s \ {x}) \ {c}] \in Int /\ w[x] \in Int
        <5>1. c \in s \ {x} /\ good(s \ {x})
          BY <2>2, <2>4, <3>2
        <5>2. (s \ {x}) \ {c} \in D /\ s \ {x} \in D
          OBVIOUS
        <5>3. Cardinality((s \ {x}) \ {c}) <= n
          <6>1. /\ Cardinality(s \ {x}) = Cardinality(s) - 1
                /\ Cardinality((s \ {x}) \ {c}) = Cardinality(s \ {x}) - 1
            BY <1>2, <5>1, <5>2
          <6>2. QED
            BY <1>1, <2>0, <2>3, <5>2, <6>1
        <5>4. QED
          BY <2>3, <5>2, <5>3 DEF Summable
      <4>5. f[s \ {c}] = w[x] + f[(s \ {x}) \ {c}]
        BY <4>1, <4>3
      <4> DEFINE a == f[s \ {x}]
                 b == f[s \ {c}]
                 d == f[(s \ {x}) \ {c}]
      <4>6. /\ b = w[x] + d /\ a = w[c] + d /\ f[s] = w[c] + b
            /\ d \in Int /\ w[x] \in Int /\ w[c] \in Int
        BY <2>5, <4>2, <4>4, <4>5
      <4> HIDE DEF a, b, d
      <4>7. f[s] = w[x] + a
        BY <4>6
      <4>8. QED
        BY <4>7 DEF a
    <3>3. QED
      BY <3>1, <3>2
  <2>7. f[s] \in Int
    BY <2>5
  <2>8. QED
    BY <2>6, <2>7
<1>6. T = Nat
  <2> HIDE DEF good
  <2>1. T \subseteq Nat
    OBVIOUS
  <2> HIDE DEF T
  <2>2. QED
    BY <1>4, <1>5, <2>1, Inductive
<1>7. QED
  <2>1. ASSUME NEW s \in D PROVE good(s)
    <3>1. Cardinality(s) \in T
      BY <1>1, <1>6
    <3> HIDE DEF good
    <3>2. QED
      BY <1>1, <3>1
  <2>2. QED
    BY <2>1

\* What is summed does not depend on what else w is defined for.
LEMMA SumsAgree ==
  ASSUME NEW w, NEW v, Summable(w), NEW f, SumsAre(f, w), NEW g, SumsAre(g, v),
         DOMAIN v \subseteq DOMAIN w, \A x \in DOMAIN v : v[x] = w[x]
  PROVE  \A s \in SUBSET DOMAIN v : f[s] = g[s]
<1> DEFINE D == SUBSET DOMAIN v
           T == {n \in Nat : \A s \in D : Cardinality(s) <= n => f[s] = g[s]}
<1>1. \A s \in D : IsFiniteSet(s) /\ Cardinality(s) \in Nat
  BY FS_Subset, FS_CardinalityType DEF Summable
<1>2. \A s \in D : s # {} => /\ s \ {One(s)} \in D /\ One(s) \in DOMAIN v
                             /\ Cardinality(s \ {One(s)}) = Cardinality(s) - 1
  BY <1>1, OneIn, FS_RemoveElement
<1>3. /\ f[{}] = 0 /\ g[{}] = 0
      /\ \A s \in D : s # {} => /\ f[s] = w[One(s)] + f[s \ {One(s)}]
                                /\ g[s] = v[One(s)] + g[s \ {One(s)}]
  BY DEF SumsAre
<1>4. 0 \in T
  <2>1. \A s \in D : Cardinality(s) <= 0 => s = {}
    BY <1>1, FS_EmptySet
  <2>2. QED
    BY <1>3, <2>1
<1>5. ASSUME NEW n \in T PROVE n + 1 \in T
  <2>0. SUFFICES ASSUME NEW s \in D, Cardinality(s) <= n + 1 PROVE f[s] = g[s]
    OBVIOUS
  <2>1. SUFFICES ASSUME s # {} PROVE f[s] = g[s]
    BY <1>3
  <2>2. f[s \ {One(s)}] = g[s \ {One(s)}]
    BY <1>1, <1>2, <2>0, <2>1
  <2>3. QED
    BY <1>2, <1>3, <2>1, <2>2
<1>6. T = Nat
  <2>1. T \subseteq Nat
    OBVIOUS
  <2> HIDE DEF T
  <2>2. QED
    BY <1>4, <1>5, <2>1, Inductive
<1>7. QED
  <2>1. ASSUME NEW s \in D PROVE f[s] = g[s]
    <3>1. Cardinality(s) \in T
      BY <1>1, <1>6
    <3>2. QED
      BY <1>1, <3>1
  <2>2. QED
    BY <2>1

\* A sum of integers is one; nothing sums up to 0.
LEMMA TotalInt ==
  ASSUME NEW w, Summable(w)
  PROVE  /\ SumsAre(CHOOSE f : SumsAre(f, w), w)
         /\ Total(w) \in Int
         /\ DOMAIN w = {} => Total(w) = 0
<1> DEFINE f == CHOOSE f : SumsAre(f, w)
<1>1. SumsAre(f, w)
  BY SumsExist
<1> HIDE DEF f
<1>2. \A s \in SUBSET DOMAIN w : f[s] \in Int
  BY <1>1, SumsSplit
<1>3. f[{}] = 0
  BY <1>1 DEF SumsAre
<1>4. QED
  BY <1>1, <1>2, <1>3 DEF f, Total

\* The sum without one of its members.
LEMMA TotalWithout ==
  ASSUME NEW w, Summable(w), NEW x \in DOMAIN w,
         NEW v, DOMAIN v = DOMAIN w \ {x}, \A y \in DOMAIN v : v[y] = w[y]
  PROVE  /\ Summable(v)
         /\ Total(w) = w[x] + Total(v)
<1>1. Summable(v)
  BY FS_RemoveElement DEF Summable
<1> DEFINE f == CHOOSE f : SumsAre(f, w)
           g == CHOOSE g : SumsAre(g, v)
<1>2. SumsAre(f, w) /\ SumsAre(g, v)
  BY <1>1, SumsExist
<1>3. Total(w) = f[DOMAIN w] /\ Total(v) = g[DOMAIN v]
  BY DEF Total
<1> HIDE DEF f, g
<1>4. f[DOMAIN w] = w[x] + f[DOMAIN w \ {x}]
  BY <1>2, SumsSplit
<1>5. f[DOMAIN v] = g[DOMAIN v]
  BY <1>2, SumsAgree
<1>6. QED
  BY <1>1, <1>3, <1>4, <1>5

\* The sum with one more.
LEMMA TotalWith ==
  ASSUME NEW w, Summable(w), NEW x, x \notin DOMAIN w,
         NEW v, DOMAIN v = DOMAIN w \cup {x}, v[x] \in Int,
         \A y \in DOMAIN w : v[y] = w[y]
  PROVE  Total(v) = v[x] + Total(w)
<1>1. Summable(v)
  BY FS_AddElement DEF Summable
<1>2. x \in DOMAIN v /\ DOMAIN w = DOMAIN v \ {x}
  OBVIOUS
<1>3. \A y \in DOMAIN w : w[y] = v[y]
  OBVIOUS
<1>4. QED
  <2>1. /\ Summable(v) /\ x \in DOMAIN v
        /\ DOMAIN w = DOMAIN v \ {x} /\ \A y \in DOMAIN w : w[y] = v[y]
    BY <1>1, <1>2, <1>3, Zenon
  <2>2. QED
    BY <2>1, TotalWithout

-----------------------------------------------------------------------------
(***************************************************************************)
(* Triples of type, length and value that stand in the cells of a buffer   *)
(* one behind the other, at the offsets off, and then an end type of -1;   *)
(* and what a parser of such a buffer finds.                               *)
(***************************************************************************)
EndType == -1
Triples(longest) == {z \in Nat \X Seq(Int) : Len(z[2]) \in 1..longest}

StandAt(cells, written, off) ==
  LET n == Len(written) IN
  /\ off \in [1..n + 1 -> Nat] /\ off[1] = 0
  /\ \A i \in 1..n :
       /\ off[i + 1] = off[i] + 2 + Len(written[i][2])
       /\ cells[off[i] + 1] = written[i][1]
       /\ cells[off[i] + 2] = Len(written[i][2])
       /\ \A j \in 1..Len(written[i][2]) :
            cells[off[i] + 2 + j] = written[i][2][j]
  /\ \A i, j \in 1..n + 1 : i <= j => off[i] + (j - i) <= off[j]

Offsets(cells, written, off) ==
  LET end == off[Len(written) + 1] IN
  StandAt(cells, written, off) /\ end < Len(cells) /\ cells[end + 1] = EndType

\* A parse that gets to cell end, counted from 0, stops there.
EndsWith(cells, longest, end, rc) ==
  /\ end < Len(cells)
  /\ \/ /\ cells[end + 1] = EndType
        /\ rc = IF end = Len(cells) - 1 THEN "ENOSPC" ELSE "ok"
     \/ /\ end + 2 < Len(cells) /\ cells[end + 1] # EndType
        /\ cells[end + 2] \notin 1..longest /\ rc = "EINVAL"

CanParse(cells, longest, written, off, rc) ==
  /\ cells \in Seq(Int) /\ longest \in Nat
  /\ written \in Seq(Triples(longest)) /\ StandAt(cells, written, off)
  /\ EndsWith(cells, longest, off[Len(written) + 1], rc)

StopAt(rc, p) == [rc |-> rc, at |-> p, found |-> <<>>]
ValueIn(cells, p, length) == SubSeq(cells, p + 1, Min({p + length, Len(cells)}))

\* One call of the parser, with f for the calls that it makes.
ParseTurn(cells, longest, f, p, mem) ==
  IF p >= Len(cells) THEN StopAt("ok", p)
  ELSE IF p + 1 >= Len(cells) THEN StopAt("ENOSPC", p)
  ELSE IF cells[p + 1] = EndType THEN StopAt("ok", p)
  ELSE IF p + 2 >= Len(cells) THEN StopAt("ENOSPC", p)
  ELSE IF cells[p + 2] \notin 1..longest THEN StopAt("EINVAL", p)
  ELSE IF mem = 0 THEN StopAt("ENOMEM", p)
  ELSE [f[<<p + 2 + cells[p + 2], mem - 1>>] EXCEPT !.found =
          <<<<cells[p + 1], ValueIn(cells, p + 2, cells[p + 2])>>>> \o @]
Starts(cells, longest) == 0..(2 * Len(cells) + longest)
Room(cells) == 0..Len(cells)
Parses(cells, longest, f) ==
  f = [from \in Starts(cells, longest) \X Room(cells) |->
         ParseTurn(cells, longest, f, from[1], from[2])]
Parser(cells, longest) == CHOOSE f : Parses(cells, longest, f)

\* The calls that a call makes have a place and room, and less than its own.
SameBelow(cells, longest, f, g, mem) ==
  \A q \in Starts(cells, longest) : mem > 0 => f[<<q, mem - 1>>] = g[<<q, mem - 1>>]

LEMMA TurnsDescend ==
  ASSUME NEW cells \in Seq(Int), NEW longest \in Nat,
         NEW p \in Starts(cells, longest), NEW mem \in Room(cells), NEW f, NEW g,
         SameBelow(cells, longest, f, g, mem)
  PROVE  ParseTurn(cells, longest, f, p, mem) = ParseTurn(cells, longest, g, p, mem)
<1>1. Len(cells) \in Nat
  OBVIOUS
<1>2. ASSUME ~(p >= Len(cells)), cells[p + 2] \in 1..longest, mem # 0
      PROVE  f[<<p + 2 + cells[p + 2], mem - 1>>] = g[<<p + 2 + cells[p + 2], mem - 1>>]
  <2> DEFINE size == Len(cells)
             length == cells[p + 2]
  <2>a. /\ size \in Nat /\ p \in 0..(2 * size + longest) /\ ~(p >= size) /\ longest \in Nat
        /\ length \in 1..longest /\ mem \in 0..size /\ mem # 0
    BY <1>1, <1>2 DEF Starts, Room
  <2> HIDE DEF size, length
  <2>b. p + 2 + length \in 0..(2 * size + longest) /\ mem > 0
    <3>1. p \in Nat /\ p < size /\ length \in Nat /\ length <= longest
      BY <2>a
    <3>2. QED
      BY <2>a, <3>1
  <2>1. p + 2 + cells[p + 2] \in Starts(cells, longest) /\ mem > 0
    BY <2>b DEF Starts, size, length
  <2>2. QED
    BY <2>1 DEF SameBelow
<1> DEFINE there == f[<<p + 2 + cells[p + 2], mem - 1>>]
           here == g[<<p + 2 + cells[p + 2], mem - 1>>]
           Turn(rest) ==
             IF p >= Len(cells) THEN StopAt("ok", p)
             ELSE IF p + 1 >= Len(cells) THEN StopAt("ENOSPC", p)
             ELSE IF cells[p + 1] = EndType THEN StopAt("ok", p)
             ELSE IF p + 2 >= Len(cells) THEN StopAt("ENOSPC", p)
             ELSE IF cells[p + 2] \notin 1..longest THEN StopAt("EINVAL", p)
             ELSE IF mem = 0 THEN StopAt("ENOMEM", p)
             ELSE [rest EXCEPT !.found =
                     <<<<cells[p + 1], ValueIn(cells, p + 2, cells[p + 2])>>>> \o @]
<1>3. /\ ParseTurn(cells, longest, f, p, mem) = Turn(there)
      /\ ParseTurn(cells, longest, g, p, mem) = Turn(here)
  BY DEF ParseTurn
<1>4. Turn(there) = Turn(here)
  <2> HIDE DEF there, here
  <2>1. CASE there = here
    BY <2>1
  <2>2. CASE there # here
    BY <1>2, <2>2 DEF there, here
  <2>3. QED
    BY <2>1, <2>2
<1> HIDE DEF Turn
<1>5. QED
  BY <1>3, <1>4, Zenon

\* There is such a parser, and it is the one of the model.
LEMMA ParserIs ==
  ASSUME NEW cells \in Seq(Int), NEW longest \in Nat
  PROVE  \A p \in Starts(cells, longest), mem \in Room(cells) :
           Parser(cells, longest)[<<p, mem>>] =
             ParseTurn(cells, longest, Parser(cells, longest), p, mem)
<1> DEFINE D == Starts(cells, longest) \X Room(cells)
           step(f) == [from \in D |-> ParseTurn(cells, longest, f, from[1], from[2])]
           upto(f, n) ==
             /\ f = [from \in D |-> f[from]]
             /\ \A p \in Starts(cells, longest), mem \in Room(cells) :
                  mem < n => f[<<p, mem>>] = ParseTurn(cells, longest, f, p, mem)
           K == {n \in Nat : \E f : upto(f, n)}
<1>1. Len(cells) \in Nat
  OBVIOUS
<1>2. \A f : \A p \in Starts(cells, longest), mem \in Room(cells) :
        step(f)[<<p, mem>>] = ParseTurn(cells, longest, f, p, mem)
  <2>1. \A f : \A from \in D :
          step(f)[from] = ParseTurn(cells, longest, f, from[1], from[2])
    BY Zenon
  <2> HIDE DEF step
  <2>2. ASSUME NEW f, NEW p \in Starts(cells, longest), NEW mem \in Room(cells)
        PROVE  step(f)[<<p, mem>>] = ParseTurn(cells, longest, f, p, mem)
    <3>1. step(f)[<<p, mem>>] = ParseTurn(cells, longest, f, <<p, mem>>[1], <<p, mem>>[2])
      BY <2>1
    <3>2. <<p, mem>>[1] = p /\ <<p, mem>>[2] = mem
      OBVIOUS
    <3>3. QED
      BY <3>1, <3>2, Zenon
  <2>3. QED
    BY <2>2, Zenon
<1>3. 0 \in K
  <2>1. upto([from \in D |-> 0], 0)
    BY <1>1 DEF Room
  <2> HIDE DEF upto
  <2>2. QED
    BY <2>1
<1>4. ASSUME NEW n \in K PROVE n + 1 \in K
  <2>1. PICK f : upto(f, n)
    OBVIOUS
  <2> DEFINE g == step(f)
  <2>2. g = [from \in D |-> g[from]]
    OBVIOUS
  <2>3. ASSUME NEW p \in Starts(cells, longest), NEW mem \in Room(cells), mem < n + 1
        PROVE  g[<<p, mem>>] = ParseTurn(cells, longest, g, p, mem)
    <3>1. SameBelow(cells, longest, f, g, mem)
      <4>1. SUFFICES ASSUME NEW q \in Starts(cells, longest), mem > 0
                     PROVE  f[<<q, mem - 1>>] = g[<<q, mem - 1>>]
        BY DEF SameBelow
      <4>2. n \in Nat
        OBVIOUS
      <4>3. mem - 1 \in Room(cells) /\ mem - 1 < n
        BY <1>1, <2>3, <4>1, <4>2 DEF Room
      <4> HIDE DEF g, step
      <4>4. f[<<q, mem - 1>>] = ParseTurn(cells, longest, f, q, mem - 1)
        BY <2>1, <4>3
      <4>5. g[<<q, mem - 1>>] = ParseTurn(cells, longest, f, q, mem - 1)
        BY <1>2, <4>3 DEF g
      <4>6. QED
        BY <4>4, <4>5
    <3> HIDE DEF g, step
    <3>2. ParseTurn(cells, longest, f, p, mem) = ParseTurn(cells, longest, g, p, mem)
      BY <3>1, TurnsDescend
    <3>3. g[<<p, mem>>] = ParseTurn(cells, longest, f, p, mem)
      BY <1>2 DEF g
    <3>4. QED
      BY <3>2, <3>3
  <2> HIDE DEF g
  <2>4. upto(g, n + 1)
    BY <2>2, <2>3
  <2> HIDE DEF upto
  <2>5. QED
    BY <2>4
<1>5. K = Nat
  <2> HIDE DEF upto
  <2>1. K \subseteq Nat
    OBVIOUS
  <2> HIDE DEF K
  <2>2. QED
    BY <1>3, <1>4, <2>1, Inductive
<1>6. PICK f : upto(f, Len(cells) + 1)
  <2> HIDE DEF upto
  <2>1. Len(cells) + 1 \in Nat
    BY <1>1
  <2>2. Len(cells) + 1 \in K
    <3> HIDE DEF K
    <3>1. QED
      BY <1>5, <2>1
  <2>3. QED
    BY <2>2
<1>7. Parses(cells, longest, f)
  <2>1. \A p \in Starts(cells, longest), mem \in Room(cells) :
        f[<<p, mem>>] = ParseTurn(cells, longest, f, p, mem)
    <3>1. \A mem \in Room(cells) : mem < Len(cells) + 1
      BY <1>1 DEF Room
    <3>2. QED
      BY <1>6, <3>1, Zenon
  <2>2. \A from \in D : f[from] = ParseTurn(cells, longest, f, from[1], from[2])
    BY <2>1
  <2>3. QED
    BY <1>6, <2>2 DEF Parses
<1>9. Parses(cells, longest, Parser(cells, longest))
  BY <1>7, Zenon DEF Parser
<1>10. Parser(cells, longest) = step(Parser(cells, longest))
  BY <1>9, Zenon DEF Parses
<1> HIDE DEF step
<1>11. QED
  BY <1>2, <1>10, Zenon

-----------------------------------------------------------------------------
Results == [rc : {"ok", "ENOSPC", "EINVAL", "ENOMEM"}, at : Nat,
            found : Seq(Int \X Seq(Int))]

\* The value of one triple is a list of integers, and the value written where
\* the cells has that.
LEMMA ValueIs ==
  ASSUME NEW cells \in Seq(Int), NEW p \in Nat, NEW length \in Nat
  PROVE  /\ ValueIn(cells, p, length) \in Seq(Int)
         /\ p + length <= Len(cells) =>
              ValueIn(cells, p, length) = SubSeq(cells, p + 1, p + length)
<1> DEFINE m == Min({p + length, Len(cells)})
<1>1. Len(cells) = Len(cells) /\ Len(cells) \in Nat
  OBVIOUS
<1>2. m = IF p + length <= Len(cells) THEN p + length ELSE Len(cells)
  <2>1. Min({p + length, Len(cells)}) \in {p + length, Len(cells)}
        /\ \A y \in {p + length, Len(cells)} : Min({p + length, Len(cells)}) <= y
    <3> DEFINE D == {p + length, Len(cells)}
    <3>1. D \subseteq Nat /\ D # {}
      BY <1>1
    <3> HIDE DEF D
    <3>2. Min(D) \in D /\ \A y \in D : Min(D) <= y
      BY <3>1, LeastOf
    <3>3. QED
      BY <3>2 DEF D
  <2>2. m = Min({p + length, Len(cells)})
    BY DEF Min, Min
  <2>3. QED
    BY <1>1, <2>1, <2>2
<1> HIDE DEF m
<1>3. ValueIn(cells, p, length) = SubSeq(cells, p + 1, m)
  BY DEF ValueIn, m
<1>5. SubSeq(cells, p + 1, m) \in Seq(Int)
  BY <1>1, <1>2, SubSeqProperties
<1>6. QED
  BY <1>2, <1>3, <1>5

\* A parse stops at a cell, counted from 0, with an errno and some triples.
LEMMA ResultTyped ==
  ASSUME NEW cells \in Seq(Int), NEW longest \in Nat
  PROVE  \A p \in Starts(cells, longest), mem \in Room(cells) :
           Parser(cells, longest)[<<p, mem>>] \in Results
<1> DEFINE f == Parser(cells, longest)
           K == {n \in Nat : \A p \in Starts(cells, longest), mem \in Room(cells) :
                                mem < n => f[<<p, mem>>] \in Results}
<1>1. Len(cells) \in Nat /\ Len(cells) = Len(cells)
  OBVIOUS
<1>2. \A p \in Starts(cells, longest), mem \in Room(cells) :
        f[<<p, mem>>] = ParseTurn(cells, longest, f, p, mem)
  BY ParserIs, Zenon
<1> HIDE DEF f
<1>3. 0 \in K
  BY <1>1 DEF Room
<1>4. ASSUME NEW n \in K PROVE n + 1 \in K
  <2>0. n \in Nat
    OBVIOUS
  <2>1. SUFFICES ASSUME NEW p \in Starts(cells, longest),
                        NEW mem \in Room(cells), mem < n + 1
                 PROVE  ParseTurn(cells, longest, f, p, mem) \in Results
    BY <1>2, <2>0
  <2>2. p \in Nat /\ mem \in Nat
    BY <1>1 DEF Starts, Room
  <2>3. \A rc \in {"ok", "ENOSPC", "EINVAL", "ENOMEM"} : StopAt(rc, p) \in Results
    BY <2>2 DEF Results, StopAt
  <2>4. ASSUME ~(p >= Len(cells)), ~(p + 1 >= Len(cells)), ~(p + 2 >= Len(cells)),
               cells[p + 2] \in 1..longest, mem # 0
        PROVE  [f[<<p + 2 + cells[p + 2], mem - 1>>] EXCEPT !.found =
                  <<<<cells[p + 1], ValueIn(cells, p + 2, cells[p + 2])>>>> \o @] \in Results
    <3> DEFINE rest == f[<<p + 2 + cells[p + 2], mem - 1>>]
               triple == <<cells[p + 1], ValueIn(cells, p + 2, cells[p + 2])>>
    <3>1. p + 2 + cells[p + 2] \in Starts(cells, longest) /\ mem - 1 \in Room(cells) /\ mem - 1 < n
      <4>1. /\ Len(cells) \in Nat /\ p \in Nat /\ p < Len(cells) /\ longest \in Nat
            /\ cells[p + 2] \in 1..longest
        BY <1>1, <2>2, <2>4
      <4> HIDE DEF K, rest, triple
      <4>2. p + 2 + cells[p + 2] \in 0..(2 * Len(cells) + longest)
        <5> DEFINE size == Len(cells)
                   length == cells[p + 2]
        <5>1. size \in Nat /\ p \in Nat /\ p < size /\ longest \in Nat /\ length \in 1..longest
          BY <4>1
        <5>2. ~(p + 2 >= size)
          BY <2>4
        <5> HIDE DEF size, length
        <5>3. p + 2 + length \in 0..(2 * size + longest)
          BY <5>1, <5>2
        <5>4. QED
          BY <5>3 DEF size, length
      <4>3. mem - 1 \in 0..Len(cells) /\ mem - 1 < n
        <5>1. mem \in Nat /\ mem # 0 /\ mem <= Len(cells) /\ mem < n + 1 /\ n \in Nat
          BY <2>0, <2>1, <2>2, <2>4, <4>1 DEF Room
        <5>2. QED
          BY <4>1, <5>1
      <4>4. QED
        BY <4>2, <4>3 DEF Starts, Room
    <3>2. rest \in Results
      BY <3>1
    <3>3. triple \in Int \X Seq(Int)
      <4>1. cells[p + 1] \in Int /\ p + 2 \in Nat /\ cells[p + 2] \in Nat
        BY <1>1, <2>2, <2>4
      <4>2. QED
        BY <4>1, ValueIs
    <3> HIDE DEF rest, triple
    <3>4. rest.found \in Seq(Int \X Seq(Int))
      BY <3>2 DEF Results
    <3>5. <<triple>> \o rest.found \in Seq(Int \X Seq(Int))
      BY <3>3, <3>4
    <3>6. [rest EXCEPT !.found = <<triple>> \o @] \in Results
      BY <3>2, <3>5 DEF Results
    <3>7. QED
      BY <3>6 DEF rest, triple
  <2>5. QED
    BY <2>3, <2>4, Zenon DEF ParseTurn
<1>5. K = Nat
  <2>1. K \subseteq Nat
    OBVIOUS
  <2> HIDE DEF K
  <2>2. QED
    BY <1>3, <1>4, <2>1, Inductive
<1>6. Len(cells) + 1 \in K
  <2> HIDE DEF K
  <2>1. QED
    BY <1>1, <1>5
<1>7. \A mem \in Room(cells) : mem < Len(cells) + 1
  BY <1>1 DEF Room
<1>8. QED
  BY <1>6, <1>7, Zenon DEF f

\* A parse from the start finds the triples written and stops behind them.
LEMMA ParseFinds ==
  ASSUME NEW cells, NEW longest, NEW written, NEW off, NEW rc,
         CanParse(cells, longest, written, off, rc)
  PROVE  Parser(cells, longest)[<<0, Len(cells)>>] =
           [rc |-> rc, at |-> off[Len(written) + 1], found |-> written]
<1>0. /\ cells \in Seq(Int) /\ longest \in Nat
      /\ written \in Seq(Triples(longest)) /\ StandAt(cells, written, off)
      /\ EndsWith(cells, longest, off[Len(written) + 1], rc)
  BY DEF CanParse
<1> USE <1>0
<1> DEFINE f == Parser(cells, longest)
           n == Len(written)
           N == Len(cells)
           end == off[n + 1]
           Rest(j) == [i \in 1..j |-> written[n - j + i]]
           K == {j \in Nat : j <= n =>
                   \A mem \in Room(cells) : mem >= j =>
                     f[<<off[n + 1 - j], mem>>] = [rc |-> rc, at |-> end, found |-> Rest(j)]}
<1>1. /\ N = Len(cells) /\ N \in Nat /\ n \in Nat
      /\ \A i \in 1..n : /\ written[i] \in Triples(longest)
                         /\ written[i][1] \in Nat /\ written[i][2] \in Seq(Int)
                         /\ Len(written[i][2]) \in 1..longest
                         /\ written[i] = <<written[i][1], written[i][2]>>
  <2>1. \A z \in Triples(longest) :
          /\ z[1] \in Nat /\ z[2] \in Seq(Int)
          /\ Len(z[2]) \in 1..longest /\ z = <<z[1], z[2]>>
    BY DEF Triples
  <2>2. \A i \in 1..n : written[i] \in Triples(longest)
    OBVIOUS
  <2>3. N = Len(cells) /\ N \in Nat /\ n \in Nat
    OBVIOUS
  <2> HIDE DEF N, n
  <2>4. QED
    BY <2>1, <2>2, <2>3, Zenon
<1>2. /\ end \in Nat /\ end < N /\ off[1] = 0
      /\ \A i \in 1..n + 1 : off[i] \in Nat /\ off[i] + ((n + 1) - i) <= end
  <2>1. /\ off \in [1..n + 1 -> Nat] /\ off[1] = 0
        /\ end < N
        /\ \A i, j \in 1..n + 1 : i <= j => off[i] + (j - i) <= off[j]
    BY DEF EndsWith, StandAt
  <2>2. n + 1 \in 1..n + 1 /\ \A i \in 1..n + 1 : i <= n + 1
    BY <1>1
  <2>3. off[n + 1] \in Nat /\ \A i \in 1..n + 1 : off[i] \in Nat
    BY <2>1, <2>2
  <2>4. \A i \in 1..n + 1 : off[i] + ((n + 1) - i) <= off[n + 1]
    BY <2>1, <2>2, Zenon
  <2> HIDE DEF n, N
  <2>5. QED
    BY <2>1, <2>3, <2>4
<1>3. \A i \in 1..n :
       /\ off[i + 1] = off[i] + 2 + Len(written[i][2])
       /\ cells[off[i] + 1] = written[i][1]
       /\ cells[off[i] + 2] = Len(written[i][2])
       /\ \A j \in 1..Len(written[i][2]) :
            cells[off[i] + 2 + j] = written[i][2][j]
  BY DEF StandAt
<1>4. \A p \in Starts(cells, longest), mem \in Room(cells) :
        f[<<p, mem>>] = ParseTurn(cells, longest, f, p, mem)
  BY <1>1, ParserIs, Zenon
<1> HIDE DEF f, N, end, n
<1>5. ASSUME NEW i \in 1..n + 1
      PROVE  off[i] \in Starts(cells, longest) /\ off[i] < N /\ off[i] <= end
  <2>1. off[i] \in Nat /\ off[i] + ((n + 1) - i) <= end /\ i \in Nat /\ i <= n + 1
    <3>1. off[i] \in Nat /\ off[i] + ((n + 1) - i) <= end
      BY <1>2, Zenon
    <3>2. n \in Nat
      BY <1>1
    <3>3. QED
      BY <3>1, <3>2
  <2>a. n \in Nat /\ end \in Nat /\ end < N /\ N \in Nat /\ longest \in Nat
    BY <1>1, <1>2
  <2>2. off[i] <= end /\ off[i] < N
    BY <2>1, <2>a
  <2>b. off[i] \in 0..(2 * N + longest)
    BY <2>1, <2>2, <2>a
  <2>3. QED
    BY <2>2, <2>b DEF Starts, N
<1>6. 0 \in K
  <2>1. SUFFICES ASSUME NEW mem \in Room(cells)
                 PROVE  f[<<off[n + 1 - 0], mem>>] = [rc |-> rc, at |-> end, found |-> Rest(0)]
    OBVIOUS
  <2>2. n + 1 - 0 = n + 1 /\ off[n + 1] = end /\ end \in Starts(cells, longest)
    BY <1>1, <1>5 DEF end, n
  <2>3. f[<<end, mem>>] = ParseTurn(cells, longest, f, end, mem)
    BY <1>4, <2>2
  <2>4. ParseTurn(cells, longest, f, end, mem) = StopAt(rc, end)
    <3>1. /\ end + 1 >= N <=> end = N - 1
          /\ end + 2 < N => ~(end + 1 >= N) /\ ~(end + 2 >= N)
          /\ ~(end >= N)
      <4>1. end \in Nat /\ N \in Nat /\ end < N
        BY <1>1, <1>2
      <4>2. QED
        BY <4>1
    <3>2. \/ cells[end + 1] = EndType /\ rc = IF end = N - 1 THEN "ENOSPC" ELSE "ok"
          \/ /\ end + 2 < N /\ cells[end + 1] # EndType
             /\ cells[end + 2] \notin 1..longest /\ rc = "EINVAL"
      BY Zenon DEF EndsWith, N, end, n
    <3>3. QED
      BY <3>1, <3>2, Zenon DEF ParseTurn, N
  <2>5. Rest(0) = <<>>
    OBVIOUS
  <2>6. QED
    BY <2>2, <2>3, <2>4, <2>5 DEF StopAt
<1>7. ASSUME NEW j \in K PROVE j + 1 \in K
  <2>0. j \in Nat /\ j + 1 \in Nat
    OBVIOUS
  <2>1. SUFFICES ASSUME j + 1 <= n, NEW mem \in Room(cells), mem >= j + 1
                 PROVE  f[<<off[n + 1 - (j + 1)], mem>>] =
                          [rc |-> rc, at |-> end, found |-> Rest(j + 1)]
    BY <2>0, Zenon
  <2> DEFINE i == n - j
             p == off[i]
             length == Len(written[i][2])
  <2>2. /\ i \in 1..n /\ n + 1 - (j + 1) = i /\ i + 1 = n + 1 - j
        /\ mem - 1 \in Room(cells) /\ mem - 1 >= j /\ mem # 0
    BY <1>1, <2>0, <2>1 DEF Room, N
  <2>3. /\ written[i][2] \in Seq(Int) /\ written[i][1] \in Nat
        /\ length \in 1..longest /\ length \in Nat
        /\ written[i] = <<written[i][1], written[i][2]>>
    <3>1. i \in 1..n
      BY <2>2
    <3> HIDE DEF i
    <3>2. /\ written[i][2] \in Seq(Int) /\ written[i][1] \in Nat
          /\ length \in 1..longest /\ written[i] = <<written[i][1], written[i][2]>>
      BY <1>1, <3>1, Zenon
    <3>3. QED
      BY <3>2
  <2>4. /\ p \in Starts(cells, longest) /\ p \in Nat
        /\ off[i + 1] = p + 2 + length /\ cells[p + 1] = written[i][1]
        /\ cells[p + 2] = length
        /\ \A k \in 1..length : cells[p + 2 + k] = written[i][2][k]
        /\ off[i + 1] \in Nat /\ off[i + 1] <= end
    <3>1. i \in 1..n + 1 /\ i + 1 \in 1..n + 1 /\ i \in Int
      <4>1. i \in 1..n /\ n \in Nat
        BY <1>1, <2>2
      <4> HIDE DEF i
      <4>2. QED
        BY <4>1
    <3>2. p \in Nat /\ off[i + 1] \in Nat
      BY <1>2, <3>1
    <3>3. off[i + 1] <= end
      BY <1>5, <3>1
    <3>4. QED
      BY <1>3, <1>5, <2>2, <3>1, <3>2, <3>3
  <2> HIDE DEF i, p, length
  <2>5. f[<<p + 2 + length, mem - 1>>] = [rc |-> rc, at |-> end, found |-> Rest(j)]
    <3>1. \A m \in Room(cells) : m >= j =>
            f[<<off[n + 1 - j], m>>] = [rc |-> rc, at |-> end, found |-> Rest(j)]
      <4>1. j <= n
        BY <1>1, <2>0, <2>1
      <4>2. QED
        BY <4>1, Zenon
    <3>2. off[n + 1 - j] = p + 2 + length
      BY <2>2, <2>4
    <3>3. QED
      BY <2>2, <3>1, <3>2
  <2>6. ValueIn(cells, p + 2, length) = written[i][2]
    <3> DEFINE v == written[i][2]
               a == p + 3
               b == p + 2 + length
               u == SubSeq(cells, a, b)
    <3>1. /\ p \in Nat /\ length \in Nat /\ length >= 1 /\ p + 2 + length <= end
          /\ end \in Nat /\ end < N /\ N = Len(cells) /\ Len(cells) \in Nat
      BY <1>1, <1>2, <2>3, <2>4
    <3>2. /\ p + 2 \in Nat /\ (p + 2) + length <= Len(cells)
          /\ a = (p + 2) + 1 /\ b = (p + 2) + length /\ a \in Int /\ b \in Int
          /\ a >= 1 /\ b <= Len(cells) /\ a <= b /\ b - a + 1 = length
          /\ \A k \in 1..length : a + k - 1 = p + 2 + k
      BY <3>1
    <3> HIDE DEF a, b
    <3>3. ValueIn(cells, p + 2, length) = u
      BY <3>1, <3>2, ValueIs
    <3>4. \A k \in a..b : cells[k] \in Int
      <4>1. \A k \in a..b : k \in 1..Len(cells)
        BY <3>1, <3>2
      <4>2. QED
        BY <4>1
    <3>5. /\ u \in Seq(Int)
          /\ Len(u) = IF a <= b THEN b - a + 1 ELSE 0
          /\ \A k \in 1..b - a + 1 : u[k] = cells[a + k - 1]
      <4>1. a \in Int /\ b \in Int
        BY <3>2
      <4>2. QED
        BY <3>4, <4>1, SubSeqProperties
    <3> HIDE DEF u
    <3>6. u \in Seq(Int) /\ Len(u) = length /\ \A k \in 1..length : u[k] = cells[p + 2 + k]
      BY <3>2, <3>5
    <3>7. v \in Seq(Int) /\ Len(v) = length
      BY <2>3 DEF length
    <3>8. \A k \in 1..length : u[k] = v[k]
      BY <2>4, <3>6
    <3> HIDE DEF v
    <3>9. u = v
      BY <3>6, <3>7, <3>8, SeqEqual
    <3>10. QED
      BY <3>3, <3>9 DEF v
  <2>7. ParseTurn(cells, longest, f, p, mem) =
          [f[<<p + 2 + length, mem - 1>>] EXCEPT !.found = <<written[i]>> \o @]
    <3>1. /\ ~(p >= N) /\ ~(p + 1 >= N) /\ ~(p + 2 >= N)
      <4>1. p + 2 + length <= end /\ length >= 1 /\ end \in Nat /\ end < N /\ N \in Nat
            /\ p \in Nat /\ length \in Nat
        BY <1>1, <1>2, <2>3, <2>4
      <4>2. QED
        BY <4>1
    <3>2. cells[p + 1] # EndType
      <4>1. cells[p + 1] \in Nat
        BY <2>3, <2>4
      <4>2. QED
        BY <4>1 DEF EndType
    <3>3. ParseTurn(cells, longest, f, p, mem) =
            [f[<<p + 2 + length, mem - 1>>] EXCEPT !.found =
               <<<<written[i][1], ValueIn(cells, p + 2, length)>>>> \o @]
      BY <2>2, <2>3, <2>4, <3>1, <3>2, Zenon DEF ParseTurn, N
    <3>4. QED
      BY <2>3, <2>6, <3>3, Zenon
  <2>8. <<written[i]>> \o Rest(j) = Rest(j + 1)
    <3> DEFINE S == Triples(longest)
               r == Rest(j)
               q == Rest(j + 1)
    <3>1. \A k \in 1..n : written[k] \in S
      BY <1>1
    <3>2. /\ \A k \in 1..j : n - j + k \in 1..n
          /\ \A k \in 1..j + 1 : n - (j + 1) + k \in 1..n
      BY <1>1, <2>0, <2>1
    <3>a. r \in Seq(S) /\ Len(r) = j /\ q \in Seq(S) /\ Len(q) = j + 1
          /\ written[i] \in S
      <4>1. \A k \in 1..j : written[n - j + k] \in S
        BY <3>1, <3>2
      <4>2. \A k \in 1..j + 1 : written[n - (j + 1) + k] \in S
        BY <3>1, <3>2
      <4>3. written[i] \in S
        BY <2>2, <3>1
      <4>4. j \in Nat /\ j + 1 \in Nat
        BY <2>0
      <4> HIDE DEF S
      <4>5. r \in Seq(S) /\ Len(r) = j
        BY <4>1, <4>4
      <4>6. q \in Seq(S) /\ Len(q) = j + 1
        BY <4>2, <4>4
      <4>7. QED
        BY <4>3, <4>5, <4>6
    <3>b. q[1] = written[i]
      <4>1. 1 \in 1..j + 1 /\ n - (j + 1) + 1 = i
        BY <1>1, <2>0 DEF i
      <4>2. QED
        BY <4>1
    <3>c. \A k \in 2..j + 1 : q[k] = r[k - 1]
      <4>1. \A k \in 2..j + 1 : k \in 1..j + 1 /\ k - 1 \in 1..j
                               /\ n - (j + 1) + k = n - j + (k - 1)
        BY <1>1, <2>0
      <4>2. QED
        BY <4>1
    <3> DEFINE first == written[i]
    <3> HIDE DEF r, q, S, K
    <3>3. /\ <<written[i]>> \o r \in Seq(S) /\ Len(<<written[i]>> \o r) = j + 1
          /\ \A k \in 1..j + 1 : (<<written[i]>> \o r)[k] =
               IF k = 1 THEN written[i] ELSE r[k - 1]
      <4>1. first \in S /\ r \in Seq(S) /\ Len(r) = j /\ j \in Nat
        BY <2>0, <3>a
      <4> HIDE DEF first
      <4>2. /\ <<first>> \o r \in Seq(S) /\ Len(<<first>> \o r) = j + 1
            /\ \A k \in 1..j + 1 : (<<first>> \o r)[k] = IF k = 1 THEN first ELSE r[k - 1]
        BY <4>1
      <4>3. QED
        BY <4>2 DEF first
    <3>4. \A k \in 1..j + 1 : (<<written[i]>> \o r)[k] = q[k]
      BY <2>0, <3>b, <3>c, <3>3
    <3>5. <<written[i]>> \o r = q
      BY <3>a, <3>3, <3>4, SeqEqual
    <3>6. QED
      BY <3>5 DEF r, q
  <2>9. f[<<p, mem>>] = ParseTurn(cells, longest, f, p, mem)
    BY <1>4, <2>4
  <2> HIDE DEF Rest
  <2>10. f[<<p, mem>>] = [rc |-> rc, at |-> end, found |-> Rest(j + 1)]
    <3>1. f[<<p, mem>>] = [[rc |-> rc, at |-> end, found |-> Rest(j)]
                             EXCEPT !.found = <<written[i]>> \o @]
      BY <2>5, <2>7, <2>9, Zenon
    <3>2. f[<<p, mem>>] = [rc |-> rc, at |-> end, found |-> <<written[i]>> \o Rest(j)]
      BY <3>1
    <3>3. QED
      BY <2>8, <3>2, Zenon
  <2>11. off[n + 1 - (j + 1)] = p
    BY <2>2 DEF p
  <2>12. QED
    BY <2>10, <2>11
<1>8. K = Nat
  <2>1. K \subseteq Nat
    OBVIOUS
  <2> HIDE DEF K
  <2>2. QED
    BY <1>6, <1>7, <2>1, Inductive
<1>9. n \in K
  <2> HIDE DEF K
  <2>1. QED
    BY <1>1, <1>8
<1>10. N \in Room(cells) /\ N >= n
  <2>1. 1 \in 1..n + 1
    BY <1>1
  <2>2. off[1] + ((n + 1) - 1) <= end
    BY <1>2, <2>1
  <2>3. QED
    BY <1>1, <1>2, <2>2 DEF Room, N
<1>11. f[<<off[n + 1 - n], N>>] = [rc |-> rc, at |-> end, found |-> Rest(n)]
  BY <1>1, <1>9, <1>10
<1>12. off[n + 1 - n] = 0
  BY <1>1, <1>2
<1>13. Rest(n) = written
  <2>1. Rest(n) \in Seq(Triples(longest)) /\ Len(Rest(n)) = n
        /\ \A k \in 1..n : Rest(n)[k] = written[k]
    <3> DEFINE W == Triples(longest)
    <3>1. n \in Nat /\ \A k \in 1..n : n - n + k = k /\ written[k] \in W
      BY <1>1
    <3> HIDE DEF W, K
    <3>2. \A k \in 1..n : written[n - n + k] \in W
      BY <3>1
    <3>3. Rest(n) \in Seq(W) /\ Len(Rest(n)) = n
      BY <3>1, <3>2
    <3>4. \A k \in 1..n : Rest(n)[k] = written[k]
      BY <3>1
    <3>5. QED
      BY <3>3, <3>4 DEF W
  <2> HIDE DEF Rest
  <2>2. QED
    BY <2>1, SeqEqual DEF n
<1> HIDE DEF Rest
<1>14. QED
  BY <1>11, <1>12, <1>13 DEF f, N, n, end

\* A parse takes the triples before the first of a length that it refuses,
\* which stand at the offsets that the whole list does, and it stops behind.
Refused(written, longest) ==
  {i \in DOMAIN written : Len(written[i][2]) \notin 1..longest}
AnyTriples == Nat \X Seq(Int)

Takes(written, longest, g) ==
  /\ \A i \in 1..g : Len(written[i][2]) \in 1..longest
  /\ g < Len(written) => /\ Len(written[g + 1][2]) \notin 1..longest
                         /\ Refused(written, longest) # {}
                         /\ g = Min(Refused(written, longest)) - 1
  /\ g = Len(written) => /\ Refused(written, longest) = {}
                         /\ SubSeq(written, 1, g) = written

ParseOf(cells, longest, written, off, g) ==
  /\ Len(SubSeq(written, 1, g)) = g
  /\ Parser(cells, longest)[<<0, Len(cells)>>] =
       [rc |-> IF g < Len(written) THEN "EINVAL"
               ELSE IF off[g + 1] = Len(cells) - 1 THEN "ENOSPC" ELSE "ok",
        at |-> off[g + 1], found |-> SubSeq(written, 1, g)]

LEMMA ParseTakes ==
  ASSUME NEW cells \in Seq(Int), NEW longest \in Nat,
         NEW written \in Seq(AnyTriples), NEW off, Offsets(cells, written, off),
         NEW g \in 0..Len(written), Takes(written, longest, g)
  PROVE  ParseOf(cells, longest, written, off, g)
<1> DEFINE n == Len(written)
           u == SubSeq(written, 1, g)
           o == [i \in 1..g + 1 |-> off[i]]
           rc == IF g < n THEN "EINVAL"
                 ELSE IF off[g + 1] = Len(cells) - 1 THEN "ENOSPC" ELSE "ok"
<1>0. /\ \A i \in 1..g : Len(written[i][2]) \in 1..longest
      /\ g < n => Len(written[g + 1][2]) \notin 1..longest
  BY DEF Takes
<1>1. /\ n \in Nat /\ g \in Nat /\ g <= n
      /\ \A i \in 1..n : /\ written[i] \in AnyTriples /\ written[i][1] \in Nat
                         /\ written[i][2] \in Seq(Int)
                         /\ Len(written[i][2]) \in Nat
  <2>1. \A z \in AnyTriples : /\ z[1] \in Nat /\ z[2] \in Seq(Int)
                              /\ Len(z[2]) \in Nat
    BY DEF AnyTriples
  <2>2. \A i \in 1..n : written[i] \in AnyTriples
    OBVIOUS
  <2>3. n \in Nat /\ g \in Nat /\ g <= n
    OBVIOUS
  <2>4. QED
    BY <2>1, <2>2, <2>3
<1>2. /\ off \in [1..n + 1 -> Nat] /\ off[1] = 0
      /\ \A i \in 1..n :
           /\ off[i + 1] = off[i] + 2 + Len(written[i][2])
           /\ cells[off[i] + 1] = written[i][1]
           /\ cells[off[i] + 2] = Len(written[i][2])
           /\ \A j \in 1..Len(written[i][2]) :
                cells[off[i] + 2 + j] = written[i][2][j]
      /\ \A i, j \in 1..n + 1 : i <= j => off[i] + (j - i) <= off[j]
      /\ off[n + 1] < Len(cells) /\ cells[off[n + 1] + 1] = EndType
  BY DEF Offsets, StandAt
<1> HIDE DEF n
<1>3. /\ u \in Seq(Triples(longest)) /\ Len(u) = g
      /\ \A i \in 1..g : u[i] = written[i]
  <2>1. \A i \in 1..g : i \in 1..n
    BY <1>1
  <2>2. \A i \in 1..g : written[i] \in Triples(longest)
    <3>1. \A z \in AnyTriples : Len(z[2]) \in 1..longest => z \in Triples(longest)
      BY DEF AnyTriples, Triples
    <3>2. QED
      BY <1>0, <1>1, <2>1, <3>1
  <2>3. /\ u \in Seq(Triples(longest)) /\ Len(u) = IF 1 <= g THEN g - 1 + 1 ELSE 0
        /\ \A i \in 1..g - 1 + 1 : u[i] = written[1 + i - 1]
    <3> DEFINE W == Triples(longest)
    <3>1. 1 \in Int /\ g \in Int /\ \A i \in 1..g : written[i] \in W
      BY <1>1, <2>2
    <3> HIDE DEF W
    <3>2. QED
      BY <3>1, SubSeqProperties DEF W
  <2> HIDE DEF u
  <2>4. Len(u) = g
    BY <1>1, <2>3
  <2>5. \A i \in 1..g : i \in 1..g - 1 + 1 /\ 1 + i - 1 = i
    BY <1>1
  <2>6. QED
    BY <2>3, <2>4, <2>5
<1> HIDE DEF u
<1>4. /\ o \in [1..g + 1 -> Nat] /\ o[1] = 0 /\ o[g + 1] = off[g + 1]
      /\ \A i \in 1..g + 1 : i \in 1..n + 1 /\ o[i] = off[i]
  <2>1. \A i \in 1..g + 1 : i \in 1..n + 1
    BY <1>1
  <2>2. 1 \in 1..g + 1 /\ g + 1 \in 1..g + 1
    BY <1>1
  <2>3. QED
    BY <1>2, <2>1, <2>2
<1> HIDE DEF o
<1>5. StandAt(cells, u, o)
  <2>1. \A i \in 1..g : i \in 1..n /\ i \in 1..g + 1 /\ i + 1 \in 1..g + 1
    BY <1>1
  <2>2. ASSUME NEW i \in 1..g
        PROVE  /\ o[i + 1] = o[i] + 2 + Len(u[i][2])
               /\ cells[o[i] + 1] = u[i][1]
               /\ cells[o[i] + 2] = Len(u[i][2])
               /\ \A j \in 1..Len(u[i][2]) : cells[o[i] + 2 + j] = u[i][2][j]
    <3>1. u[i] = written[i] /\ o[i] = off[i] /\ o[i + 1] = off[i + 1] /\ i \in 1..n
      BY <1>3, <1>4, <2>1
    <3>2. QED
      BY <1>2, <3>1
  <2>3. \A i, j \in 1..g + 1 : i <= j => o[i] + (j - i) <= o[j]
    BY <1>2, <1>4, Zenon
  <2>4. QED
    BY <1>3, <1>4, <2>2, <2>3, Zenon DEF StandAt
<1>6. ASSUME g = n PROVE EndsWith(cells, longest, off[g + 1], rc)
  <2>1. ~(g < n)
    BY <1>1, <1>6
  <2>2. off[g + 1] < Len(cells) /\ cells[off[g + 1] + 1] = EndType
    BY <1>2, <1>6
  <2>3. QED
    BY <2>1, <2>2, Zenon DEF EndsWith
<1>7. ASSUME g < n PROVE EndsWith(cells, longest, off[g + 1], rc)
  <2> DEFINE i == g + 1
  <2>1. i \in 1..n /\ i + 1 \in 1..n + 1 /\ n + 1 \in 1..n + 1 /\ i + 1 <= n + 1
        /\ i \in 1..n + 1 /\ Len(cells) \in Nat
    BY <1>1, <1>7
  <2>2. /\ off[i] \in Nat /\ off[i + 1] \in Nat /\ off[n + 1] \in Nat
        /\ off[i + 1] = off[i] + 2 + Len(written[i][2])
        /\ off[i + 1] + ((n + 1) - (i + 1)) <= off[n + 1]
        /\ cells[off[i] + 1] = written[i][1]
        /\ cells[off[i] + 2] = Len(written[i][2])
        /\ written[i][1] \in Nat /\ Len(written[i][2]) \in Nat
    BY <1>1, <1>2, <2>1
  <2>3. off[i] + 2 < Len(cells) /\ off[i] < Len(cells)
    <3> DEFINE x == off[i]
               y == off[i + 1]
               z == off[n + 1]
               l == Len(written[i][2])
               rest == (n + 1) - (i + 1)
    <3>1. /\ x \in Nat /\ y \in Nat /\ z \in Nat /\ l \in Nat /\ rest \in Nat
          /\ y = x + 2 + l /\ y + rest <= z /\ z < Len(cells) /\ Len(cells) \in Nat
      BY <1>1, <1>2, <2>1, <2>2
    <3> HIDE DEF x, y, z, l, rest
    <3>2. x + 2 < Len(cells) /\ x < Len(cells)
      BY <3>1
    <3>3. QED
      BY <3>2 DEF x
  <2>4. cells[off[i] + 1] # EndType /\ cells[off[i] + 2] \notin 1..longest
    <3>1. Len(written[i][2]) \notin 1..longest
      BY <1>0, <1>7 DEF n
    <3>2. \A k \in Nat : k # EndType
      BY DEF EndType
    <3>3. QED
      BY <2>2, <3>1, <3>2
  <2>5. QED
    BY <1>7, <2>3, <2>4, Zenon DEF EndsWith
<1>8. g = n \/ g < n
  BY <1>1
<1>9. CanParse(cells, longest, u, o, rc)
  <2> HIDE DEF rc
  <2>1. Len(u) + 1 = g + 1 /\ o[g + 1] = off[g + 1]
    BY <1>3, <1>4
  <2>2. EndsWith(cells, longest, o[Len(u) + 1], rc)
    BY <1>6, <1>7, <1>8, <2>1
  <2>3. QED
    BY <1>3, <1>5, <2>2, Zenon DEF CanParse
<1>10. Parser(cells, longest)[<<0, Len(cells)>>] =
         [rc |-> rc, at |-> o[Len(u) + 1], found |-> u]
  <2> HIDE DEF rc
  <2>1. QED
    BY <1>9, ParseFinds
<1>11. o[Len(u) + 1] = off[g + 1] /\ Len(u) = g
  BY <1>3, <1>4
<1>12. QED
  BY <1>10, <1>11, Zenon DEF ParseOf, u, n

\* How many of the triples a parse takes.
LEMMA TakenIs ==
  ASSUME NEW longest \in Nat, NEW written \in Seq(AnyTriples)
  PROVE  \E g \in 0..Len(written) : Takes(written, longest, g)
<1> DEFINE n == Len(written)
           bad == Refused(written, longest)
<1>1. n \in Nat /\ DOMAIN written = 1..n
  OBVIOUS
<1>2. CASE bad = {}
  <2>1. \A i \in 1..n : Len(written[i][2]) \in 1..longest
    BY <1>1, <1>2 DEF Refused
  <2>2. SubSeq(written, 1, n) = written
    OBVIOUS
  <2>3. n \in 0..n /\ ~(n < n)
    BY <1>1
  <2> HIDE DEF n, bad
  <2>4. QED
    BY <1>2, <2>1, <2>2, <2>3, Zenon DEF n, bad, Takes
<1>3. CASE bad # {}
  <2>1. bad \subseteq 1..n /\ bad \subseteq Nat
    BY <1>1 DEF Refused
  <2> HIDE DEF bad, n
  <2>2. Min(bad) \in bad /\ \A i \in bad : Min(bad) <= i
    BY <1>3, <2>1, LeastOf
  <2> DEFINE m == Min(bad)
             g == m - 1
  <2>3. m \in 1..n
    BY <2>1, <2>2
  <2>4. g \in 0..n /\ g < n /\ g + 1 = m /\ g # n /\ \A i \in 1..g : i \in 1..n /\ i < m
    BY <1>1, <2>3
  <2>5. Len(written[m][2]) \notin 1..longest
    BY <2>2 DEF bad, Refused
  <2>6. ASSUME NEW i \in 1..g PROVE Len(written[i][2]) \in 1..longest
    <3>1. i \notin bad
      BY <2>1, <2>2, <2>4
    <3>2. QED
      BY <1>1, <2>4, <3>1 DEF bad, n, Refused
  <2>7. /\ g \in 0..n /\ (g < n => /\ Len(written[g + 1][2]) \notin 1..longest
                                    /\ bad # {} /\ g = Min(bad) - 1)
        /\ g # n
    BY <1>3, <2>4, <2>5
  <2> HIDE DEF g, m
  <2>8. QED
    BY <2>6, <2>7, Zenon DEF n, bad, Takes
<1>4. QED
  BY <1>2, <1>3

\* The cells with a triple and the end type written from cell idx on, which
\* is counted from 0.
Appended(cells, idx, type, value) ==
  LET encoded == <<type, Len(value)>> \o value \o <<EndType>> IN
  [i \in 1..Len(cells) |->
     IF i - idx \in DOMAIN encoded THEN encoded[i - idx] ELSE cells[i]]

\* The offsets after an append: those of the triples that stay and of one more.
CanAppend(cells, kept, old, idx, type, value) ==
  /\ cells \in Seq(Int)
  /\ kept \in Seq(AnyTriples) /\ StandAt(cells, kept, old)
  /\ idx \in Nat /\ old[Len(kept) + 1] = idx
  /\ type \in Nat /\ value \in Seq(Int)
  /\ idx + (Len(value) + 3) <= Len(cells)

LEMMA OffsetsAppended ==
  ASSUME NEW cells, NEW kept, NEW old, NEW idx, NEW type, NEW value,
         CanAppend(cells, kept, old, idx, type, value)
  PROVE  /\ Appended(cells, idx, type, value) \in Seq(Int)
         /\ Len(Appended(cells, idx, type, value)) = Len(cells)
         /\ Append(kept, <<type, value>>) \in Seq(AnyTriples)
         /\ \E off : /\ Offsets(Appended(cells, idx, type, value),
                                Append(kept, <<type, value>>), off)
                     /\ off[Len(kept) + 2] = idx + (Len(value) + 2)
<1> DEFINE n == Len(kept)
           length == Len(value)
           encoded == <<type, length>> \o value \o <<EndType>>
           longer == Append(kept, <<type, value>>)
           grown == Appended(cells, idx, type, value)
<1>1. grown = [i \in 1..Len(cells) |->
                 IF i - idx \in DOMAIN encoded THEN encoded[i - idx] ELSE cells[i]]
  BY DEF Appended
<1> HIDE DEF grown
<1>2. /\ cells \in Seq(Int) /\ Len(cells) \in Nat /\ idx \in Nat
      /\ idx + (length + 3) <= Len(cells)
      /\ value \in Seq(Int) /\ length \in Nat /\ type \in Nat
      /\ \A z \in AnyTriples : Len(z[2]) \in Nat
  <2>1. \A z \in AnyTriples : Len(z[2]) \in Nat
    BY DEF AnyTriples
  <2>2. /\ cells \in Seq(Int) /\ idx \in Nat /\ idx + (length + 3) <= Len(cells)
        /\ value \in Seq(Int) /\ type \in Nat
    BY DEF CanAppend
  <2>3. Len(cells) \in Nat
    BY <2>2
  <2>4. length \in Nat
    BY <2>2
  <2>5. QED
    BY <2>1, <2>2, <2>3, <2>4
<1>3. /\ n \in Nat /\ \A i \in 1..n : kept[i] \in AnyTriples
      /\ longer \in Seq(AnyTriples) /\ Len(longer) = n + 1
      /\ \A i \in 1..n : longer[i] = kept[i]
      /\ longer[n + 1] = <<type, value>>
  <2>1. <<type, value>> \in AnyTriples /\ kept \in Seq(AnyTriples)
    BY DEF AnyTriples, CanAppend
  <2>2. QED
    BY <2>1
<1>5. /\ DOMAIN encoded = 1..length + 3
      /\ encoded[1] = type /\ encoded[2] = length /\ encoded[length + 3] = EndType
      /\ \A k \in 1..length : encoded[2 + k] = value[k]
      /\ \A k \in 1..length + 3 : encoded[k] \in Int
  <2>0. EndType \in Int
    BY DEF EndType
  <2> DEFINE front == <<type, length>> \o value
  <2>1. value \in Seq(Int) /\ <<type, length>> \in Seq(Int)
        /\ Len(<<type, length>>) = 2
    BY <1>2
  <2>2. front \in Seq(Int) /\ Len(front) = length + 2
        /\ front[1] = type /\ front[2] = length
        /\ \A k \in 1..length : front[2 + k] = value[k]
    BY <1>2, <2>1
  <2>3. encoded = front \o <<EndType>>
    OBVIOUS
  <2> HIDE DEF front, encoded
  <2>4. encoded \in Seq(Int) /\ Len(encoded) = length + 3
        /\ encoded[length + 3] = EndType
        /\ \A k \in 1..length + 2 : encoded[k] = front[k]
    <3>0. length \in Nat
      BY <1>2
    <3>1. length \in Nat /\ front \in Seq(Int) /\ Len(front) = length + 2
          /\ <<EndType>> \in Seq(Int) /\ Len(<<EndType>>) = 1 /\ <<EndType>>[1] = EndType
      BY <1>2, <2>0, <2>2
    <3>2. encoded \in Seq(Int) /\ Len(encoded) = length + 3
      BY <2>3, <3>1
    <3>3. encoded[length + 3] = EndType
      <4>1. Len(front) + 1 = length + 3 /\ length + 3 \in 1..(Len(front) + Len(<<EndType>>))
            /\ length + 3 > Len(front) /\ length + 3 - Len(front) = 1
        BY <3>1
      <4>2. (front \o <<EndType>>)[length + 3] = <<EndType>>[length + 3 - Len(front)]
        BY <3>1, <4>1
      <4>3. QED
        BY <2>3, <3>1, <4>1, <4>2
    <3>4. \A k \in 1..length + 2 : encoded[k] = front[k]
      BY <2>3, <3>1
    <3>5. QED
      BY <3>2, <3>3, <3>4
  <2>5. /\ length \in Nat /\ 1 \in 1..length + 2 /\ 2 \in 1..length + 2
        /\ \A k \in 1..length : 2 + k \in 1..length + 2
    BY <1>2
  <2>6. encoded[1] = type /\ encoded[2] = length
    BY <2>2, <2>4, <2>5
  <2>7. \A k \in 1..length : encoded[2 + k] = value[k]
    BY <2>2, <2>4, <2>5
  <2>8. DOMAIN encoded = 1..length + 3 /\ \A k \in 1..length + 3 : encoded[k] \in Int
    BY <2>4
  <2>9. QED
    BY <2>4, <2>6, <2>7, <2>8
<1>7. /\ old \in [1..n + 1 -> Nat] /\ old[1] = 0 /\ old[n + 1] = idx
      /\ \A i \in 1..n :
           /\ old[i + 1] = old[i] + 2 + Len(kept[i][2])
           /\ cells[old[i] + 1] = kept[i][1]
           /\ cells[old[i] + 2] = Len(kept[i][2])
           /\ \A j \in 1..Len(kept[i][2]) : cells[old[i] + 2 + j] = kept[i][2][j]
      /\ \A i, j \in 1..n + 1 : i <= j => old[i] + (j - i) <= old[j]
  BY DEF StandAt, CanAppend
<1> HIDE DEF encoded, n, length, longer
<1>0. /\ n \in Nat /\ idx \in Nat /\ length \in Nat
      /\ Len(cells) \in Nat /\ idx + (length + 3) <= Len(cells)
  BY <1>2, <1>3
<1>6. /\ grown \in Seq(Int) /\ Len(grown) = Len(cells)
      /\ \A k \in 1..length + 3 : grown[idx + k] = encoded[k]
      /\ \A i \in 1..idx : grown[i] = cells[i]
      /\ idx + (length + 3) <= Len(cells)
  <2>1. idx + (length + 3) <= Len(cells)
    BY <1>1, <1>2
  <2>2. ASSUME NEW i \in 1..Len(cells)
        PROVE  /\ grown[i] = IF i - idx \in DOMAIN encoded THEN encoded[i - idx]
                                                             ELSE cells[i]
               /\ grown[i] \in Int
    <3>1. grown[i] = IF i - idx \in DOMAIN encoded THEN encoded[i - idx] ELSE cells[i]
      BY <1>1
    <3>2. cells[i] \in Int
      BY <1>2
    <3>3. \A k \in DOMAIN encoded : encoded[k] \in Int
      BY <1>5
    <3>4. QED
      BY <3>1, <3>2, <3>3, Zenon
  <2>3. grown \in Seq(Int) /\ Len(grown) = Len(cells)
    <3>1. grown = [i \in 1..Len(cells) |-> grown[i]]
      BY <1>1
    <3>2. \A i \in 1..Len(cells) : grown[i] \in Int
      BY <2>2
    <3>3. grown \in [1..Len(cells) -> Int]
      BY <3>1, <3>2
    <3>4. \A N \in Nat : \A g \in [1..N -> Int] : g \in Seq(Int) /\ Len(g) = N
      OBVIOUS
    <3>5. QED
      BY <1>2, <3>3, <3>4, Zenon
  <2>4. ASSUME NEW k \in 1..length + 3 PROVE grown[idx + k] = encoded[k]
    <3>1. idx + k \in 1..Len(cells) /\ (idx + k) - idx = k
      BY <1>2, <2>1
    <3>2. QED
      BY <1>5, <2>2, <3>1
  <2>5. ASSUME NEW i \in 1..idx PROVE grown[i] = cells[i]
    <3>1. i \in 1..Len(cells) /\ i - idx \notin 1..length + 3
      BY <1>2, <2>1
    <3>2. QED
      BY <1>5, <2>2, <3>1
  <2>6. QED
    BY <2>1, <2>3, <2>4, <2>5
<1>8. PICK off : /\ off \in [1..n + 2 -> Nat] /\ off[1] = 0
                 /\ off[n + 2] = idx + 2 + length /\ off[n + 1] = idx
                 /\ \A i \in 1..n + 1 : off[i] = old[i]
  <2> DEFINE new == [i \in 1..n + 2 |-> IF i = n + 2 THEN idx + 2 + length ELSE old[i]]
  <2>1. \A i \in 1..n + 2 : i # n + 2 => i \in 1..n + 1
    BY <1>3
  <2>2. \A i \in 1..n + 1 : i \in 1..n + 2 /\ i # n + 2
    BY <1>3
  <2>3. n + 2 \in 1..n + 2 /\ n + 1 \in 1..n + 1 /\ 1 \in 1..n + 1
    BY <1>3
  <2>4. idx + 2 + length \in Nat
    BY <1>2
  <2>5. \A i \in 1..n + 1 : new[i] = old[i]
    BY <2>2
  <2>6. new[n + 2] = idx + 2 + length
    BY <2>3
  <2>7. new \in [1..n + 2 -> Nat]
    BY <1>7, <2>1, <2>4
  <2> HIDE DEF new
  <2>8. new[1] = 0 /\ new[n + 1] = idx
    BY <1>7, <2>3, <2>5
  <2>9. QED
    BY <2>5, <2>6, <2>7, <2>8
<1>9. ASSUME NEW i \in 1..n
      PROVE  /\ off[i + 1] = off[i] + 2 + Len(longer[i][2])
             /\ grown[off[i] + 1] = longer[i][1]
             /\ grown[off[i] + 2] = Len(longer[i][2])
             /\ \A j \in 1..Len(longer[i][2]) :
                  grown[off[i] + 2 + j] = longer[i][2][j]
  <2> DEFINE l == Len(kept[i][2])
  <2>1. i \in 1..n + 1 /\ i + 1 \in 1..n + 1 /\ i + 1 \in Int
    BY <1>0
  <2>2. /\ off[i] = old[i] /\ off[i + 1] = old[i + 1] /\ old[i] \in Nat
        /\ old[i + 1] \in Nat /\ old[i + 1] + ((n + 1) - (i + 1)) <= idx
    <3>1. n + 1 \in 1..n + 1 /\ i + 1 <= n + 1
      BY <1>0, <2>1
    <3>2. QED
      BY <1>7, <1>8, <2>1, <3>1
  <2>3. l \in Nat
    BY <1>2, <1>3
  <2>4. old[i + 1] = old[i] + 2 + l
    BY <1>7
  <2>5. old[i] + 2 + l <= idx
    <3>1. old[i + 1] <= idx
      BY <1>0, <2>1, <2>2
    <3>2. QED
      BY <2>4, <3>1
  <2>6. /\ cells[old[i] + 1] = kept[i][1] /\ cells[old[i] + 2] = l
        /\ \A j \in 1..l : cells[old[i] + 2 + j] = kept[i][2][j]
    BY <1>7
  <2> HIDE DEF l
  <2>7. /\ old[i] + 1 \in 1..idx /\ old[i] + 2 \in 1..idx
        /\ \A j \in 1..l : old[i] + 2 + j \in 1..idx
    <3>1. idx \in Nat /\ old[i] \in Nat /\ l \in Nat /\ old[i] + 2 + l <= idx
      BY <1>0, <2>2, <2>3, <2>5
    <3>2. QED
      BY <3>1
  <2>8. /\ grown[old[i] + 1] = kept[i][1] /\ grown[old[i] + 2] = l
        /\ \A j \in 1..l : grown[old[i] + 2 + j] = kept[i][2][j]
    BY <1>6, <2>6, <2>7
  <2>9. longer[i] = kept[i]
    BY <1>3
  <2>10. QED
    BY <2>2, <2>4, <2>8, <2>9 DEF l
<1>10. /\ off[n + 2] = off[n + 1] + 2 + length
       /\ grown[off[n + 1] + 1] = type
       /\ grown[off[n + 1] + 2] = length
       /\ \A j \in 1..length : grown[off[n + 1] + 2 + j] = value[j]
       /\ off[n + 2] < Len(grown) /\ grown[off[n + 2] + 1] = EndType
  <2>1. /\ 1 \in 1..length + 3 /\ 2 \in 1..length + 3 /\ length + 3 \in 1..length + 3
        /\ \A j \in 1..length : 2 + j \in 1..length + 3 /\ idx + 2 + j = idx + (2 + j)
        /\ idx + 2 + length + 1 = idx + (length + 3)
        /\ idx + 2 + length < Len(cells)
    BY <1>0
  <2>2. ASSUME NEW j \in 1..length PROVE grown[idx + 2 + j] = value[j]
    <3>1. 2 + j \in 1..length + 3 /\ idx + 2 + j = idx + (2 + j)
      BY <2>1
    <3>2. grown[idx + (2 + j)] = encoded[2 + j]
      BY <1>6, <3>1, Zenon
    <3>3. QED
      BY <1>5, <3>1, <3>2, Zenon
  <2>3. grown[idx + 2 + length + 1] = EndType
    BY <1>5, <1>6, <2>1
  <2>4. grown[idx + 1] = type /\ grown[idx + 2] = length
    BY <1>5, <1>6, <2>1
  <2>5. QED
    BY <1>6, <1>8, <2>1, <2>2, <2>3, <2>4
<1>11. \A i, j \in 1..n + 2 : i <= j => off[i] + (j - i) <= off[j]
  <2>0. \A i \in 1..n + 2 : i \in 1..n + 1 \/ i = n + 2
    BY <1>0
  <2>1. ASSUME NEW i \in 1..n + 1 PROVE off[i] + ((n + 2) - i) <= off[n + 2]
    <3>1. i \in Int /\ old[i] \in Nat /\ old[i] + ((n + 1) - i) <= idx
      <4>1. i <= n + 1 /\ n + 1 \in 1..n + 1 /\ i \in Int
        BY <1>0
      <4>2. QED
        BY <1>7, <4>1
    <3>2. old[i] + ((n + 2) - i) <= idx + 2 + length
      <4>1. (n + 2) - i = ((n + 1) - i) + 1 /\ (n + 1) - i \in Int
        BY <1>0, <3>1
      <4>2. QED
        BY <1>0, <3>1, <4>1
    <3>3. QED
      BY <1>8, <3>2
  <2>2. off[n + 2] + ((n + 2) - (n + 2)) <= off[n + 2]
    BY <1>0, <1>8
  <2>3. ASSUME NEW i \in 1..n + 1, NEW j \in 1..n + 1, i <= j
        PROVE  off[i] + (j - i) <= off[j]
    BY <1>7, <1>8, <2>3
  <2>4. \A j \in 1..n + 1 : ~(n + 2 <= j)
    BY <1>0
  <2>5. QED
    BY <2>0, <2>1, <2>2, <2>3, <2>4, Zenon
<1>12. Offsets(grown, longer, off)
  <2>1. n \in Nat /\ Len(longer) = n + 1 /\ Len(longer) + 1 = n + 2
    BY <1>3
  <2> HIDE DEF longer
  <2>2. ASSUME NEW i \in 1..n + 1
        PROVE  /\ off[i + 1] = off[i] + 2 + Len(longer[i][2])
               /\ grown[off[i] + 1] = longer[i][1]
               /\ grown[off[i] + 2] = Len(longer[i][2])
               /\ \A j \in 1..Len(longer[i][2]) :
                    grown[off[i] + 2 + j] = longer[i][2][j]
    <3>1. CASE i \in 1..n
      BY <1>9, <3>1, Zenon
    <3>2. CASE i = n + 1
      <4>1. longer[i][1] = type /\ longer[i][2] = value /\ i + 1 = n + 2
        BY <1>3, <2>1, <3>2
      <4>2. QED
        BY <1>10, <3>2, <4>1 DEF length
    <3>3. i \in 1..n \/ i = n + 1
      BY <2>1
    <3>4. QED
      BY <3>1, <3>2, <3>3
  <2>3. off[Len(longer) + 1] < Len(grown) /\ grown[off[Len(longer) + 1] + 1] = EndType
    BY <1>10, <2>1
  <2>4. \A i, j \in 1..Len(longer) + 1 : i <= j => off[i] + (j - i) <= off[j]
    BY <1>11, <2>1, Zenon
  <2>5. off \in [1..Len(longer) + 1 -> Nat] /\ off[1] = 0
    BY <1>8, <2>1
  <2>6. \A i \in 1..Len(longer) : i \in 1..n + 1
    BY <2>1
  <2>7. StandAt(grown, longer, off)
    BY <2>2, <2>4, <2>5, <2>6, Zenon DEF StandAt
  <2>8. QED
    BY <2>3, <2>7, Zenon DEF Offsets
<1>13. off[n + 2] = idx + (length + 2)
  BY <1>2, <1>8
<1>14. QED
  BY <1>3, <1>6, <1>12, <1>13 DEF n, length, longer, grown

-----------------------------------------------------------------------------
(***************************************************************************)
(* Tries.  A node is the sequence that leads to it, with the number of its *)
(* children; nodes are added on the way to a key, and those that are of no *)
(* use without the key are pruned, from the key upwards.                   *)
(***************************************************************************)
\* The beginnings of a sequence, told apart by their lengths.
LEMMA PrefixFacts ==
  ASSUME NEW D, NEW key \in Seq(D)
  PROVE  /\ IsFiniteSet(Prefixes(key))
         /\ key \in Prefixes(key) /\ <<>> \in Prefixes(key) /\ Len(key) \in Nat
         /\ \A x \in Prefixes(key) :
              x \in Seq(D) /\ Len(x) \in 0..Len(key) /\ x = SubSeq(key, 1, Len(x))
         /\ \A l \in 0..Len(key) : /\ SubSeq(key, 1, l) \in Prefixes(key)
                                   /\ Len(SubSeq(key, 1, l)) = l
         /\ \A l \in 1..Len(key) : /\ SubSeq(key, 1, l) # <<>>
                                   /\ Front(SubSeq(key, 1, l)) = SubSeq(key, 1, l - 1)
<1>1. Prefixes(key) = {SubSeq(key, 1, l) : l \in 0..Len(key)} /\ Len(key) \in Nat
  BY DEF Prefixes
<1>2. ASSUME NEW l \in 0..Len(key)
      PROVE  /\ SubSeq(key, 1, l) \in Seq(D) /\ Len(SubSeq(key, 1, l)) = l
             /\ \A i \in 1..l : SubSeq(key, 1, l)[i] = key[i]
  <2>1. l \in Nat /\ l <= Len(key)
    BY <1>1
  <2>2. \A i \in 1..l : key[i] \in D
    BY <1>1, <2>1
  <2>3. 1 \in Int /\ l \in Int
    BY <2>1
  <2>4. /\ SubSeq(key, 1, l) \in Seq(D)
        /\ Len(SubSeq(key, 1, l)) = IF 1 <= l THEN l - 1 + 1 ELSE 0
        /\ \A i \in 1..l - 1 + 1 : SubSeq(key, 1, l)[i] = key[1 + i - 1]
    BY <2>2, <2>3, SubSeqProperties
  <2>5. QED
    BY <2>1, <2>4
<1>3. SubSeq(key, 1, 0) = <<>>
  BY <1>1, <1>2
<1>4. SubSeq(key, 1, Len(key)) = key
  <2> DEFINE u == SubSeq(key, 1, Len(key))
  <2>1. Len(key) \in 0..Len(key)
    BY <1>1
  <2>2. u \in Seq(D) /\ Len(u) = Len(key) /\ \A i \in 1..Len(key) : u[i] = key[i]
    BY <1>2, <2>1
  <2> HIDE DEF u
  <2>3. u = key
    BY <2>2, SeqEqual
  <2>4. QED
    BY <2>3 DEF u
<1>5. ASSUME NEW l \in 1..Len(key)
      PROVE  /\ SubSeq(key, 1, l) # <<>>
             /\ Front(SubSeq(key, 1, l)) = SubSeq(key, 1, l - 1)
  <2> DEFINE u == SubSeq(key, 1, l)
             v == SubSeq(key, 1, l - 1)
             w == SubSeq(u, 1, l - 1)
  <2>1. l \in 0..Len(key) /\ l - 1 \in 0..Len(key) /\ l \in Nat /\ l >= 1
    BY <1>1
  <2>2. /\ u \in Seq(D) /\ Len(u) = l /\ \A i \in 1..l : u[i] = key[i]
        /\ v \in Seq(D) /\ Len(v) = l - 1 /\ \A i \in 1..l - 1 : v[i] = key[i]
    BY <1>2, <2>1
  <2> HIDE DEF u, v
  <2>3. \A i \in 1..l - 1 : u[i] \in D
    BY <2>1, <2>2
  <2>4. 1 \in Int /\ l - 1 \in Int
    BY <2>1
  <2>5. /\ w \in Seq(D)
        /\ Len(w) = IF 1 <= l - 1 THEN (l - 1) - 1 + 1 ELSE 0
        /\ \A i \in 1..(l - 1) - 1 + 1 : w[i] = u[1 + i - 1]
    BY <2>3, <2>4, SubSeqProperties
  <2> HIDE DEF w
  <2>6. Len(w) = l - 1 /\ \A i \in 1..l - 1 : w[i] = u[i] /\ u[i] = v[i]
    <3>1. Len(w) = l - 1
      BY <2>1, <2>5
    <3>2. ASSUME NEW i \in 1..l - 1 PROVE w[i] = u[i] /\ u[i] = v[i]
      <4>1. i \in 1..(l - 1) - 1 + 1 /\ 1 + i - 1 = i /\ i \in 1..l
        BY <2>1
      <4>2. w[i] = u[i]
        BY <2>5, <4>1
      <4>3. u[i] = v[i]
        BY <2>2, <4>1
      <4>4. QED
        BY <4>2, <4>3
    <3>3. QED
      BY <3>1, <3>2
  <2>7. w = v
    BY <2>2, <2>5, <2>6, SeqEqual
  <2>8. u # <<>>
    BY <2>1, <2>2
  <2>9. Front(u) = w
    BY <2>2 DEF Front, w
  <2>10. QED
    BY <2>7, <2>8, <2>9 DEF u, v
<1>6. IsFiniteSet(Prefixes(key))
  <2> DEFINE f == [x \in Prefixes(key) |-> Len(x)]
  <2>1. \A x \in Prefixes(key) : Len(x) \in 0..Len(key) /\ x = SubSeq(key, 1, Len(x))
    BY <1>1, <1>2
  <2>2. f \in Injection(Prefixes(key), 0..Len(key))
    BY <2>1 DEF Injection, IsInjective
  <2>3. IsFiniteSet(0..Len(key))
    BY <1>1, FS_Interval
  <2>4. QED
    BY <2>2, <2>3, FS_Injection
<1>7. 0 \in 0..Len(key) /\ Len(key) \in 0..Len(key)
  BY <1>1
<1>8. key \in Prefixes(key) /\ <<>> \in Prefixes(key)
  BY <1>1, <1>3, <1>4, <1>7, Zenon
<1>9. ASSUME NEW x \in Prefixes(key)
      PROVE  x \in Seq(D) /\ Len(x) \in 0..Len(key) /\ x = SubSeq(key, 1, Len(x))
  <2>1. PICK l \in 0..Len(key) : x = SubSeq(key, 1, l)
    BY <1>1
  <2>2. x \in Seq(D) /\ Len(x) = l
    BY <1>2, <2>1
  <2>3. QED
    BY <2>1, <2>2
<1>10. ASSUME NEW l \in 0..Len(key)
       PROVE  SubSeq(key, 1, l) \in Prefixes(key) /\ Len(SubSeq(key, 1, l)) = l
  BY <1>1, <1>2
<1>11. QED
  BY <1>1, <1>5, <1>6, <1>8, <1>9, <1>10, Zenon

ChildrenIn(nodes, x) == {y \in nodes : y # <<>> /\ Front(y) = x}
Trie(nodes, n) ==
  /\ IsFiniteSet(nodes) /\ <<>> \in nodes
  /\ \A x \in nodes : /\ x # <<>> => Front(x) \in nodes
                      /\ n[x] = Cardinality(ChildrenIn(nodes, x))

\* A trie has a node for every beginning of a node.
LEMMA WayThere ==
  ASSUME NEW nodes, NEW n, Trie(nodes, n), NEW D, NEW key \in Seq(D), key \in nodes
  PROVE  Prefixes(key) \subseteq nodes
<1> DEFINE K == {j \in Nat : j <= Len(key) => SubSeq(key, 1, Len(key) - j) \in nodes}
<1>1. /\ Len(key) \in Nat /\ key \in Prefixes(key) /\ key = SubSeq(key, 1, Len(key))
      /\ \A x \in Prefixes(key) : Len(x) \in 0..Len(key) /\ x = SubSeq(key, 1, Len(x))
      /\ \A l \in 1..Len(key) : /\ SubSeq(key, 1, l) # <<>>
                                /\ Front(SubSeq(key, 1, l)) = SubSeq(key, 1, l - 1)
  BY PrefixFacts
<1>2. 0 \in K
  <2>1. Len(key) - 0 = Len(key)
    BY <1>1
  <2>2. SubSeq(key, 1, Len(key) - 0) \in nodes
    BY <1>1, <2>1
  <2>3. QED
    BY <2>2
<1>3. ASSUME NEW j \in K PROVE j + 1 \in K
  <2>1. SUFFICES ASSUME j + 1 <= Len(key)
                 PROVE  SubSeq(key, 1, Len(key) - (j + 1)) \in nodes
    OBVIOUS
  <2> DEFINE l == Len(key) - j
  <2>2. l \in 1..Len(key) /\ l - 1 = Len(key) - (j + 1) /\ j <= Len(key)
    BY <1>1, <2>1
  <2>3. SubSeq(key, 1, l) \in nodes
    BY <2>2
  <2> HIDE DEF l, K
  <2>4. SubSeq(key, 1, l - 1) \in nodes
    BY <1>1, <2>2, <2>3 DEF Trie
  <2>5. QED
    BY <2>2, <2>4
<1>4. K = Nat
  <2>1. K \subseteq Nat
    OBVIOUS
  <2> HIDE DEF K
  <2>2. QED
    BY <1>2, <1>3, <2>1, Inductive
<1>5. ASSUME NEW x \in Prefixes(key) PROVE x \in nodes
  <2> DEFINE j == Len(key) - Len(x)
  <2>1. j \in Nat /\ j <= Len(key) /\ Len(key) - j = Len(x)
    BY <1>1
  <2>2. j \in K
    <3> HIDE DEF K
    <3>1. QED
      BY <1>4, <2>1
  <2> HIDE DEF j
  <2>3. QED
    BY <1>1, <2>1, <2>2
<1>6. QED
  BY <1>5

\* What is added on the way to a key.
Added(nodes, key) == Prefixes(key) \ nodes
CountsGrown(nodes, n, key) ==
  [y \in nodes \cup Added(nodes, key) |->
     (IF y \in nodes THEN n[y] ELSE 0)
       + Cardinality({z \in Added(nodes, key) : Front(z) = y})]

LEMMA TrieGrows ==
  ASSUME NEW nodes, NEW n, Trie(nodes, n), NEW D, NEW key \in Seq(D)
  PROVE  /\ Trie(nodes \cup Added(nodes, key), CountsGrown(nodes, n, key))
         /\ Cardinality(nodes \cup Added(nodes, key)) =
              Cardinality(nodes) + Cardinality(Added(nodes, key))
         /\ \A y \in nodes : CountsGrown(nodes, n, key)[y] = 0 => n[y] = 0
         /\ \A y \in Added(nodes, key) :
              y # key => CountsGrown(nodes, n, key)[y] # 0
<1> DEFINE added == Added(nodes, key)
           m == CountsGrown(nodes, n, key)
           all == nodes \cup added
           on(y) == {z \in added : Front(z) = y}
<1>1. /\ IsFiniteSet(nodes) /\ <<>> \in nodes
      /\ \A x \in nodes : /\ x # <<>> => Front(x) \in nodes
                          /\ n[x] = Cardinality(ChildrenIn(nodes, x))
  BY DEF Trie
<1>2. /\ IsFiniteSet(added) /\ added \cap nodes = {} /\ <<>> \notin added
      /\ added \subseteq Prefixes(key) /\ Prefixes(key) \subseteq all
  BY <1>1, PrefixFacts, FS_Subset DEF Added
<1>3. \A x \in Prefixes(key) : x # <<>> => Front(x) \in Prefixes(key)
  <2>1. ASSUME NEW x \in Prefixes(key), x # <<>> PROVE Front(x) \in Prefixes(key)
    <3>1. /\ Len(x) \in 0..Len(key) /\ x = SubSeq(key, 1, Len(x)) /\ x \in Seq(D)
          /\ Len(key) \in Nat
      BY PrefixFacts
    <3>2. Len(x) \in 1..Len(key) /\ Len(x) - 1 \in 0..Len(key)
      BY <2>1, <3>1
    <3>3. Front(x) = SubSeq(key, 1, Len(x) - 1)
      <4> DEFINE l == Len(x)
      <4>1. l \in 1..Len(key) /\ x = SubSeq(key, 1, l)
        BY <3>1, <3>2
      <4> HIDE DEF l
      <4>2. Front(SubSeq(key, 1, l)) = SubSeq(key, 1, l - 1)
        BY <4>1, PrefixFacts
      <4>3. QED
        BY <4>1, <4>2 DEF l
    <3>4. QED
      BY <3>2, <3>3, PrefixFacts
  <2>2. QED
    BY <2>1
<1> HIDE DEF added, m
<1>4. /\ IsFiniteSet(all) /\ <<>> \in all
      /\ Cardinality(all) = Cardinality(nodes) + Cardinality(added)
      /\ Cardinality(nodes) \in Nat /\ Cardinality(added) \in Nat
  <2>1. /\ Cardinality(all) = Cardinality(nodes) + Cardinality(added) - Cardinality(nodes \cap added)
        /\ IsFiniteSet(all)
    BY <1>1, <1>2, FS_Union
  <2>2. Cardinality(nodes \cap added) = 0
    <3>1. nodes \cap added = {}
      BY <1>2
    <3>2. QED
      BY <3>1, FS_EmptySet
  <2>3. Cardinality(nodes) \in Nat /\ Cardinality(added) \in Nat
    BY <1>1, <1>2, FS_CardinalityType
  <2>4. <<>> \in all
    BY <1>1
  <2> HIDE DEF all
  <2>5. Cardinality(all) = Cardinality(nodes) + Cardinality(added)
    BY <2>1, <2>2, <2>3
  <2>6. QED
    BY <2>1, <2>3, <2>4, <2>5
<1>5. \A x \in all : x # <<>> => Front(x) \in all
  BY <1>1, <1>2, <1>3
<1>6. ASSUME NEW y \in all
      PROVE  /\ ChildrenIn(all, y) = ChildrenIn(nodes, y) \cup on(y)
             /\ ChildrenIn(nodes, y) \cap on(y) = {}
             /\ IsFiniteSet(ChildrenIn(nodes, y)) /\ IsFiniteSet(on(y))
  <2>1. /\ ChildrenIn(all, y) = ChildrenIn(nodes, y) \cup on(y)
        /\ ChildrenIn(nodes, y) \cap on(y) = {}
        /\ ChildrenIn(nodes, y) \subseteq nodes /\ on(y) \subseteq added
    BY <1>2 DEF ChildrenIn
  <2>2. QED
    BY <1>1, <1>2, <2>1, FS_Subset
<1>7. ASSUME NEW y \in all
      PROVE  /\ m[y] = Cardinality(ChildrenIn(all, y))
             /\ m[y] = (IF y \in nodes THEN n[y] ELSE 0) + Cardinality(on(y))
             /\ Cardinality(on(y)) \in Nat
             /\ y \in nodes => n[y] \in Nat
  <2> DEFINE before == ChildrenIn(nodes, y)
             new == on(y)
  <2>1. /\ Cardinality(before \cup new) = Cardinality(before) + Cardinality(new)
        /\ Cardinality(before) \in Nat /\ Cardinality(new) \in Nat
    <3>1. IsFiniteSet(before) /\ IsFiniteSet(new) /\ before \cap new = {}
      BY <1>6
    <3> HIDE DEF before, new
    <3>2. Cardinality(before \cup new) = Cardinality(before) + Cardinality(new) - Cardinality(before \cap new)
      BY <3>1, FS_Union
    <3>3. Cardinality(before \cap new) = 0
      BY <3>1, FS_EmptySet
    <3>4. Cardinality(before) \in Nat /\ Cardinality(new) \in Nat
      BY <3>1, FS_CardinalityType
    <3>5. QED
      BY <3>2, <3>3, <3>4
  <2>2. y \notin nodes => before = {}
    BY <1>1 DEF ChildrenIn
  <2>3. m[y] = (IF y \in nodes THEN n[y] ELSE 0) + Cardinality(new)
    BY DEF m, added, CountsGrown
  <2>4. ChildrenIn(all, y) = before \cup new
    BY <1>6
  <2>5. y \in nodes => n[y] = Cardinality(before)
    BY <1>1
  <2> HIDE DEF before, new
  <2>6. y \notin nodes => Cardinality(before) = 0
    BY <2>2, FS_EmptySet
  <2>7. QED
    BY <2>1, <2>3, <2>4, <2>5, <2>6 DEF new
<1>8. ASSUME NEW y \in nodes, m[y] = 0 PROVE n[y] = 0
  <2>1. y \in all /\ n[y] \in Nat /\ Cardinality(on(y)) \in Nat
        /\ m[y] = n[y] + Cardinality(on(y))
    BY <1>7
  <2> HIDE DEF on
  <2>2. QED
    BY <1>8, <2>1
<1>9. ASSUME NEW y \in added, y # key PROVE m[y] # 0
  <2>1. y \in Prefixes(key) /\ y \in all /\ y \notin nodes
    BY <1>2
  <2> DEFINE z == SubSeq(key, 1, Len(y) + 1)
  <2>2. /\ Len(y) \in 0..Len(key) /\ y = SubSeq(key, 1, Len(y)) /\ Len(key) \in Nat
        /\ key = SubSeq(key, 1, Len(key))
    BY <2>1, PrefixFacts
  <2>3. Len(y) # Len(key)
    BY <1>9, <2>2, Zenon
  <2>4. Len(y) + 1 \in 1..Len(key) /\ Len(y) + 1 \in 0..Len(key) /\ (Len(y) + 1) - 1 = Len(y)
    <3> DEFINE a == Len(y)
               b == Len(key)
    <3>1. a \in 0..b /\ b \in Nat /\ a # b
      BY <2>2, <2>3, Zenon
    <3> HIDE DEF a, b
    <3>2. a + 1 \in 1..b /\ a + 1 \in 0..b /\ (a + 1) - 1 = a
      BY <3>1
    <3>3. QED
      BY <3>2 DEF a, b
  <2>5. z # <<>> /\ Front(z) = y /\ z \in Prefixes(key)
    <3> DEFINE l == Len(y) + 1
    <3>1. l \in 1..Len(key) /\ l \in 0..Len(key) /\ l - 1 = Len(y)
      BY <2>4
    <3> HIDE DEF l
    <3>2. /\ SubSeq(key, 1, l) # <<>> /\ SubSeq(key, 1, l) \in Prefixes(key)
          /\ Front(SubSeq(key, 1, l)) = SubSeq(key, 1, l - 1)
      BY <3>1, PrefixFacts
    <3>3. QED
      BY <2>2, <3>1, <3>2 DEF l
  <2> HIDE DEF z
  <2>6. z \notin nodes
    BY <1>1, <2>1, <2>5
  <2>7. z \in added
    BY <1>2, <2>5, <2>6
  <2>8. on(y) # {} /\ IsFiniteSet(on(y))
    BY <1>6, <2>1, <2>5, <2>7
  <2>9. Cardinality(on(y)) # 0
    <3> HIDE DEF on
    <3>1. QED
      BY <2>8, FS_EmptySet
  <2>10. m[y] = 0 + Cardinality(on(y)) /\ Cardinality(on(y)) \in Nat
    BY <1>7, <2>1
  <2> HIDE DEF on
  <2>11. QED
    BY <2>9, <2>10
<1>10. Trie(all, m)
  BY <1>4, <1>5, <1>7 DEF Trie
<1>11. QED
  BY <1>4, <1>8, <1>9, <1>10 DEF added, m

\* What is of no use without the key: upwards from the key, what leads to
\* nothing else and has no datum.
Useless(n, datum, none, key) ==
  {x \in Prefixes(key) \ {<<>>} :
     \A y \in Prefixes(key) : Len(y) >= Len(x) =>
        IF y = key THEN n[y] = 0 ELSE datum[y] = none /\ n[y] = 1}
CountsPruned(nodes, n, freed) ==
  [y \in nodes \ freed |-> n[y] - Cardinality({z \in freed : Front(z) = y})]

\* What is left when that is pruned.
Pruned(nodes, n, datum, none, key) ==
  LET freed == Useless(n, datum, none, key)
      m == CountsPruned(nodes, n, freed)
  IN /\ Trie(nodes \ freed, m)
     /\ freed \subseteq nodes /\ Cardinality(freed) \in Nat
     /\ Cardinality(nodes) \in Nat
     /\ Cardinality(nodes \ freed) = Cardinality(nodes) - Cardinality(freed)
     /\ \A x \in freed : x # key => datum[x] = none
     /\ \A x \in nodes \ freed :
          /\ x # <<>> /\ m[x] = 0 /\ (n[x] = 0 => datum[x] # none)
          => x # key /\ datum[x] # none

LEMMA TriePruned ==
  ASSUME NEW nodes, NEW n, Trie(nodes, n), NEW D, NEW key \in Seq(D),
         key \in nodes, NEW datum, NEW none
  PROVE  Pruned(nodes, n, datum, none, key)
<1> DEFINE freed == Useless(n, datum, none, key)
           m == CountsPruned(nodes, n, freed)
           stay == nodes \ freed
           gone(y) == {z \in freed : Front(z) = y}
           next(y) == SubSeq(key, 1, Len(y) + 1)
           bare(y) == IF y = key THEN n[y] = 0 ELSE datum[y] = none /\ n[y] = 1
<1>1. /\ IsFiniteSet(nodes) /\ <<>> \in nodes
      /\ \A x \in nodes : /\ x # <<>> => Front(x) \in nodes
                          /\ n[x] = Cardinality(ChildrenIn(nodes, x))
  BY DEF Trie
<1>2. freed = {x \in Prefixes(key) \ {<<>>} :
                 \A y \in Prefixes(key) : Len(y) >= Len(x) => bare(y)}
  BY DEF Useless
<1>3. Prefixes(key) \subseteq nodes
  BY WayThere
<1>4. /\ key \in Prefixes(key) /\ Len(key) \in Nat /\ key = SubSeq(key, 1, Len(key))
      /\ \A x \in Prefixes(key) : Len(x) \in 0..Len(key) /\ x = SubSeq(key, 1, Len(x))
  BY PrefixFacts
<1>5. ASSUME NEW x \in Prefixes(key), x # key
      PROVE  /\ next(x) \in Prefixes(key) /\ next(x) # <<>> /\ Front(next(x)) = x
             /\ Len(x) \in Nat /\ Len(next(x)) = Len(x) + 1
  <2> DEFINE a == Len(x)
             b == Len(key)
  <2>1. a \in 0..b /\ b \in Nat /\ a # b
    BY <1>4, <1>5
  <2>2. x = SubSeq(key, 1, a)
    BY <1>4
  <2> HIDE DEF a, b
  <2>3. a + 1 \in 1..b /\ a + 1 \in 0..b /\ (a + 1) - 1 = a /\ a \in Nat
    BY <2>1
  <2> DEFINE l == a + 1
  <2> HIDE DEF l
  <2>4. l \in 1..Len(key) /\ l \in 0..Len(key) /\ l - 1 = a
    BY <2>3 DEF l, b
  <2>5. /\ SubSeq(key, 1, l) # <<>> /\ SubSeq(key, 1, l) \in Prefixes(key)
        /\ Len(SubSeq(key, 1, l)) = l
        /\ Front(SubSeq(key, 1, l)) = SubSeq(key, 1, l - 1)
    BY <2>4, PrefixFacts
  <2>6. next(x) = SubSeq(key, 1, l)
    BY DEF l, a
  <2> HIDE DEF next
  <2>7. QED
    BY <2>2, <2>3, <2>4, <2>5, <2>6 DEF l, a
<1>6. ASSUME NEW x \in Prefixes(key), x # <<>>
      PROVE  Front(x) \in Prefixes(key) /\ Front(x) # key /\ next(Front(x)) = x
  <2> DEFINE a == Len(x)
             b == Len(key)
             y == SubSeq(key, 1, a - 1)
  <2>1. a \in 0..b /\ b \in Nat /\ x = SubSeq(key, 1, a) /\ (a = 0 => x = <<>>)
    <3>1. x \in Seq(D) /\ Len(x) \in 0..Len(key) /\ x = SubSeq(key, 1, Len(x)) /\ Len(key) \in Nat
      BY PrefixFacts
    <3>2. QED
      BY <3>1
  <2> HIDE DEF a, b
  <2>2. a \in 1..b /\ a - 1 \in 0..b /\ (a - 1) + 1 = a /\ a - 1 # b
    BY <1>6, <2>1
  <2>3. y \in Prefixes(key) /\ Len(y) = a - 1 /\ Front(x) = y
    <3>1. a \in 1..Len(key) /\ a - 1 \in 0..Len(key)
      BY <2>2 DEF b
    <3>2. QED
      BY <2>1, <3>1, PrefixFacts
  <2> HIDE DEF y
  <2>4. y # key
    BY <2>2, <2>3 DEF b
  <2>5. next(y) = x
    BY <2>1, <2>2, <2>3
  <2>6. QED
    BY <2>3, <2>4, <2>5
<1> HIDE DEF freed, m, stay, bare
<1>7. ASSUME NEW x \in freed
      PROVE  x \in Prefixes(key) /\ x \in nodes /\ x # <<>> /\ bare(x)
             /\ (x # key => next(x) \in freed)
  <2>1. x \in Prefixes(key) /\ x # <<>> /\ \A y \in Prefixes(key) : Len(y) >= Len(x) => bare(y)
    BY <1>2
  <2>2. Len(x) \in Nat
    BY <1>4, <2>1
  <2>3. bare(x)
    BY <2>1, <2>2
  <2>4. ASSUME x # key PROVE next(x) \in freed
    <3>1. /\ next(x) \in Prefixes(key) /\ next(x) # <<>>
          /\ Len(next(x)) = Len(x) + 1
      BY <1>5, <2>1, <2>4
    <3> HIDE DEF next
    <3>2. ASSUME NEW y \in Prefixes(key), Len(y) >= Len(next(x)) PROVE bare(y)
      <4>1. Len(y) \in Nat
        BY <1>4
      <4>2. Len(y) >= Len(x)
        BY <2>2, <3>1, <3>2, <4>1
      <4>3. QED
        BY <2>1, <4>2
    <3>3. QED
      BY <1>2, <3>1, <3>2
  <2>5. QED
    BY <1>3, <2>1, <2>3, <2>4
<1>8. IsFiniteSet(freed) /\ freed \subseteq nodes /\ IsFiniteSet(stay) /\ <<>> \in stay
  <2>1. freed \subseteq nodes /\ <<>> \notin freed /\ stay \subseteq nodes
    BY <1>7 DEF stay
  <2>2. QED
    BY <1>1, <2>1, FS_Subset DEF stay
<1>9. /\ Cardinality(stay) = Cardinality(nodes) - Cardinality(freed)
      /\ Cardinality(nodes) \in Nat /\ Cardinality(freed) \in Nat
  <2>1. /\ Cardinality(stay \cup freed) =
             Cardinality(stay) + Cardinality(freed) - Cardinality(stay \cap freed)
        /\ Cardinality(stay) \in Nat /\ Cardinality(freed) \in Nat
        /\ Cardinality(nodes) \in Nat
    BY <1>1, <1>8, FS_Union, FS_CardinalityType
  <2>2. stay \cup freed = nodes /\ stay \cap freed = {}
    BY <1>8 DEF stay
  <2>3. Cardinality(stay \cap freed) = 0
    BY <2>2, FS_EmptySet
  <2> DEFINE a == Cardinality(nodes)
             b == Cardinality(stay)
             c == Cardinality(freed)
  <2>4. a = b + c - 0 /\ a \in Nat /\ b \in Nat /\ c \in Nat
    BY <2>1, <2>2, <2>3
  <2> HIDE DEF a, b, c
  <2>5. b = a - c /\ a \in Nat /\ c \in Nat
    BY <2>4
  <2>6. QED
    BY <2>5 DEF a, b, c
\* A useless node has no child but the useless one on the way to the key.
<1>10. ASSUME NEW x \in freed PROVE ChildrenIn(nodes, x) \subseteq freed
  <2>1. x \in nodes /\ bare(x) /\ x \in Prefixes(key)
    BY <1>7
  <2> DEFINE kids == ChildrenIn(nodes, x)
  <2>2. IsFiniteSet(kids) /\ n[x] = Cardinality(kids)
    <3>1. kids \subseteq nodes
      BY DEF ChildrenIn
    <3>2. QED
      BY <1>1, <2>1, <3>1, FS_Subset
  <2>3. CASE x = key
    <3>1. n[x] = 0
      BY <2>1, <2>3 DEF bare
    <3> HIDE DEF kids
    <3>2. kids = {}
      BY <2>2, <3>1, FS_EmptySet
    <3>3. QED
      BY <3>2 DEF kids
  <2>4. CASE x # key
    <3>1. n[x] = 1
      BY <2>1, <2>4 DEF bare
    <3>2. next(x) \in freed /\ next(x) \in kids
      <4>1. next(x) \in freed
        BY <1>7, <2>4
      <4>2. next(x) \in nodes /\ next(x) # <<>> /\ Front(next(x)) = x
        BY <1>3, <1>5, <2>1, <2>4
      <4> HIDE DEF next
      <4>3. QED
        BY <4>1, <4>2 DEF ChildrenIn
    <3> HIDE DEF kids, next
    <3>3. \E z : kids = {z}
      BY <2>2, <3>1, FS_Singleton
    <3>4. kids = {next(x)}
      BY <3>2, <3>3
    <3>5. QED
      BY <3>2, <3>4 DEF kids
  <2>5. QED
    BY <2>3, <2>4
<1>11. ASSUME NEW x \in stay, x # <<>> PROVE Front(x) \in stay
  <2>1. x \in nodes /\ x \notin freed /\ Front(x) \in nodes
    BY <1>1, <1>11 DEF stay
  <2>2. x \in ChildrenIn(nodes, Front(x))
    BY <1>11, <2>1 DEF ChildrenIn
  <2>3. Front(x) \notin freed
    BY <1>10, <2>1, <2>2
  <2>4. QED
    BY <2>1, <2>3 DEF stay
<1>12. ASSUME NEW y \in stay
       PROVE  /\ ChildrenIn(stay, y) = ChildrenIn(nodes, y) \ gone(y)
              /\ gone(y) \subseteq ChildrenIn(nodes, y)
              /\ IsFiniteSet(ChildrenIn(nodes, y))
              /\ m[y] = n[y] - Cardinality(gone(y))
              /\ n[y] = Cardinality(ChildrenIn(nodes, y))
  <2>1. /\ ChildrenIn(stay, y) = ChildrenIn(nodes, y) \ gone(y)
        /\ gone(y) \subseteq ChildrenIn(nodes, y)
        /\ ChildrenIn(nodes, y) \subseteq nodes
    BY <1>7 DEF ChildrenIn, stay
  <2>2. m[y] = n[y] - Cardinality(gone(y))
    BY DEF m, CountsPruned, stay
  <2>3. n[y] = Cardinality(ChildrenIn(nodes, y))
    BY <1>1 DEF stay
  <2> HIDE DEF gone
  <2>4. QED
    BY <1>1, <2>1, <2>2, <2>3, FS_Subset
<1>13. ASSUME NEW y \in stay
       PROVE  /\ m[y] = Cardinality(ChildrenIn(stay, y))
              /\ IsFiniteSet(gone(y)) /\ Cardinality(gone(y)) \in Nat
              /\ n[y] \in Nat /\ m[y] = n[y] - Cardinality(gone(y))
  <2> DEFINE kids == ChildrenIn(nodes, y)
             left == ChildrenIn(stay, y)
             lost == gone(y)
  <2>1. left = kids \ lost /\ lost \subseteq kids /\ IsFiniteSet(kids)
        /\ m[y] = n[y] - Cardinality(lost) /\ n[y] = Cardinality(kids)
    BY <1>12
  <2> HIDE DEF kids, left, lost
  <2>2. IsFiniteSet(left) /\ IsFiniteSet(lost) /\ left \cup lost = kids /\ left \cap lost = {}
    <3>1. left \subseteq kids /\ left \cup lost = kids /\ left \cap lost = {}
      BY <2>1
    <3>2. QED
      BY <2>1, <3>1, FS_Subset
  <2>3. /\ Cardinality(kids) = Cardinality(left) + Cardinality(lost) - Cardinality(left \cap lost)
        /\ Cardinality(left) \in Nat /\ Cardinality(lost) \in Nat
        /\ Cardinality(kids) \in Nat
    BY <2>1, <2>2, FS_Union, FS_CardinalityType
  <2>4. Cardinality(left \cap lost) = 0
    BY <2>2, FS_EmptySet
  <2>5. m[y] = Cardinality(left)
    BY <2>1, <2>3, <2>4
  <2>6. QED
    BY <2>1, <2>2, <2>3, <2>5 DEF left, lost
<1>14. Trie(stay, m)
  BY <1>8, <1>11, <1>13 DEF Trie
<1>15. ASSUME NEW x \in freed, x # key PROVE datum[x] = none
  BY <1>7, <1>15 DEF bare
<1>16. ASSUME NEW x \in stay, x # <<>>, m[x] = 0, n[x] = 0 => datum[x] # none
       PROVE  x # key /\ datum[x] # none
  <2>1. n[x] \in Nat /\ Cardinality(gone(x)) = n[x] /\ IsFiniteSet(gone(x))
    <3>1. /\ IsFiniteSet(gone(x)) /\ Cardinality(gone(x)) \in Nat
          /\ n[x] \in Nat /\ m[x] = n[x] - Cardinality(gone(x))
      BY <1>13
    <3> HIDE DEF gone
    <3>2. QED
      BY <1>16, <3>1
  <2>2. CASE n[x] = 0
    <3>1. datum[x] # none
      BY <1>16, <2>2
    <3>2. ASSUME x = key PROVE FALSE
      <4>1. ASSUME NEW y \in Prefixes(key), Len(y) >= Len(key) PROVE bare(y)
        <5>1. Len(y) \in 0..Len(key) /\ y = SubSeq(key, 1, Len(y))
          BY <1>4
        <5>2. Len(y) = Len(key)
          <6> DEFINE a == Len(y)
                     b == Len(key)
          <6>1. a \in 0..b /\ b \in Nat /\ a >= b
            BY <1>4, <4>1, <5>1
          <6> HIDE DEF a, b
          <6>2. a = b
            BY <6>1
          <6>3. QED
            BY <6>2 DEF a, b
        <5>3. y = key
          BY <1>4, <5>1, <5>2
        <5>4. QED
          BY <2>2, <3>2, <5>3 DEF bare
      <4>2. key \in freed
        BY <1>2, <1>4, <1>16, <3>2, <4>1
      <4>3. QED
        BY <3>2, <4>2 DEF stay
    <3>3. QED
      BY <3>1, <3>2
  <2>3. CASE n[x] # 0
    <3>1. PICK z \in freed : Front(z) = x
      <4>1. gone(x) # {}
        <5> HIDE DEF gone
        <5>1. QED
          BY <2>1, <2>3, FS_EmptySet
      <4>2. QED
        BY <4>1
    <3>2. z \in Prefixes(key) /\ z # <<>>
      BY <1>7
    <3>3. x \in Prefixes(key) /\ x # key /\ next(x) = z
      BY <1>6, <3>1, <3>2
    <3>4. gone(x) = {z}
      <4>1. ASSUME NEW u \in gone(x) PROVE u = z
        <5>1. u \in Prefixes(key) /\ u # <<>> /\ Front(u) = x
          BY <1>7
        <5>2. next(x) = u
          BY <1>6, <5>1
        <5> HIDE DEF next
        <5>3. QED
          BY <3>3, <5>2
      <4>2. QED
        BY <3>1, <4>1
    <3>5. n[x] = 1
      BY <2>1, <3>4, FS_Singleton
    <3>6. ASSUME datum[x] = none PROVE FALSE
      <4>1. bare(x)
        BY <3>3, <3>5, <3>6 DEF bare
      <4>2. ASSUME NEW y \in Prefixes(key), Len(y) >= Len(x) PROVE bare(y)
        <5>1. Len(y) \in Nat /\ Len(x) \in Nat /\ y = SubSeq(key, 1, Len(y))
              /\ x = SubSeq(key, 1, Len(x))
          BY <1>4, <3>3
        <5>2. Len(z) = Len(x) + 1
          BY <1>5, <3>3
        <5>3. CASE Len(y) = Len(x)
          BY <4>1, <5>1, <5>3
        <5>4. CASE Len(y) # Len(x)
          <6> DEFINE a == Len(y)
                     b == Len(x)
          <6>0. a \in Nat /\ b \in Nat /\ a >= b /\ a # b
            BY <4>2, <5>1, <5>4, Zenon
          <6> HIDE DEF a, b
          <6>a. a >= b + 1
            BY <6>0
          <6>1. Len(y) >= Len(z)
            BY <5>2, <6>a DEF a, b
          <6>2. QED
            BY <1>2, <6>1
        <5>5. QED
          BY <5>3, <5>4
      <4>3. x \in freed
        BY <1>2, <1>16, <3>3, <4>2
      <4>4. QED
        BY <4>3 DEF stay
    <3>7. QED
      BY <3>3, <3>6
  <2>4. QED
    BY <2>2, <2>3
<1>17. QED
  BY <1>8, <1>9, <1>14, <1>15, <1>16 DEF freed, m, stay, Pruned

-----------------------------------------------------------------------------
(***************************************************************************)
(* Bits in words.  A number is a word and a bit in it; numbers compare as  *)
(* their words do, then as their bits do.                                  *)
(***************************************************************************)
LEMMA WordAndBit ==
  ASSUME NEW p \in Int, NEW w \in Nat \ {0}
  PROVE  /\ p \div w \in Int /\ p % w \in 0..w - 1
         /\ p = (p \div w) * w + (p % w)
         /\ p >= 0 => p \div w >= 0
<1>1. p % w \in 0..w - 1
  OBVIOUS
<1>2. p \div w \in Int
  OBVIOUS
<1>3. p = (p \div w) * w + (p % w)
  OBVIOUS
<1>4. p >= 0 => p \div w >= 0
  OBVIOUS
<1>5. QED
  BY <1>1, <1>2, <1>3, <1>4

LEMMA WordsFirst ==
  ASSUME NEW w \in Nat \ {0}, NEW a \in Int, NEW b \in Int, a < b,
         NEW i \in 0..w - 1, NEW j \in 0..w - 1
  PROVE  a * w + i < b * w + j
<1> DEFINE c == b - a - 1
<1>1. c \in Nat /\ b = a + 1 + c
  OBVIOUS
<1> HIDE DEF c
<1>2. c * w \in Nat
  BY <1>1
<1>3. b * w = a * w + w + c * w
  BY <1>1
<1>4. a * w \in Int
  OBVIOUS
<1> DEFINE x == a * w
           y == b * w
           z == c * w
<1>5. x \in Int /\ z \in Nat /\ y = x + w + z
  BY <1>2, <1>3, <1>4
<1> HIDE DEF x, y, z
<1>6. x + i < y + j
  BY <1>5
<1>7. QED
  BY <1>6 DEF x, y

\* The first bit of the words, if it is not past the highest number.
FirstBit(has, size, w, lowest, highest) ==
  LET words == {i \in 0..(size - 1) : has[i] # {}}
      i == Min(words)
      first == Min(has[i]) + i * w + lowest
  IN IF words = {} \/ first > highest THEN {} ELSE {first}

\* The words hold the bits of S, those past the highest number aside.
HoldsBits(has, size, w, lowest, highest, S) ==
  /\ size \in Nat /\ w \in Nat \ {0} /\ lowest \in Int /\ highest \in Int
  /\ S \subseteq lowest..highest
  /\ \A b \in S : (b - lowest) \div w \in 0..(size - 1)
  /\ \A i \in 0..(size - 1) :
       /\ has[i] \subseteq 0..(w - 1)
       /\ \A j \in 0..(w - 1) : i * w + j + lowest <= highest =>
            (j \in has[i] <=> i * w + j + lowest \in S)

LEMMA FirstBitFound ==
  ASSUME NEW has, NEW size, NEW w, NEW lowest, NEW highest, NEW S,
         HoldsBits(has, size, w, lowest, highest, S)
  PROVE  FirstBit(has, size, w, lowest, highest) =
           IF S = {} THEN {} ELSE {Min(S)}
<1> DEFINE words == {i \in 0..(size - 1) : has[i] # {}}
           i == Min(words)
           k == Min(has[i])
           first == k + i * w + lowest
           At(a, j) == a * w + j + lowest
<1>1. /\ size \in Nat /\ w \in Nat \ {0} /\ lowest \in Int /\ highest \in Int
      /\ S \subseteq lowest..highest
  BY DEF HoldsBits
<1>2. ASSUME NEW a \in words
      PROVE  a \in Nat /\ has[a] \subseteq Nat /\ has[a] # {} /\ a \in 0..(size - 1)
             /\ has[a] \subseteq 0..(w - 1)
  BY <1>1 DEF HoldsBits
<1>3. ASSUME NEW b \in S
      PROVE  \E a \in words : \E j \in has[a] : b = At(a, j)
  <2> DEFINE a == (b - lowest) \div w
             j == (b - lowest) % w
  <2>1. b \in Int /\ b - lowest \in Int /\ b <= highest
    BY <1>1
  <2>2. j \in 0..(w - 1) /\ b - lowest = a * w + j /\ a \in Int
    BY <1>1, <2>1, WordAndBit
  <2>3. a \in 0..(size - 1)
    BY DEF HoldsBits
  <2> HIDE DEF a, j
  <2>4. a * w \in Int
    BY <1>1, <2>2
  <2>5. a * w + j + lowest = b
    BY <1>1, <2>1, <2>2, <2>4
  <2>6. j \in has[a]
    BY <2>1, <2>2, <2>3, <2>5 DEF HoldsBits
  <2>7. QED
    BY <2>3, <2>5, <2>6
<1>4. CASE words = {}
  <2>1. S = {}
    BY <1>3, <1>4
  <2>2. QED
    BY <1>4, <2>1 DEF FirstBit
<1>5. CASE words # {}
  <2>1. i \in words /\ \A a \in words : i <= a
    <3>1. words \subseteq Nat
      BY <1>2
    <3> HIDE DEF words
    <3>2. QED
      BY <1>5, <3>1, LeastOf
  <2> HIDE DEF i
  <2>2. k \in has[i] /\ \A j \in has[i] : k <= j
    <3>1. has[i] \subseteq Nat /\ has[i] # {}
      BY <1>2, <2>1
    <3>2. QED
      BY <3>1, LeastOf
  <2> HIDE DEF k
  <2>3. i \in Nat /\ i \in 0..(size - 1) /\ k \in 0..(w - 1)
    BY <1>2, <2>1, <2>2
  <2>4. first \in Int /\ first = At(i, k)
    BY <1>1, <2>3
  <2>5. ASSUME NEW b \in S PROVE first <= b
    <3>0. PICK a \in words : \E j \in has[a] : b = At(a, j)
      BY <1>3
    <3>1. PICK j \in has[a] : b = At(a, j)
      BY <3>0
    <3>2. a \in Nat /\ j \in 0..(w - 1) /\ i <= a
      BY <1>2, <2>1
    <3>3. CASE a = i
      <4>1. k <= j
        BY <2>2, <3>3
      <4>2. i * w \in Int
        BY <1>1, <2>3
      <4>3. QED
        BY <1>1, <2>3, <3>1, <3>2, <3>3, <4>1, <4>2
    <3>4. CASE a # i
      <4>1. i < a
        BY <2>3, <3>2, <3>4
      <4>2. i * w + k < a * w + j
        BY <1>1, <2>3, <3>2, <4>1, WordsFirst
      <4>3. i * w \in Int /\ a * w \in Int
        BY <1>1, <2>3, <3>2
      <4> DEFINE x == i * w
                 y == a * w
      <4>4. x \in Int /\ y \in Int /\ x + k < y + j /\ b = y + j + lowest
            /\ first = k + x + lowest
        BY <3>1, <4>2, <4>3
      <4> HIDE DEF x, y, first
      <4>5. QED
        BY <1>1, <2>3, <3>2, <4>4
    <3>5. QED
      BY <3>3, <3>4
  <2>6. FirstBit(has, size, w, lowest, highest) = IF first > highest THEN {} ELSE {first}
    BY <1>5 DEF FirstBit, i, k
  <2>7. CASE first > highest
    <3>1. S = {}
      <4>1. ASSUME NEW b \in S PROVE FALSE
        <5>1. first <= b /\ b <= highest /\ b \in Int
          BY <1>1, <2>5
        <5> HIDE DEF first
        <5>2. QED
          BY <1>1, <2>4, <2>7, <5>1
      <4>2. QED
        BY <4>1
    <3> HIDE DEF first
    <3>2. QED
      BY <2>6, <2>7, <3>1
  <2>8. CASE ~(first > highest)
    <3>1. first \in S
      <4>1. At(i, k) <= highest
        <5>1. first <= highest
          <6> HIDE DEF first
          <6>1. QED
            BY <1>1, <2>4, <2>8
        <5>2. QED
          BY <2>4, <5>1
      <4>2. At(i, k) \in S
        BY <2>2, <2>3, <4>1 DEF HoldsBits
      <4>3. QED
        BY <2>4, <4>2
    <3> HIDE DEF first
    <3>2. Min(S) = first
      <4>1. \A x \in S : x \in Int
        BY <1>1
      <4>2. ASSUME NEW x \in S, \A y \in S : x <= y PROVE x = first
        <5>1. x <= first /\ first <= x /\ x \in Int /\ first \in Int
          BY <2>4, <2>5, <3>1, <4>1, <4>2
        <5>2. QED
          BY <5>1
      <4>3. first \in S /\ \A y \in S : first <= y
        BY <2>5, <3>1
      <4>4. QED
        BY <4>2, <4>3 DEF Min
    <3>3. QED
      BY <2>6, <2>8, <3>1, <3>2
  <2>9. QED
    BY <2>7, <2>8
<1>6. QED
  BY <1>4, <1>5

-----------------------------------------------------------------------------
(***************************************************************************)
(* Ascending lists of numbers: a finite set has one, and one only.         *)
(***************************************************************************)
Ascends(s, S) ==
  /\ s \in Seq(Nat) /\ ToSet(s) = S
  /\ \A i, j \in 1..Len(s) : i < j => s[i] < s[j]
AscendingOf(S) ==
  CHOOSE s \in [1..Cardinality(S) -> S] :
    \A i, j \in 1..Cardinality(S) : i < j => s[i] < s[j]

LEMMA AscendsOnce ==
  ASSUME NEW S, NEW s, NEW t, Ascends(s, S), Ascends(t, S)
  PROVE  \A i \in 1..Len(s) : i <= Len(t) /\ s[i] = t[i]
<1> DEFINE K == {n \in Nat : \A i \in 1..Len(s) : i <= n => i <= Len(t) /\ s[i] = t[i]}
<1>0. Len(s) \in Nat /\ Len(t) \in Nat
  BY DEF Ascends
<1>1. /\ \A i \in 1..Len(s) : s[i] \in Nat /\ \E j \in 1..Len(t) : t[j] = s[i]
      /\ \A i \in 1..Len(t) : t[i] \in Nat /\ \E j \in 1..Len(s) : s[j] = t[i]
  <2>1. /\ s \in Seq(Nat) /\ t \in Seq(Nat) /\ ToSet(s) = ToSet(t)
        /\ DOMAIN s = 1..Len(s) /\ DOMAIN t = 1..Len(t)
    BY DEF Ascends
  <2>2. /\ \A i \in 1..Len(s) : s[i] \in ToSet(t)
        /\ \A i \in 1..Len(t) : t[i] \in ToSet(s)
    BY <2>1 DEF ToSet
  <2>3. /\ \A i \in 1..Len(s) : \E j \in 1..Len(t) : t[j] = s[i]
        /\ \A i \in 1..Len(t) : \E j \in 1..Len(s) : s[j] = t[i]
    BY <2>1, <2>2 DEF ToSet
  <2>4. /\ \A i \in 1..Len(s) : s[i] \in Nat
        /\ \A i \in 1..Len(t) : t[i] \in Nat
    BY <2>1
  <2>5. QED
    BY <2>3, <2>4
<1>2. /\ \A i, j \in 1..Len(s) : i < j => s[i] < s[j]
      /\ \A i, j \in 1..Len(t) : i < j => t[i] < t[j]
  BY DEF Ascends
<1>3. 0 \in K
  BY <1>0
<1>4. ASSUME NEW n \in K PROVE n + 1 \in K
  <2>1. n \in Nat /\ \A i \in 1..Len(s) : i <= n => i <= Len(t) /\ s[i] = t[i]
    OBVIOUS
  <2>2. ASSUME n + 1 \in 1..Len(s)
        PROVE  n + 1 <= Len(t) /\ s[n + 1] = t[n + 1]
    <3> DEFINE m == n + 1
    <3>1. m \in 1..Len(s) /\ m \in Nat /\ \A i \in Nat : i < m <=> i <= n
      BY <2>1, <2>2
    <3> HIDE DEF m
    <3>2. PICK j \in 1..Len(t) : t[j] = s[m]
      BY <1>1, <3>1
    <3>3. ~(j < m)
      <4>1. SUFFICES ASSUME j < m PROVE FALSE
        OBVIOUS
      <4>2. j \in 1..Len(s) /\ j <= n
        <5>1. j \in Nat /\ j >= 1 /\ m <= Len(s)
          BY <1>0, <3>1
        <5>2. QED
          BY <1>0, <3>1, <4>1, <5>1
      <4>3. s[j] = s[m] /\ s[j] < s[m]
        BY <1>2, <2>1, <3>1, <3>2, <4>1, <4>2
      <4>4. s[m] \in Nat
        BY <1>1, <3>1
      <4>5. QED
        BY <4>3, <4>4
    <3>4. ~(m < j)
      <4>1. SUFFICES ASSUME m < j PROVE FALSE
        OBVIOUS
      <4>a. j \in Nat /\ j <= Len(t) /\ m >= 1
        BY <1>0, <3>1
      <4>b. m \in 1..Len(t)
        BY <1>0, <3>1, <4>1, <4>a
      <4>2. m \in 1..Len(t) /\ t[m] < t[j]
        BY <1>2, <4>1, <4>b
      <4>3. PICK k \in 1..Len(s) : s[k] = t[m]
        BY <1>1, <4>2
      <4>4. s[k] < s[m] /\ s[k] \in Nat /\ s[m] \in Nat
        BY <1>1, <3>1, <3>2, <4>2, <4>3
      <4>5. k < m
        <5>1. CASE m < k
          BY <1>2, <3>1, <4>4, <5>1
        <5>2. CASE m = k
          BY <4>4, <5>2
        <5>3. QED
          BY <3>1, <5>1, <5>2
      <4>c. k \in Nat /\ k >= 1 /\ k <= n
        BY <1>0, <3>1, <4>5
      <4>d. k <= Len(t) /\ s[k] = t[k]
        BY <2>1, <4>c
      <4>6. k <= Len(t) /\ s[k] = t[k] /\ k \in 1..Len(t)
        BY <1>0, <4>c, <4>d
      <4>7. t[k] < t[m]
        BY <1>2, <4>2, <4>5, <4>6
      <4>8. t[k] = t[m] /\ t[m] \in Nat
        BY <1>1, <4>2, <4>3, <4>6
      <4>9. QED
        BY <4>7, <4>8
    <3>5. j = m
      BY <3>1, <3>3, <3>4
    <3>6. m <= Len(t) /\ s[m] = t[m]
      BY <3>2, <3>5
    <3>7. QED
      BY <3>6 DEF m
  <2>3. ASSUME NEW i \in 1..Len(s), i <= n + 1 PROVE i <= Len(t) /\ s[i] = t[i]
    <3>1. i <= n \/ i = n + 1
      BY <2>1, <2>3
    <3>2. CASE i <= n
      BY <2>1, <3>2
    <3>3. CASE i = n + 1
      BY <2>2, <3>3
    <3>4. QED
      BY <3>1, <3>2, <3>3
  <2>4. QED
    BY <2>1, <2>3
<1>5. K = Nat
  <2>1. K \subseteq Nat
    OBVIOUS
  <2> HIDE DEF K
  <2>2. QED
    BY <1>3, <1>4, <2>1, Inductive
<1>6. Len(s) \in K
  <2> HIDE DEF K
  <2>1. QED
    BY <1>0, <1>5
<1>7. QED
  BY <1>0, <1>6

LEMMA AscendsUniquely ==
  ASSUME NEW S, NEW s, NEW t, Ascends(s, S), Ascends(t, S)
  PROVE  s = t
<1>1. /\ s \in Seq(Nat) /\ t \in Seq(Nat) /\ Len(s) \in Nat /\ Len(t) \in Nat
  BY DEF Ascends
<1>2. /\ \A i \in 1..Len(s) : i <= Len(t) /\ s[i] = t[i]
      /\ \A i \in 1..Len(t) : i <= Len(s) /\ t[i] = s[i]
  BY AscendsOnce
<1>3. Len(s) = Len(t)
  <2>1. Len(s) <= Len(t)
    BY <1>1, <1>2
  <2>2. Len(t) <= Len(s)
    BY <1>1, <1>2
  <2>3. QED
    BY <1>1, <2>1, <2>2
<1>4. QED
  BY <1>1, <1>2, <1>3, SeqEqual

\* One after the other, and all numbers raised.
LEMMA AscendsOn ==
  ASSUME NEW S, NEW T, NEW s, NEW t, Ascends(s, S), Ascends(t, T),
         \A x \in S, y \in T : x < y
  PROVE  Ascends(s \o t, S \cup T)
<1> DEFINE u == s \o t
           a == Len(s)
           b == Len(t)
<1>1. s \in Seq(Nat) /\ t \in Seq(Nat) /\ ToSet(s) = S /\ ToSet(t) = T
  BY DEF Ascends
<1>2. a \in Nat /\ b \in Nat
  BY <1>1
<1>3. u \in Seq(Nat) /\ ToSet(u) = S \cup T
  BY <1>1, ElementsOfConcat
<1>4. Len(u) = a + b /\ \A i \in 1..a + b : u[i] = IF i <= a THEN s[i] ELSE t[i - a]
  BY <1>1, ConcatProperties
<1>5. /\ \A i \in 1..a : s[i] \in S
      /\ \A i \in 1..b : t[i] \in T
  BY <1>1 DEF ToSet
<1>6. /\ \A i, j \in 1..a : i < j => s[i] < s[j]
      /\ \A i, j \in 1..b : i < j => t[i] < t[j]
  BY DEF Ascends
<1> HIDE DEF u, a, b
<1>7. ASSUME NEW i \in 1..Len(u), NEW j \in 1..Len(u), i < j PROVE u[i] < u[j]
  <2>1. i \in 1..a + b /\ j \in 1..a + b
    BY <1>4
  <2>2. CASE j <= a
    <3>1. i \in 1..a /\ j \in 1..a /\ i <= a
      BY <1>2, <1>7, <2>1, <2>2
    <3>2. QED
      BY <1>4, <1>6, <1>7, <2>1, <3>1, <2>2
  <2>3. CASE ~(i <= a)
    <3>1. i - a \in 1..b /\ j - a \in 1..b /\ i - a < j - a /\ ~(j <= a)
      BY <1>2, <1>7, <2>1, <2>3
    <3>2. t[i - a] < t[j - a]
      BY <1>6, <3>1
    <3>3. u[i] = t[i - a] /\ u[j] = t[j - a]
      BY <1>4, <2>1, <2>3, <3>1
    <3>4. QED
      BY <3>2, <3>3
  <2>4. CASE i <= a /\ ~(j <= a)
    <3>1. i \in 1..a /\ j - a \in 1..b
      BY <1>2, <2>1, <2>4
    <3>2. u[i] = s[i] /\ u[j] = t[j - a]
      BY <1>4, <2>1, <2>4
    <3>3. s[i] \in S /\ t[j - a] \in T
      BY <1>5, <3>1
    <3>4. QED
      BY <3>2, <3>3
  <2>5. QED
    BY <2>2, <2>3, <2>4
<1>8. QED
  BY <1>3, <1>7 DEF Ascends, u

LEMMA AscendsRaised ==
  ASSUME NEW S, NEW s, Ascends(s, S), NEW c \in Nat
  PROVE  Ascends([i \in DOMAIN s |-> c + s[i]], {c + x : x \in S})
<1> DEFINE u == [i \in DOMAIN s |-> c + s[i]]
<1>1. s \in Seq(Nat) /\ ToSet(s) = S /\ Len(s) \in Nat /\ DOMAIN s = 1..Len(s)
      /\ \A i \in 1..Len(s) : s[i] \in Nat
  BY DEF Ascends
<1>2. u \in Seq(Nat) /\ Len(u) = Len(s) /\ \A i \in 1..Len(s) : u[i] = c + s[i]
  BY <1>1
<1>3. S = {s[i] : i \in 1..Len(s)}
  BY <1>1 DEF ToSet
<1> HIDE DEF u
<1>4. ToSet(u) = {u[i] : i \in 1..Len(s)}
  BY <1>2 DEF ToSet
<1>5. ToSet(u) = {c + x : x \in S}
  BY <1>2, <1>3, <1>4
<1>6. ASSUME NEW i \in 1..Len(u), NEW j \in 1..Len(u), i < j PROVE u[i] < u[j]
  <2>1. s[i] < s[j] /\ s[i] \in Nat /\ s[j] \in Nat
    BY <1>1, <1>2, <1>6 DEF Ascends
  <2>2. QED
    BY <1>2, <1>6, <2>1
<1>7. QED
  BY <1>2, <1>5, <1>6 DEF Ascends, u

LEMMA AscendsNothing == Ascends(<<>>, {})
BY ElementsOfEmpty DEF Ascends

LEMMA AscendsOne ==
  ASSUME NEW x \in Nat
  PROVE  Ascends(<<x>>, {x})
BY DEF Ascends, ToSet

\* As many as there are.
LEMMA AscendsAll ==
  ASSUME NEW S, NEW s, Ascends(s, S)
  PROVE  /\ IsFiniteSet(S) /\ Len(s) = Cardinality(S) /\ Len(s) \in Nat
         /\ s \in [1..Len(s) -> S]
<1>1. s \in Seq(Nat) /\ ToSet(s) = S /\ Len(s) \in Nat /\ DOMAIN s = 1..Len(s)
      /\ \A i \in 1..Len(s) : s[i] \in Nat
  BY DEF Ascends
<1>2. S = {s[i] : i \in 1..Len(s)} /\ s \in [1..Len(s) -> S]
  BY <1>1 DEF ToSet
<1>3. ASSUME NEW i \in 1..Len(s), NEW j \in 1..Len(s), s[i] = s[j] PROVE i = j
  <2>1. ~(i < j) /\ ~(j < i)
    BY <1>1, <1>3 DEF Ascends
  <2>2. QED
    BY <1>1, <2>1
<1>4. s \in Injection(1..Len(s), S) /\ s \in Surjection(1..Len(s), S)
  BY <1>2, <1>3 DEF Injection, Surjection, IsInjective
<1>5. s \in Bijection(1..Len(s), S)
  BY <1>4 DEF Bijection
<1>6. IsFiniteSet(1..Len(s)) /\ Cardinality(1..Len(s)) = Len(s)
  <2>a. 1 \in Int /\ Len(s) \in Int
    BY <1>1
  <2>1. /\ IsFiniteSet(1..Len(s))
        /\ Cardinality(1..Len(s)) = IF 1 > Len(s) THEN 0 ELSE Len(s) - 1 + 1
    BY <2>a, FS_Interval
  <2>2. QED
    BY <1>1, <2>1
<1>7. IsFiniteSet(S) /\ Cardinality(S) = Cardinality(1..Len(s))
  BY <1>5, <1>6, FS_Bijection DEF ExistsBijection
<1>8. QED
  BY <1>1, <1>2, <1>6, <1>7

LEMMA AscendsSome ==
  ASSUME NEW S, S \subseteq Nat, IsFiniteSet(S)
  PROVE  \E s : Ascends(s, S)
<1> DEFINE Q(D) == D \subseteq Nat /\ IsFiniteSet(D)
           K == {n \in Nat : \A D : Q(D) /\ Cardinality(D) = n => \E s : Ascends(s, D)}
<1>1. 0 \in K
  <2>1. ASSUME NEW D, Q(D), Cardinality(D) = 0 PROVE \E s : Ascends(s, D)
    <3>1. D = {}
      BY <2>1, FS_EmptySet
    <3>2. QED
      BY <3>1, AscendsNothing
  <2>2. QED
    BY <2>1
<1>2. ASSUME NEW n \in K PROVE n + 1 \in K
  <2>1. n \in Nat /\ \A D : Q(D) /\ Cardinality(D) = n => \E s : Ascends(s, D)
    OBVIOUS
  <2>2. ASSUME NEW D, Q(D), Cardinality(D) = n + 1 PROVE \E s : Ascends(s, D)
    <3>1. D # {}
      BY <2>1, <2>2, FS_EmptySet
    <3> DEFINE m == Min(D)
    <3>2. m \in D /\ \A y \in D : m <= y
      BY <2>2, <3>1, LeastOf
    <3> HIDE DEF m
    <3>3. Q(D \ {m}) /\ Cardinality(D \ {m}) = n
      <4>1. IsFiniteSet(D \ {m}) /\ Cardinality(D \ {m}) = (n + 1) - 1
        BY <2>2, <3>2, FS_RemoveElement
      <4>2. (n + 1) - 1 = n
        BY <2>1
      <4>3. D \ {m} \subseteq Nat
        BY <2>2
      <4>4. QED
        BY <4>1, <4>2, <4>3
    <3>4. PICK s : Ascends(s, D \ {m})
      BY <2>1, <3>3
    <3>5. Ascends(<<m>>, {m}) /\ m \in Nat
      BY <2>2, <3>2, AscendsOne
    <3>6. \A x \in {m}, y \in D \ {m} : x < y
      BY <2>2, <3>2
    <3>7. Ascends(<<m>> \o s, {m} \cup (D \ {m}))
      BY <3>4, <3>5, <3>6, AscendsOn
    <3>8. {m} \cup (D \ {m}) = D
      BY <3>2
    <3>9. QED
      BY <3>7, <3>8
  <2> HIDE DEF Q
  <2>3. n + 1 \in Nat
    BY <2>1
  <2>4. QED
    BY <2>2, <2>3
<1>3. K = Nat
  <2>1. K \subseteq Nat
    OBVIOUS
  <2> HIDE DEF K
  <2>2. QED
    BY <1>1, <1>2, <2>1, Inductive
<1>4. Cardinality(S) \in K
  <2> HIDE DEF K
  <2>1. QED
    BY <1>3, FS_CardinalityType
<1>5. QED
  BY <1>4

LEMMA AscendingIs ==
  ASSUME NEW S, S \subseteq Nat, IsFiniteSet(S)
  PROVE  Ascends(AscendingOf(S), S)
<1> DEFINE n == Cardinality(S)
           Up(s) == \A i, j \in 1..n : i < j => s[i] < s[j]
           s == CHOOSE s \in [1..n -> S] : Up(s)
<1>1. \E t \in [1..n -> S] : Up(t)
  <2>1. PICK t : Ascends(t, S)
    BY AscendsSome
  <2>2. Len(t) = n /\ t \in [1..Len(t) -> S]
    BY <2>1, AscendsAll
  <2>3. QED
    BY <2>1, <2>2 DEF Ascends
<1>2. s \in [1..n -> S] /\ Up(s)
  <2> HIDE DEF Up
  <2>1. QED
    BY <1>1
<1>3. AscendingOf(S) = s
  BY DEF AscendingOf
<1>4. n \in Nat
  BY FS_CardinalityType
<1> HIDE DEF s, n
<1>5. s \in Seq(Nat) /\ Len(s) = n
  <2>1. s \in [1..n -> Nat]
    BY <1>2
  <2>2. QED
    BY <1>4, <2>1
<1>6. ASSUME NEW i \in 1..n, NEW j \in 1..n, s[i] = s[j] PROVE i = j
  <2>1. s[i] \in Nat /\ s[j] \in Nat
    BY <1>2
  <2>2. ~(i < j) /\ ~(j < i)
    BY <1>2, <1>6, <2>1
  <2>3. QED
    BY <1>4, <2>2
<1>7. s \in Injection(1..n, S)
  BY <1>2, <1>6 DEF Injection, IsInjective
<1>8. Cardinality(1..n) = Cardinality(S)
  <2>1. Cardinality(1..n) = IF 1 > n THEN 0 ELSE n - 1 + 1
    BY <1>4, FS_Interval
  <2>2. QED
    BY <1>4, <2>1 DEF n
<1>9. s \in Surjection(1..n, S)
  BY <1>7, <1>8, FS_Injection
<1>10. ToSet(s) = S
  BY <1>5, <1>9 DEF Surjection, ToSet
<1>11. QED
  BY <1>2, <1>3, <1>5, <1>10 DEF Ascends

\* The lists of a list, one after the other.
Flattens(seqs, f) ==
  f = [i \in 1..Len(seqs) |-> IF i = 1 THEN seqs[i] ELSE f[i - 1] \o seqs[i]]

LEMMA FlattenIs ==
  ASSUME NEW seqs, Len(seqs) \in Nat \ {0}
  PROVE  \E f : Flattens(seqs, f) /\ FlattenSeq(seqs) = f[Len(seqs)]
<1> DEFINE k == Len(seqs)
           g == CHOOSE f : f = [i \in 1..k |-> IF i = 1 THEN seqs[i] ELSE f[i - 1] \o seqs[i]]
           Turn(f, i) == IF i = 1 THEN seqs[i] ELSE f[i - 1] \o seqs[i]
           upto(f, n) == /\ DOMAIN f = 1..k /\ f = [i \in 1..k |-> f[i]]
                         /\ \A i \in 1..k : i <= n => f[i] = Turn(f, i)
           K == {n \in Nat : \E f : upto(f, n)}
<1>1. FlattenSeq(seqs) = g[k]
  BY Zenon DEF FlattenSeq
<1>2. k \in Nat
  OBVIOUS
<1> HIDE DEF k
<1>3. 0 \in K
  <2>1. upto([i \in 1..k |-> 0], 0)
    <3> HIDE DEF Turn
    <3>1. \A i \in 1..k : ~(i <= 0)
      BY <1>2
    <3>2. QED
      BY <3>1
  <2> HIDE DEF upto
  <2>2. QED
    BY <2>1
<1>4. ASSUME NEW n \in K PROVE n + 1 \in K
  <2>1. PICK f : upto(f, n)
    OBVIOUS
  <2> DEFINE h == [i \in 1..k |-> Turn(f, i)]
  <2>2. DOMAIN h = 1..k /\ h = [i \in 1..k |-> h[i]]
        /\ \A i \in 1..k : h[i] = Turn(f, i)
    <3> HIDE DEF Turn
    <3>1. QED
      OBVIOUS
  <2> HIDE DEF h
  <2>3. ASSUME NEW i \in 1..k, i <= n + 1 PROVE h[i] = Turn(h, i)
    <3>1. n \in Nat
      OBVIOUS
    <3>2. CASE i = 1
      BY <2>2, <3>2
    <3>3. CASE i # 1
      <4>1. i - 1 \in 1..k /\ i - 1 <= n
        BY <1>2, <2>3, <3>1, <3>3
      <4>2. f[i - 1] = Turn(f, i - 1) /\ h[i - 1] = Turn(f, i - 1)
        BY <2>1, <2>2, <4>1
      <4>3. f[i - 1] = h[i - 1]
        BY <4>2
      <4>4. QED
        BY <2>2, <3>3, <4>3
    <3>4. QED
      BY <3>2, <3>3
  <2> HIDE DEF Turn
  <2>4. upto(h, n + 1)
    BY <2>2, <2>3
  <2> HIDE DEF upto
  <2>5. QED
    BY <2>4
<1>5. K = Nat
  <2> HIDE DEF upto
  <2>1. K \subseteq Nat
    OBVIOUS
  <2> HIDE DEF K
  <2>2. QED
    BY <1>3, <1>4, <2>1, Inductive
<1>6. PICK f : upto(f, k)
  <2> HIDE DEF upto
  <2>1. k \in K
    <3> HIDE DEF K
    <3>1. QED
      BY <1>2, <1>5
  <2>2. QED
    BY <2>1
<1>7. f = [i \in 1..k |-> Turn(f, i)]
  <2>1. \A i \in 1..k : i <= k
    BY <1>2
  <2> HIDE DEF Turn
  <2>2. \A i \in 1..k : f[i] = Turn(f, i)
    BY <1>6, <2>1
  <2>3. f = [i \in 1..k |-> f[i]]
    BY <1>6
  <2>4. QED
    BY <2>2, <2>3, Zenon
<1>8. g = [i \in 1..k |-> Turn(g, i)]
  BY <1>7, Zenon
<1> HIDE DEF g
<1>9. Flattens(seqs, g)
  BY <1>8 DEF Flattens, k
<1>10. QED
  BY <1>1, <1>9 DEF k

\* Lists that ascend, each through the numbers of a word of its own, ascend
\* through them all.
LEMMA AscendsFlat ==
  ASSUME NEW seqs, NEW k \in Nat \ {0}, Len(seqs) = k,
         NEW w \in Nat, NEW S, S \subseteq Nat,
         \A x \in S : x < k * w,
         \A i \in 1..k : Ascends(seqs[i], {x \in S : (i - 1) * w <= x /\ x < i * w})
  PROVE  Ascends(FlattenSeq(seqs), S)
<1> DEFINE Below(i) == {x \in S : x < i * w}
           Within(i) == {x \in S : (i - 1) * w <= x /\ x < i * w}
<1>1. PICK f : Flattens(seqs, f) /\ FlattenSeq(seqs) = f[k]
  BY FlattenIs
<1>2. \A i \in 1..k : f[i] = IF i = 1 THEN seqs[i] ELSE f[i - 1] \o seqs[i]
  BY <1>1 DEF Flattens
<1> DEFINE K == {n \in Nat : n + 1 <= k => Ascends(f[n + 1], Below(n + 1))}
<1>3. 0 \in K
  <2>1. 1 \in 1..k /\ f[1] = seqs[1]
    BY <1>2
  <2>2. Within(1) = Below(1)
    <3>1. (1 - 1) * w = 0
      OBVIOUS
    <3>2. \A x \in S : 0 <= x
      OBVIOUS
    <3>3. QED
      BY <3>1, <3>2
  <2>3. Ascends(seqs[1], Within(1))
    BY <2>1
  <2> HIDE DEF Within, Below
  <2>4. Ascends(f[1], Below(1))
    BY <2>1, <2>2, <2>3
  <2>5. QED
    BY <2>4
<1>4. ASSUME NEW n \in K PROVE n + 1 \in K
  <2>1. n \in Nat
    OBVIOUS
  <2> DEFINE m == n + 1
  <2>2. SUFFICES ASSUME m + 1 <= k PROVE Ascends(f[m + 1], Below(m + 1))
    BY <2>1
  <2>3. m \in Nat /\ m \in 1..k /\ m + 1 \in 1..k /\ (m + 1) - 1 = m /\ m + 1 # 1
    BY <2>1, <2>2
  <2>4. Ascends(f[m], Below(m))
    <3>1. n + 1 <= k => Ascends(f[n + 1], Below(n + 1))
      OBVIOUS
    <3>2. m <= k
      BY <2>3
    <3> HIDE DEF Below
    <3>3. QED
      BY <3>1, <3>2
  <2> HIDE DEF m
  <2>5. Ascends(seqs[m + 1], Within(m + 1))
    BY <2>3
  <2>6. f[m + 1] = f[m] \o seqs[m + 1]
    BY <1>2, <2>3
  <2>7. \A x \in Below(m), y \in Within(m + 1) : x < y
    <3>1. m * w \in Nat
      BY <2>3
    <3>2. ((m + 1) - 1) * w = m * w
      BY <2>3
    <3> DEFINE c == m * w
    <3>3. \A x \in Below(m), y \in Within(m + 1) : x \in Nat /\ y \in Nat /\ x < c /\ c <= y
      BY <3>2
    <3> HIDE DEF c
    <3>4. c \in Nat
      BY <3>1 DEF c
    <3> HIDE DEF Below, Within
    <3>5. QED
      BY <3>3, <3>4
  <2>8. Below(m) \cup Within(m + 1) = Below(m + 1)
    <3> DEFINE c == m * w
               d == (m + 1) * w
    <3>1. c \in Nat /\ d = c + w /\ ((m + 1) - 1) * w = c
      BY <2>3
    <3>2. /\ Below(m) = {x \in S : x < c} /\ Below(m + 1) = {x \in S : x < d}
          /\ Within(m + 1) = {x \in S : c <= x /\ x < d}
      BY <3>1
    <3> HIDE DEF c, d, Below, Within
    <3>3. \A x \in S : /\ x < c \/ c <= x
                       /\ x < c => x < d
      BY <3>1
    <3>4. QED
      BY <3>2, <3>3
  <2> HIDE DEF Below, Within
  <2>9. QED
    BY <2>4, <2>5, <2>6, <2>7, <2>8, AscendsOn
<1>5. K = Nat
  <2>1. K \subseteq Nat
    OBVIOUS
  <2> HIDE DEF K
  <2>2. QED
    BY <1>3, <1>4, <2>1, Inductive
<1>6. Ascends(f[k], Below(k))
  <2>1. k - 1 \in Nat /\ (k - 1) + 1 = k /\ k <= k
    OBVIOUS
  <2>2. k - 1 \in K
    <3> HIDE DEF K
    <3>1. QED
      BY <1>5, <2>1
  <2> HIDE DEF Below
  <2>3. (k - 1) + 1 <= k => Ascends(f[(k - 1) + 1], Below((k - 1) + 1))
    BY <2>2
  <2>4. QED
    BY <2>1, <2>3
<1>7. Below(k) = S
  OBVIOUS
<1>8. QED
  BY <1>1, <1>6, <1>7

\* The words have exactly the bits of S.
HasBits(has, size, w, S) ==
  /\ size \in Nat \ {0} /\ w \in Nat \ {0} /\ S \subseteq Nat
  /\ \A b \in S : b \div w \in 0..size - 1
  /\ \A i \in 0..size - 1 :
       /\ has[i] \subseteq 0..w - 1
       /\ \A j \in 0..w - 1 : j \in has[i] <=> i * w + j \in S

\* A walk through the words and the bits of each.
WalkOf(has, size, w) ==
  FlattenSeq([i \in 1..size |-> [j \in DOMAIN AscendingOf(has[i - 1]) |->
                                   (i - 1) * w + AscendingOf(has[i - 1])[j]]])

LEMMA WalkAscends ==
  ASSUME NEW has, NEW size, NEW w, NEW S, HasBits(has, size, w, S)
  PROVE  Ascends(WalkOf(has, size, w), S)
<1> DEFINE Of(i) == [j \in DOMAIN AscendingOf(has[i - 1]) |->
                       (i - 1) * w + AscendingOf(has[i - 1])[j]]
           seqs == [i \in 1..size |-> Of(i)]
           Within(i) == {x \in S : (i - 1) * w <= x /\ x < i * w}
<1>1. size \in Nat \ {0} /\ w \in Nat \ {0} /\ S \subseteq Nat
  BY DEF HasBits
<1>2. ASSUME NEW i \in 1..size PROVE Ascends(Of(i), Within(i))
  <2> DEFINE c == (i - 1) * w
             bits == has[i - 1]
  <2>1. i - 1 \in 0..size - 1 /\ i - 1 \in Nat /\ c \in Nat /\ i * w = c + w
    BY <1>1
  <2>2. bits \subseteq 0..w - 1 /\ \A j \in 0..w - 1 : j \in bits <=> c + j \in S
    BY <2>1 DEF HasBits
  <2>3. bits \subseteq Nat /\ IsFiniteSet(bits)
    <3>1. IsFiniteSet(0..w - 1) /\ 0..w - 1 \subseteq Nat
      <4>1. 0 \in Int /\ w - 1 \in Int
        BY <1>1
      <4>2. QED
        BY <4>1, FS_Interval
    <3> HIDE DEF bits, c
    <3>2. bits \in SUBSET (0..w - 1)
      BY <2>2
    <3>3. QED
      BY <3>1, <3>2, FS_Subset
  <2>4. Ascends(AscendingOf(bits), bits)
    BY <2>3, AscendingIs
  <2>5. Ascends([j \in DOMAIN AscendingOf(bits) |-> c + AscendingOf(bits)[j]],
                {c + x : x \in bits})
    <3> HIDE DEF bits, c
    <3>1. QED
      BY <2>1, <2>4, AscendsRaised
  <2>6. {c + x : x \in bits} = Within(i)
    <3>1. Within(i) = {x \in S : c <= x /\ x < c + w}
      BY <2>1
    <3> HIDE DEF c, bits, Within
    <3>2. ASSUME NEW x \in bits PROVE c + x \in Within(i)
      <4>1. x \in 0..w - 1 /\ c + x \in S
        BY <2>2
      <4>2. c <= c + x /\ c + x < c + w
        BY <1>1, <2>1, <4>1
      <4>3. QED
        BY <3>1, <4>1, <4>2
    <3>3. ASSUME NEW x \in Within(i) PROVE \E j \in bits : x = c + j
      <4> DEFINE j == x - c
      <4>1. x \in S /\ x \in Nat /\ c <= x /\ x < c + w
        BY <1>1, <3>1
      <4>2. j \in 0..w - 1 /\ c + j = x
        BY <1>1, <2>1, <4>1
      <4> HIDE DEF j
      <4>3. j \in bits
        BY <2>2, <4>1, <4>2
      <4>4. QED
        BY <4>2, <4>3
    <3>4. QED
      BY <3>2, <3>3
  <2>7. QED
    BY <2>5, <2>6
<1>3. ASSUME NEW x \in S PROVE x < size * w
  <2> DEFINE a == x \div w
             r == x % w
  <2>1. r \in 0..w - 1 /\ a \in Int /\ x = a * w + r /\ x \in Nat
    <3>1. x \in Nat /\ x \in Int /\ w \in Nat \ {0}
      BY <1>1
    <3>2. QED
      BY <3>1, WordAndBit
  <2>2. a \in 0..size - 1
    BY DEF HasBits
  <2> HIDE DEF a, r
  <2>3. a < size /\ a \in Int /\ size \in Int /\ 0 \in 0..w - 1
    BY <1>1, <2>2
  <2>4. a * w + r < size * w + 0
    BY <1>1, <2>1, <2>3, WordsFirst
  <2>5. size * w \in Nat
    BY <1>1
  <2>6. size * w + 0 = size * w
    BY <2>5
  <2>7. QED
    BY <2>1, <2>4, <2>6
<1> HIDE DEF Of
<1>4. Len(seqs) = size /\ \A i \in 1..size : seqs[i] = Of(i)
  BY <1>1
<1> HIDE DEF seqs
<1>5. \A i \in 1..size : Ascends(seqs[i], Within(i))
  BY <1>2, <1>4
<1>6. Ascends(FlattenSeq(seqs), S)
  BY <1>1, <1>3, <1>4, <1>5, AscendsFlat
<1>7. QED
  BY <1>6 DEF WalkOf, seqs, Of

\* The word and the bit in it of a number, and a bit turned on and off.
WordOf(b, w, lowest) == (b - lowest) \div w
BitOf(b, w, lowest) == (b - lowest) % w
BitOn(has, i, j) == [has EXCEPT ![i] = has[i] \cup {j}]
BitOff(has, i, j) == [has EXCEPT ![i] = has[i] \ {j}]

\* Bit j of word i is the number b.
Stands(b, i, j, w, lowest) == i * w + j + lowest = b

LEMMA WordsMonotone ==
  ASSUME NEW w \in Nat \ {0}, NEW p \in Int, NEW q \in Int, p <= q
  PROVE  p \div w <= q \div w
<1> DEFINE a == p \div w
           b == q \div w
           i == p % w
           j == q % w
<1>1. /\ a \in Int /\ i \in 0..w - 1 /\ p = a * w + i
      /\ b \in Int /\ j \in 0..w - 1 /\ q = b * w + j
  BY WordAndBit
<1> HIDE DEF a, b, i, j
<1>2. SUFFICES ASSUME b < a PROVE FALSE
  BY <1>1 DEF a, b
<1>3. b * w + j < a * w + i
  BY <1>1, <1>2, WordsFirst
<1>4. QED
  BY <1>1, <1>3

\* Where a number is, and nowhere else.
LEMMA PlaceInWords ==
  ASSUME NEW w \in Nat \ {0}, NEW lowest \in Int, NEW b \in Int
  PROVE  /\ WordOf(b, w, lowest) \in Int /\ BitOf(b, w, lowest) \in 0..w - 1
         /\ Stands(b, WordOf(b, w, lowest), BitOf(b, w, lowest), w, lowest)
         /\ \A i \in Int, j \in 0..w - 1 : Stands(b, i, j, w, lowest) =>
              i = WordOf(b, w, lowest) /\ j = BitOf(b, w, lowest)
<1> DEFINE u == WordOf(b, w, lowest)
           v == BitOf(b, w, lowest)
           c == u * w
<1>1. u \in Int /\ v \in 0..w - 1 /\ b - lowest = u * w + v
  <2>1. b - lowest \in Int
    OBVIOUS
  <2>2. QED
    BY <2>1, WordAndBit DEF WordOf, BitOf
<1> HIDE DEF u, v
<1>2. c \in Int /\ b - lowest = c + v
  BY <1>1
<1> HIDE DEF c
<1>3. c + v + lowest = b
  BY <1>1, <1>2
<1>4. ASSUME NEW i \in Int, NEW j \in 0..w - 1, i * w + j + lowest = b
      PROVE  i = u /\ j = v
  <2> DEFINE d == i * w
  <2>1. d \in Int
    OBVIOUS
  <2>2. d + j + lowest = b
    BY <1>4
  <2> HIDE DEF d
  <2>3. d + j = c + v
    BY <1>1, <1>2, <2>1, <2>2
  <2>4. ~(i < u)
    <3>1. SUFFICES ASSUME i < u PROVE FALSE
      OBVIOUS
    <3>2. i * w + j < u * w + v
      BY <1>1, <3>1, WordsFirst
    <3>3. d + j < c + v
      BY <3>2 DEF c, d
    <3>4. d + j \in Int
      BY <2>1
    <3>5. QED
      BY <2>3, <3>3, <3>4
  <2>5. ~(u < i)
    <3>1. SUFFICES ASSUME u < i PROVE FALSE
      OBVIOUS
    <3>2. u * w + v < i * w + j
      BY <1>1, <3>1, WordsFirst
    <3>3. c + v < d + j
      BY <3>2 DEF c, d
    <3>4. d + j \in Int
      BY <2>1
    <3>5. QED
      BY <2>3, <3>3, <3>4
  <2>6. i = u
    BY <1>1, <2>4, <2>5
  <2>7. d = c
    BY <2>6 DEF c, d
  <2>8. j = v
    BY <1>1, <1>2, <2>3, <2>7
  <2>9. QED
    BY <2>6, <2>8
<1>5. /\ Stands(b, u, v, w, lowest)
      /\ \A i \in Int, j \in 0..w - 1 : Stands(b, i, j, w, lowest) => i = u /\ j = v
  BY <1>3, <1>4 DEF Stands, c
<1>6. QED
  BY <1>1, <1>5 DEF u, v

LEMMA BitRead ==
  ASSUME NEW has, NEW size, NEW w, NEW lowest, NEW highest, NEW S,
         HoldsBits(has, size, w, lowest, highest, S),
         NEW b \in lowest..highest, WordOf(b, w, lowest) \in 0..(size - 1)
  PROVE  BitOf(b, w, lowest) \in has[WordOf(b, w, lowest)] <=> b \in S
<1>1. w \in Nat \ {0} /\ lowest \in Int /\ highest \in Int /\ b \in Int /\ b <= highest
  BY DEF HoldsBits
<1>2. /\ BitOf(b, w, lowest) \in 0..w - 1
      /\ WordOf(b, w, lowest) * w + BitOf(b, w, lowest) + lowest = b
  <2>1. w \in Nat \ {0} /\ lowest \in Int /\ b \in Int
    BY <1>1
  <2>2. QED
    <3>1. /\ BitOf(b, w, lowest) \in 0..w - 1
          /\ Stands(b, WordOf(b, w, lowest), BitOf(b, w, lowest), w, lowest)
      BY <2>1, PlaceInWords, Zenon
    <3>2. QED
      BY <3>1 DEF Stands
<1>3. QED
  BY <1>1, <1>2 DEF HoldsBits

LEMMA BitWritten ==
  ASSUME NEW has, NEW size, NEW w, NEW lowest, NEW highest, NEW S,
         HoldsBits(has, size, w, lowest, highest, S), DOMAIN has = 0..(size - 1),
         NEW b \in lowest..highest, WordOf(b, w, lowest) \in 0..(size - 1)
  PROVE  /\ HoldsBits(BitOn(has, WordOf(b, w, lowest), BitOf(b, w, lowest)),
                      size, w, lowest, highest, S \cup {b})
         /\ HoldsBits(BitOff(has, WordOf(b, w, lowest), BitOf(b, w, lowest)),
                      size, w, lowest, highest, S \ {b})
<1> DEFINE u == WordOf(b, w, lowest)
           v == BitOf(b, w, lowest)
           on == BitOn(has, u, v)
           off == BitOff(has, u, v)
<1>1. /\ size \in Nat /\ w \in Nat \ {0} /\ lowest \in Int /\ highest \in Int
      /\ S \subseteq lowest..highest /\ b \in Int
      /\ \A c \in S : (c - lowest) \div w \in 0..(size - 1)
      /\ (b - lowest) \div w \in 0..(size - 1)
  BY DEF HoldsBits, WordOf
<1>2. /\ v \in 0..(w - 1) /\ u * w + v + lowest = b
      /\ \A i \in Int, j \in 0..(w - 1) : i * w + j + lowest = b => i = u /\ j = v
  <2>1. w \in Nat \ {0} /\ lowest \in Int /\ b \in Int
    BY <1>1
  <2>2. QED
    <3>1. /\ v \in 0..(w - 1) /\ Stands(b, u, v, w, lowest)
          /\ \A i \in Int, j \in 0..(w - 1) :
               Stands(b, i, j, w, lowest) => i = u /\ j = v
      BY <2>1, PlaceInWords, Zenon
    <3>2. QED
      BY <3>1 DEF Stands
<1>3. u \in 0..(size - 1)
  OBVIOUS
<1> HIDE DEF u, v
<1>4. ASSUME NEW i \in 0..(size - 1)
      PROVE  /\ on[i] = IF i = u THEN has[i] \cup {v} ELSE has[i]
             /\ off[i] = IF i = u THEN has[i] \ {v} ELSE has[i]
             /\ has[i] \subseteq 0..(w - 1) /\ i \in Int
             /\ \A j \in 0..(w - 1) : i * w + j + lowest <= highest =>
                  (j \in has[i] <=> i * w + j + lowest \in S)
  <2>1. /\ on[i] = IF i = u THEN has[i] \cup {v} ELSE has[i]
        /\ off[i] = IF i = u THEN has[i] \ {v} ELSE has[i]
    BY DEF BitOn, BitOff
  <2>2. QED
    BY <1>1, <2>1 DEF HoldsBits
<1> HIDE DEF on, off
<1>5. ASSUME NEW i \in 0..(size - 1)
      PROVE  /\ on[i] \subseteq 0..(w - 1)
             /\ \A j \in 0..(w - 1) : i * w + j + lowest <= highest =>
                  (j \in on[i] <=> i * w + j + lowest \in S \cup {b})
             /\ off[i] \subseteq 0..(w - 1)
             /\ \A j \in 0..(w - 1) : i * w + j + lowest <= highest =>
                  (j \in off[i] <=> i * w + j + lowest \in S \ {b})
  <2>1. on[i] \subseteq 0..(w - 1) /\ off[i] \subseteq 0..(w - 1)
    BY <1>2, <1>4
  <2>2. ASSUME NEW j \in 0..(w - 1), i * w + j + lowest <= highest
        PROVE  /\ j \in on[i] <=> i * w + j + lowest \in S \cup {b}
               /\ j \in off[i] <=> i * w + j + lowest \in S \ {b}
    <3> DEFINE c == i * w + j + lowest
    <3>1. c = b <=> i = u /\ j = v
      BY <1>2, <1>4
    <3>2. j \in has[i] <=> c \in S
      BY <1>4, <2>2
    <3> HIDE DEF c
    <3>3. (j \in on[i] <=> c \in S \cup {b}) /\ (j \in off[i] <=> c \in S \ {b})
      BY <1>4, <3>1, <3>2
    <3>4. QED
      BY <3>3 DEF c
  <2>3. QED
    BY <2>1, <2>2
<1>6. S \cup {b} \subseteq lowest..highest /\ S \ {b} \subseteq lowest..highest
  BY <1>1
<1>7. QED
  BY <1>1, <1>5, <1>6 DEF HoldsBits, on, off, u, v

\* All the other bits.
LEMMA BitsInverted ==
  ASSUME NEW has, NEW size, NEW w, NEW lowest, NEW highest, NEW S,
         HoldsBits(has, size, w, lowest, highest, S),
         \A b \in lowest..highest : WordOf(b, w, lowest) \in 0..(size - 1)
  PROVE  HoldsBits([i \in 0..(size - 1) |-> (0..(w - 1)) \ has[i]],
                   size, w, lowest, highest, (lowest..highest) \ S)
<1> DEFINE other == [i \in 0..(size - 1) |-> (0..(w - 1)) \ has[i]]
<1>1. /\ size \in Nat /\ w \in Nat \ {0} /\ lowest \in Int /\ highest \in Int
  BY DEF HoldsBits
<1>2. ASSUME NEW i \in 0..(size - 1), NEW j \in 0..(w - 1),
             i * w + j + lowest <= highest
      PROVE  j \in other[i] <=> i * w + j + lowest \in (lowest..highest) \ S
  <2>1. j \in has[i] <=> i * w + j + lowest \in S
    BY <1>2 DEF HoldsBits
  <2>2. i * w + j + lowest \in lowest..highest
    <3> DEFINE c == i * w
    <3>1. c \in Nat
      BY <1>1
    <3>2. c + j + lowest <= highest
      BY <1>2
    <3> HIDE DEF c
    <3>3. c + j + lowest \in lowest..highest
      BY <1>1, <3>1, <3>2
    <3>4. QED
      BY <3>3 DEF c
  <2>3. other[i] = (0..(w - 1)) \ has[i]
    OBVIOUS
  <2>4. QED
    BY <2>1, <2>2, <2>3
<1>3. \A i \in 0..(size - 1) : other[i] \subseteq 0..(w - 1)
  OBVIOUS
<1>4. \A b \in (lowest..highest) \ S : (b - lowest) \div w \in 0..(size - 1)
  BY DEF WordOf
<1> HIDE DEF other
<1>5. (lowest..highest) \ S \subseteq lowest..highest
  OBVIOUS
<1>6. QED
  BY <1>1, <1>2, <1>3, <1>4, <1>5 DEF HoldsBits, other

\* Where no number is past the highest, the bits are those of S.
LEMMA NoBitSpare ==
  ASSUME NEW has, NEW size, NEW w, NEW S, size # 0,
         HoldsBits(has, size, w, 0, size * w - 1, S)
  PROVE  HasBits(has, size, w, S)
<1>1. /\ size \in Nat \ {0} /\ w \in Nat \ {0} /\ S \subseteq 0..(size * w - 1)
      /\ \A b \in S : (b - 0) \div w \in 0..(size - 1)
  BY DEF HoldsBits
<1>2. S \subseteq Nat
  <2>1. size * w - 1 \in Int
    BY <1>1
  <2>2. QED
    BY <1>1, <2>1
<1>3. ASSUME NEW b \in S PROVE b \div w \in 0..size - 1
  <2>1. b - 0 = b
    BY <1>2
  <2>2. QED
    BY <1>1, <2>1
<1>4. ASSUME NEW i \in 0..size - 1, NEW j \in 0..w - 1
      PROVE  j \in has[i] <=> i * w + j \in S
  <2>1. i < size /\ i \in Int /\ size \in Int /\ 0 \in 0..w - 1
    BY <1>1
  <2>2. i * w + j < size * w + 0
    BY <1>1, <2>1, WordsFirst
  <2> DEFINE c == i * w
             d == size * w
  <2>3. c \in Int /\ d \in Int /\ c + j < d + 0
    BY <1>1, <2>1, <2>2
  <2> HIDE DEF c, d
  <2>4. c + j + 0 <= d - 1 /\ c + j + 0 = c + j
    BY <2>3
  <2>5. i * w + j + 0 <= size * w - 1 /\ i * w + j + 0 = i * w + j
    BY <2>4 DEF c, d
  <2>6. j \in has[i] <=> i * w + j + 0 \in S
    BY <2>5 DEF HoldsBits
  <2>7. QED
    BY <2>5, <2>6
<1>5. \A i \in 0..size - 1 : has[i] \subseteq 0..w - 1
  BY DEF HoldsBits
<1>6. QED
  BY <1>1, <1>2, <1>3, <1>4, <1>5 DEF HasBits

-----------------------------------------------------------------------------
(***************************************************************************)
(* A walk over a trie of two children a node, with a counter in each node  *)
(* of the children that were tried.                                        *)
(***************************************************************************)
\* p is the parent of c, which is its child b.
Above(p, b, c) ==
  /\ p \in Seq({0, 1}) /\ c \in Seq({0, 1}) /\ b \in {0, 1}
  /\ Len(c) = Len(p) + 1 /\ c[Len(p) + 1] = b
  /\ \A j \in 1..Len(p) : c[j] = p[j]

LEMMA ChildBelow ==
  ASSUME NEW p \in Seq({0, 1}), NEW b \in {0, 1}
  PROVE  Above(p, b, Append(p, b))
<1>1. /\ Append(p, b) \in Seq({0, 1}) /\ Len(Append(p, b)) = Len(p) + 1
      /\ \A j \in 1..Len(p) : Append(p, b)[j] = p[j]
      /\ Append(p, b)[Len(p) + 1] = b
  BY AppendProperties
<1>2. QED
  BY <1>1 DEF Above

LEMMA ParentAbove ==
  ASSUME NEW c \in Seq({0, 1}), c # <<>>
  PROVE  Above(Front(c), Last(c), c)
<1> DEFINE p == SubSeq(c, 1, Len(c) - 1)
<1>1. Len(c) \in Nat /\ Len(c) >= 1 /\ \A j \in 1..Len(c) : c[j] \in {0, 1}
  BY EmptySeq, LenProperties
<1>2. /\ p \in Seq({0, 1})
      /\ Len(p) = IF 1 <= Len(c) - 1 THEN (Len(c) - 1) - 1 + 1 ELSE 0
      /\ \A i \in 1..(Len(c) - 1) - 1 + 1 : p[i] = c[1 + i - 1]
  <2>1. 1 \in Int /\ Len(c) - 1 \in Int /\ \A i \in 1..Len(c) - 1 : c[i] \in {0, 1}
    BY <1>1
  <2>2. QED
    BY <2>1, SubSeqProperties
<1> HIDE DEF p
<1>3. Len(p) = Len(c) - 1
  <2> DEFINE m == Len(c)
             n == Len(p)
  <2>1. m \in Nat /\ m >= 1 /\ n = IF 1 <= m - 1 THEN (m - 1) - 1 + 1 ELSE 0
    BY <1>1, <1>2
  <2> HIDE DEF m, n
  <2>2. n = m - 1
    BY <2>1
  <2>3. QED
    BY <2>2 DEF m, n
<1>4. ASSUME NEW j \in 1..Len(p) PROVE c[j] = p[j]
  <2>1. j \in 1..(Len(c) - 1) - 1 + 1 /\ 1 + j - 1 = j
    BY <1>1, <1>3
  <2>2. QED
    BY <1>2, <2>1
<1>5. Len(c) = Len(p) + 1 /\ Len(c) \in 1..Len(c)
  BY <1>1, <1>3
<1>6. p = Front(c) /\ Last(c) = c[Len(c)]
  BY DEF p, Front, Last
<1>7. QED
  BY <1>1, <1>2, <1>4, <1>5, <1>6 DEF Above

\* The nodes on the way to a node, itself not counted.
Begins(z, c) == Len(z) < Len(c) /\ \A j \in 1..Len(z) : z[j] = c[j]

LEMMA BeginsBelow ==
  ASSUME NEW p, NEW b, NEW c, Above(p, b, c), NEW z \in Seq({0, 1})
  PROVE  /\ Begins(z, c) <=> z = p \/ Begins(z, p)
         /\ Begins(z, p) => c[Len(z) + 1] = p[Len(z) + 1]
         /\ ~Begins(c, p) /\ c # p /\ ~Begins(c, c) /\ ~Begins(p, p)
<1>1. /\ p \in Seq({0, 1}) /\ c \in Seq({0, 1})
      /\ Len(p) \in Nat /\ Len(z) \in Nat /\ Len(c) = Len(p) + 1
      /\ \A j \in 1..Len(p) : c[j] = p[j]
  BY DEF Above
<1>2. ASSUME Begins(z, c) PROVE z = p \/ Begins(z, p)
  <2>1. Len(z) <= Len(p) /\ \A j \in 1..Len(z) : z[j] = c[j]
    BY <1>1, <1>2 DEF Begins
  <2>2. \A j \in 1..Len(z) : z[j] = p[j]
    BY <1>1, <2>1
  <2>3. Len(z) = Len(p) => z = p
    BY <1>1, <2>2, SeqEqual
  <2>4. QED
    BY <1>1, <2>1, <2>2, <2>3 DEF Begins
<1>3. ASSUME z = p \/ Begins(z, p) PROVE Begins(z, c)
  <2>1. Len(z) <= Len(p) /\ \A j \in 1..Len(z) : z[j] = p[j]
    BY <1>1, <1>3 DEF Begins
  <2>2. QED
    BY <1>1, <2>1 DEF Begins
<1>4. ASSUME Begins(z, p) PROVE c[Len(z) + 1] = p[Len(z) + 1]
  <2>1. Len(z) + 1 \in 1..Len(p)
    BY <1>1, <1>4 DEF Begins
  <2>2. QED
    BY <1>1, <2>1
<1>5. ~Begins(c, p) /\ c # p /\ ~Begins(c, c) /\ ~Begins(p, p)
  <2>1. Len(c) # Len(p) /\ ~(Len(c) < Len(p)) /\ ~(Len(c) < Len(c))
        /\ ~(Len(p) < Len(p))
    BY <1>1
  <2>2. QED
    BY <2>1 DEF Begins
<1>6. QED
  BY <1>2, <1>3, <1>4, <1>5

\* The nodes that a walk has left behind when it is at c and has tried m of
\* its children.
Left(z, c, m) ==
  \E i \in 0..Len(c) :
    /\ i < Len(z) /\ \A j \in 1..i : z[j] = c[j]
    /\ z[i + 1] < (IF i < Len(c) THEN c[i + 1] ELSE m)

LEMMA LeftEnds ==
  ASSUME NEW z \in Seq({0, 1}), NEW m
  PROVE  /\ ~Left(z, <<>>, 0) /\ (z # <<>> => Left(z, <<>>, 2))
         /\ ~Left(z, z, m)
<1>1. Len(z) \in Nat /\ (z # <<>> => Len(z) > 0) /\ \A j \in 1..Len(z) : z[j] \in {0, 1}
  BY EmptySeq, LenProperties
<1>2. Len(<<>>) = 0
  OBVIOUS
<1>3. ASSUME Left(z, <<>>, 0) PROVE FALSE
  <2>1. PICK i \in 0..0 : i < Len(z) /\ z[i + 1] < (IF i < 0 THEN <<>>[i + 1] ELSE 0)
    BY <1>2, <1>3 DEF Left
  <2>2. i = 0 /\ z[1] < 0 /\ 1 \in 1..Len(z)
    BY <1>1, <2>1
  <2>3. QED
    BY <1>1, <2>2
<1>4. ASSUME z # <<>> PROVE Left(z, <<>>, 2)
  <2>1. 0 < Len(z) /\ z[0 + 1] < 2 /\ 0 \in 0..Len(<<>>) /\ ~(0 < Len(<<>>))
    BY <1>1, <1>2, <1>4
  <2>2. \A j \in 1..0 : z[j] = <<>>[j]
    OBVIOUS
  <2>3. QED
    BY <2>1, <2>2 DEF Left
<1>5. ASSUME Left(z, z, m) PROVE FALSE
  <2>1. PICK i \in 0..Len(z) : i < Len(z) /\ z[i + 1] < (IF i < Len(z) THEN z[i + 1] ELSE m)
    BY <1>5 DEF Left
  <2>2. z[i + 1] < z[i + 1] /\ i + 1 \in 1..Len(z)
    BY <1>1, <2>1
  <2>3. QED
    BY <1>1, <2>2
<1>6. QED
  BY <1>3, <1>4, <1>5

\* Going down to the child b is no progress, and coming back from it is that
\* of the nodes below it and of itself; where there is no node below a missing
\* child, neither is trying it.
LEMMA LeftBelow ==
  ASSUME NEW p, NEW b, NEW c, Above(p, b, c), NEW z \in Seq({0, 1})
  PROVE  /\ Left(z, c, 0) <=> Left(z, p, b)
         /\ Left(z, p, b + 1) <=> Left(z, c, 2) \/ z = c
         /\ c \notin Prefixes(z) => (Left(z, p, b + 1) <=> Left(z, p, b))
<1> DEFINE l == Len(p)
           Agree(i) == \A j \in 1..i : z[j] = p[j]
<1>1. /\ p \in Seq({0, 1}) /\ c \in Seq({0, 1}) /\ b \in {0, 1}
      /\ l \in Nat /\ Len(z) \in Nat /\ Len(c) = l + 1 /\ c[l + 1] = b
      /\ \A j \in 1..l : c[j] = p[j] /\ c[j] \in {0, 1}
      /\ \A j \in 1..Len(z) : z[j] \in {0, 1}
  BY DEF Above
<1>2. ASSUME NEW m \in 0..2
      PROVE  Left(z, c, m) <=>
               \/ \E i \in 0..l : i < Len(z) /\ Agree(i)
                                  /\ z[i + 1] < (IF i < l THEN p[i + 1] ELSE b)
               \/ /\ l + 1 < Len(z) /\ Agree(l) /\ z[l + 1] = b
                  /\ z[l + 2] < m
  <2>1. \A i \in 0..(l + 1) : i \in 0..l \/ i = l + 1
    BY <1>1
  <2>2. \A i \in 0..l : i \in 0..(l + 1) /\ i < l + 1
                        /\ (i < l => c[i + 1] = p[i + 1])
                        /\ (~(i < l) => c[i + 1] = b)
    BY <1>1
  <2>3. /\ (\A j \in 1..(l + 1) : z[j] = c[j]) <=> Agree(l) /\ z[l + 1] = b
        /\ l + 1 \in 0..(l + 1) /\ ~(l + 1 < l + 1) /\ (l + 1) + 1 = l + 2
    BY <1>1
  <2>4. \A i \in 0..l : (\A j \in 1..i : z[j] = c[j]) <=> Agree(i)
    BY <1>1
  <2> DEFINE First(i) == i < Len(z) /\ (\A j \in 1..i : z[j] = c[j])
                         /\ z[i + 1] < (IF i < l + 1 THEN c[i + 1] ELSE m)
  <2>5. Left(z, c, m) <=> \E i \in 0..(l + 1) : First(i)
    BY <1>1 DEF Left
  <2>6. \A i \in 0..l :
          First(i) <=> i < Len(z) /\ Agree(i)
                       /\ z[i + 1] < (IF i < l THEN p[i + 1] ELSE b)
    BY <2>2, <2>4
  <2>7. First(l + 1) <=> /\ l + 1 < Len(z) /\ Agree(l) /\ z[l + 1] = b
                         /\ z[l + 2] < m
    BY <2>3
  <2>8. QED
    <3> HIDE DEF First, Agree, l
    <3>1. (\E i \in 0..(l + 1) : First(i)) <=> (\E i \in 0..l : First(i)) \/ First(l + 1)
      BY <2>1, <2>2, <2>3
    <3>2. QED
      BY <2>5, <2>6, <2>7, <3>1
<1>3. ASSUME NEW m \in 0..2
      PROVE  Left(z, p, m) <=>
               \E i \in 0..l : i < Len(z) /\ Agree(i)
                               /\ z[i + 1] < (IF i < l THEN p[i + 1] ELSE m)
  BY DEF Left
<1> DEFINE Before == \E i \in 0..l : i < Len(z) /\ Agree(i) /\ i < l
                                     /\ z[i + 1] < p[i + 1]
           Here(m) == l < Len(z) /\ Agree(l) /\ z[l + 1] < m
<1>4. ASSUME NEW m \in 0..2 PROVE Left(z, p, m) <=> Before \/ Here(m)
  <2>1. \A i \in 0..l : ~(i < l) => i = l
    BY <1>1
  <2>2. l \in 0..l /\ ~(l < l)
    BY <1>1
  <2> HIDE DEF Agree, l
  <2>3. QED
    BY <1>3, <2>1, <2>2
<1>5. ASSUME NEW m \in 0..2
      PROVE  Left(z, c, m) <=>
               \/ Before \/ Here(b)
               \/ l + 1 < Len(z) /\ Agree(l) /\ z[l + 1] = b /\ z[l + 2] < m
  <2>1. b \in 0..2
    BY <1>1
  <2> HIDE DEF Agree, l, Before, Here
  <2>2. QED
    BY <1>2, <1>3, <1>4, <2>1
<1>6. Left(z, c, 0) <=> Left(z, p, b)
  <2>1. ~(l + 1 < Len(z) /\ z[l + 2] < 0)
    <3>1. l + 1 < Len(z) => l + 2 \in 1..Len(z)
      BY <1>1
    <3>2. QED
      BY <1>1, <3>1
  <2>2. b \in 0..2 /\ 0 \in 0..2
    BY <1>1
  <2> HIDE DEF Agree, l, Before, Here
  <2>3. QED
    BY <1>4, <1>5, <2>1, <2>2
<1> DEFINE Below == l < Len(z) /\ Agree(l) /\ z[l + 1] = b
<1>7. Left(z, p, b + 1) <=> Left(z, p, b) \/ Below
  <2>1. l < Len(z) => l + 1 \in 1..Len(z)
    BY <1>1
  <2>2. Here(b + 1) <=> Here(b) \/ Below
    BY <1>1, <2>1
  <2>3. b \in 0..2 /\ b + 1 \in 0..2
    BY <1>1
  <2> HIDE DEF Here, Below, Before
  <2>4. QED
    BY <1>4, <2>2, <2>3
<1>8. Below <=> z = c \/ (l + 1 < Len(z) /\ Agree(l) /\ z[l + 1] = b /\ z[l + 2] < 2)
  <2>1. ASSUME Below, ~(l + 1 < Len(z)) PROVE z = c
    <3>1. Len(z) = l + 1 /\ \A j \in 1..(l + 1) : z[j] = c[j]
      BY <1>1, <2>1
    <3>2. QED
      BY <1>1, <3>1, SeqEqual
  <2>2. ASSUME l + 1 < Len(z) PROVE z[l + 2] < 2 /\ l < Len(z)
    <3>1. l + 2 \in 1..Len(z)
      BY <1>1, <2>2
    <3>2. QED
      BY <1>1, <2>2, <3>1
  <2>3. z = c => Below
    BY <1>1
  <2>4. QED
    BY <2>1, <2>2, <2>3
<1>9. Below => c \in Prefixes(z)
  <2>1. SUFFICES ASSUME Below PROVE c \in Prefixes(z)
    OBVIOUS
  <2>2. l + 1 \in 0..Len(z) /\ \A j \in 1..(l + 1) : z[j] = c[j]
    BY <1>1, <2>1
  <2>3. SubSeq(z, 1, l + 1) \in Prefixes(z) /\ Len(SubSeq(z, 1, l + 1)) = l + 1
    BY <2>2, PrefixFacts
  <2>4. SubSeq(z, 1, l + 1) = c
    <3>1. /\ SubSeq(z, 1, l + 1) \in Seq({0, 1})
          /\ \A i \in 1..l + 1 - 1 + 1 : SubSeq(z, 1, l + 1)[i] = z[1 + i - 1]
      <4>1. \A i \in 1..l + 1 : z[i] \in {0, 1}
        BY <1>1, <2>2
      <4>2. 1 \in Int /\ l + 1 \in Int
        BY <1>1
      <4>3. QED
        BY <4>1, <4>2, SubSeqProperties
    <3>2. \A i \in 1..l + 1 : i \in 1..l + 1 - 1 + 1 /\ 1 + i - 1 = i
      BY <1>1
    <3>3. \A i \in 1..l + 1 : SubSeq(z, 1, l + 1)[i] = c[i]
      BY <2>2, <3>1, <3>2
    <3>4. QED
      BY <1>1, <2>3, <3>1, <3>3, SeqEqual
  <2>5. QED
    BY <2>3, <2>4
<1>10. Left(z, p, b + 1) <=> Left(z, c, 2) \/ z = c
  <2>1. b \in 0..2 /\ 2 \in 0..2
    BY <1>1
  <2>2. Left(z, p, b) <=> Before \/ Here(b)
    BY <1>4, <2>1
  <2>3. Left(z, c, 2) <=>
          \/ Before \/ Here(b)
          \/ l + 1 < Len(z) /\ Agree(l) /\ z[l + 1] = b /\ z[l + 2] < 2
    BY <1>5, <2>1
  <2> HIDE DEF Below, Before, Here, Agree
  <2>4. QED
    BY <1>7, <1>8, <2>2, <2>3
<1>11. QED
  BY <1>6, <1>7, <1>9, <1>10, Zenon

\* The counters while the walk is at c: those on the way there count the child
\* that it went to.
Counters(nodes, cur, c, m) ==
  /\ cur \in [nodes -> 0..2] /\ cur[c] = m
  /\ \A z \in nodes : z # c => cur[z] = IF Begins(z, c) THEN c[Len(z) + 1] + 1 ELSE 0

\* One more child was tried, or all were and the walk goes on.
Tried(cur, c) == [cur EXCEPT ![c] = cur[c] + 1]
PutBack(cur, c) == [cur EXCEPT ![c] = 0]

CountersAre(cur, new, nodes, c, m) ==
  /\ new \in [nodes -> 0..2] /\ new[c] = m
  /\ \A z \in nodes : z # c => new[z] = cur[z]

LEMMA CounterWritten ==
  ASSUME NEW nodes, NEW cur \in [nodes -> 0..2], NEW c \in nodes
  PROVE  /\ cur[c] # 2 => CountersAre(cur, Tried(cur, c), nodes, c, cur[c] + 1)
         /\ CountersAre(cur, PutBack(cur, c), nodes, c, 0)
<1>1. cur[c] \in 0..2 /\ 0 \in 0..2
  OBVIOUS
<1>2. cur[c] # 2 => cur[c] + 1 \in 0..2
  BY <1>1
<1>3. ASSUME NEW m \in 0..2 PROVE CountersAre(cur, [cur EXCEPT ![c] = m], nodes, c, m)
  BY DEF CountersAre
<1>4. cur[c] # 2 => CountersAre(cur, Tried(cur, c), nodes, c, cur[c] + 1)
  BY <1>2, <1>3, Zenon DEF Tried
<1>5. CountersAre(cur, PutBack(cur, c), nodes, c, 0)
  BY <1>1, <1>3, Zenon DEF PutBack
<1>6. QED
  BY <1>4, <1>5

LEMMA CountersBelow ==
  ASSUME NEW p, NEW b, NEW c, Above(p, b, c), NEW nodes \in SUBSET Seq({0, 1}),
         p \in nodes, c \in nodes, NEW cur
  PROVE  /\ Counters(nodes, cur, p, b) => Counters(nodes, Tried(cur, p), c, 0)
         /\ \A m : Counters(nodes, cur, c, m) =>
              Counters(nodes, PutBack(cur, c), p, b + 1)
<1>1. /\ c # p /\ ~Begins(c, p) /\ Begins(p, c) /\ c[Len(p) + 1] = b
      /\ b + 1 \in 0..2 /\ 0 \in 0..2 /\ p \in Seq({0, 1})
  BY BeginsBelow DEF Above
<1>2. ASSUME NEW z \in nodes, z # p, z # c
      PROVE  /\ Begins(z, c) <=> Begins(z, p)
             /\ Begins(z, p) => c[Len(z) + 1] = p[Len(z) + 1]
  BY <1>2, BeginsBelow
<1>3. ASSUME Counters(nodes, cur, p, b) PROVE Counters(nodes, Tried(cur, p), c, 0)
  <2> DEFINE new == Tried(cur, p)
  <2>1. cur \in [nodes -> 0..2] /\ cur[c] = 0 /\ cur[p] = b
    BY <1>1, <1>3 DEF Counters
  <2>2. /\ new \in [nodes -> 0..2] /\ new[p] = b + 1
        /\ \A z \in nodes : z # p => new[z] = cur[z]
    BY <1>1, <1>3, <2>1 DEF Tried
  <2> HIDE DEF new
  <2>3. ASSUME NEW z \in nodes, z # c
        PROVE  new[z] = IF Begins(z, c) THEN c[Len(z) + 1] + 1 ELSE 0
    BY <1>1, <1>2, <1>3, <2>2, <2>3 DEF Counters
  <2>4. Counters(nodes, new, c, 0)
    BY <1>1, <2>1, <2>2, <2>3 DEF Counters
  <2>5. QED
    BY <2>4 DEF new
<1>4. ASSUME NEW m, Counters(nodes, cur, c, m)
      PROVE  Counters(nodes, PutBack(cur, c), p, b + 1)
  <2> DEFINE new == PutBack(cur, c)
  <2>1. cur \in [nodes -> 0..2] /\ cur[p] = b + 1
    BY <1>1, <1>4 DEF Counters
  <2>2. /\ new \in [nodes -> 0..2] /\ new[c] = 0
        /\ \A z \in nodes : z # c => new[z] = cur[z]
    BY <1>1, <2>1 DEF PutBack
  <2> HIDE DEF new
  <2>3. ASSUME NEW z \in nodes, z # p
        PROVE  new[z] = IF Begins(z, p) THEN p[Len(z) + 1] + 1 ELSE 0
    <3>1. CASE z = c
      BY <1>1, <2>2, <3>1
    <3>2. CASE z # c
      BY <1>2, <1>4, <2>2, <2>3, <3>2 DEF Counters
    <3>3. QED
      BY <3>1, <3>2
  <2>4. Counters(nodes, new, p, b + 1)
    BY <1>1, <2>1, <2>2, <2>3 DEF Counters
  <2>5. QED
    BY <2>4 DEF new
<1>5. QED
  BY <1>3, <1>4

LEMMA CountersHere ==
  ASSUME NEW nodes, NEW c \in nodes, NEW cur, NEW b \in {0, 1},
         Counters(nodes, cur, c, b)
  PROVE  Counters(nodes, Tried(cur, c), c, b + 1)
<1>1. cur \in [nodes -> 0..2] /\ cur[c] = b /\ b + 1 \in 0..2
  BY DEF Counters
<1> DEFINE new == Tried(cur, c)
<1>2. /\ new \in [nodes -> 0..2] /\ new[c] = b + 1
      /\ \A z \in nodes : z # c => new[z] = cur[z]
  BY <1>1 DEF Tried
<1> HIDE DEF new
<1>3. Counters(nodes, new, c, b + 1)
  BY <1>2 DEF Counters
<1>4. QED
  BY <1>3 DEF new

\* What the key holds of the way to c: the digit of c itself once a child was
\* tried, and before that, if it is the second one of its byte, 0 for it.
KeyHolds(key, c, m) ==
  /\ key \in Seq({0, 1})
  /\ \A j \in 1..Len(c) : j < Len(c) \/ m > 0 => j <= Len(key) /\ key[j] = c[j]
  /\ Len(c) % 2 = 0 /\ Len(c) > 0 /\ m = 0 => Len(c) <= Len(key) /\ key[Len(c)] = 0
KeyWritten(key, x) ==
  LET index == Len(x)
  IN IF index = 0 THEN key
     ELSE IF index % 2 = 1
          THEN [i \in 1..Max({Len(key), index + 1}) |->
                  IF i = index THEN Last(x) ELSE IF i = index + 1 THEN 0 ELSE key[i]]
          ELSE [key EXCEPT ![index] = Max({@, Last(x)})]

LEMMA LargerOfTwo ==
  ASSUME NEW a \in Int, NEW b \in Int
  PROVE  Max({a, b}) = IF a >= b THEN a ELSE b
<1> DEFINE top == IF a >= b THEN a ELSE b
<1>1. top \in {a, b} /\ \A x \in {a, b} : top >= x
  OBVIOUS
<1>2. \A y \in {a, b} : (\A x \in {a, b} : y >= x) => y = top
  OBVIOUS
<1> HIDE DEF top
<1>3. (CHOOSE y \in {a, b} : \A x \in {a, b} : y >= x) = top
  BY <1>1, <1>2
<1>4. Max({a, b}) = top
  BY <1>3 DEF Max
<1>5. QED
  BY <1>4 DEF top

\* Writing the digit of x leaves what the key holds of the way there.
LEMMA KeyIsWritten ==
  ASSUME NEW x \in Seq({0, 1}), NEW m \in Nat, NEW key, KeyHolds(key, x, m)
  PROVE  /\ KeyHolds(KeyWritten(key, x), x, m + 1)
         /\ Len(x) % 2 = 1 => /\ Len(x) + 1 <= Len(KeyWritten(key, x))
                              /\ KeyWritten(key, x)[Len(x) + 1] = 0
<1> DEFINE n == Len(x)
           k == Len(key)
           new == KeyWritten(key, x)
<1>1. /\ n \in Nat /\ k \in Nat /\ key \in Seq({0, 1})
      /\ \A j \in 1..n : x[j] \in {0, 1}
      /\ \A j \in 1..k : key[j] \in {0, 1}
      /\ \A j \in 1..n : j < n => j <= k /\ key[j] = x[j]
      /\ m > 0 /\ n > 0 => n <= k /\ key[n] = x[n]
      /\ n % 2 = 0 /\ n > 0 /\ m = 0 => n <= k /\ key[n] = 0
      /\ Last(x) = x[n]
  <2>1. \A j \in 1..Len(x) : j < Len(x) \/ m > 0 => j <= Len(key) /\ key[j] = x[j]
    BY DEF KeyHolds
  <2>2. Len(x) > 0 => Len(x) \in 1..Len(x)
    OBVIOUS
  <2>3. QED
    BY <2>1, <2>2 DEF KeyHolds, Last
<1>2. CASE n = 0
  <2>1. new = key
    BY <1>2 DEF KeyWritten
  <2>2. KeyHolds(new, x, m + 1)
    BY <1>1, <1>2, <2>1 DEF KeyHolds
  <2>3. ~(n % 2 = 1)
    BY <1>2
  <2>4. QED
    BY <2>2, <2>3
<1>3. CASE n % 2 = 1
  <2> DEFINE t == IF k >= n + 1 THEN k ELSE n + 1
             digits == [i \in 1..t |->
                IF i = n THEN Last(x) ELSE IF i = n + 1 THEN 0 ELSE key[i]]
  <2>1. Max({k, n + 1}) = t /\ n # 0
    <3>1. k \in Int /\ n + 1 \in Int /\ n # 0
      BY <1>1, <1>3
    <3> HIDE DEF k, n
    <3>2. Max({k, n + 1}) = t
      BY <3>1, LargerOfTwo
    <3>3. QED
      BY <3>1, <3>2
  <2>2. new = digits
    BY <1>3, <2>1 DEF KeyWritten
  <2>3. t \in Nat /\ n + 1 <= t /\ n \in 1..n
    BY <1>1, <2>1
  <2>4. \A i \in 1..t : i # n /\ i # n + 1 => i \in 1..k
    BY <1>1, <2>1
  <2> HIDE DEF t
  <2>5. \A i \in 1..t : digits[i] \in {0, 1}
    BY <1>1, <2>3, <2>4
  <2>6. digits \in Seq({0, 1}) /\ Len(digits) = t
    <3>1. digits \in [1..t -> {0, 1}]
      BY <2>5
    <3> HIDE DEF digits
    <3>2. QED
      BY <2>3, <3>1
  <2>7. digits[n + 1] = 0 /\ digits[n] = x[n]
        /\ \A j \in 1..n : j < n => digits[j] = key[j]
    BY <1>1, <2>3
  <2>8. \A j \in 1..n : j <= t /\ digits[j] = x[j]
    BY <1>1, <2>3, <2>7
  <2> HIDE DEF digits
  <2>9. KeyHolds(digits, x, m + 1) /\ n + 1 <= Len(digits)
    <3>1. m + 1 # 0
      OBVIOUS
    <3>2. QED
      BY <2>3, <2>6, <2>8, <3>1 DEF KeyHolds
  <2>10. QED
    BY <2>2, <2>7, <2>9
<1>4. CASE n % 2 # 1 /\ n # 0
  <2>1. n % 2 = 0 /\ n > 0
    BY <1>1, <1>4
  <2>2. n \in 1..k /\ n \in 1..n /\ (key[n] = 0 \/ key[n] = x[n])
    BY <1>1, <2>1
  <2>3. Max({key[n], x[n]}) = x[n]
    <3>1. key[n] \in Int /\ x[n] \in Int
      BY <1>1, <2>2
    <3>2. x[n] \in {0, 1} /\ key[n] \in {0, 1}
      BY <1>1, <2>2
    <3>3. QED
      BY <2>2, <3>1, <3>2, LargerOfTwo
  <2>4. new = [key EXCEPT ![n] = x[n]]
    BY <1>1, <1>4, <2>3 DEF KeyWritten
  <2>5. /\ new \in Seq({0, 1}) /\ Len(new) = k
        /\ \A j \in 1..k : new[j] = IF j = n THEN x[n] ELSE key[j]
    BY <1>1, <2>2, <2>4
  <2> HIDE DEF new
  <2>6. \A j \in 1..n : j <= k /\ new[j] = x[j]
    BY <1>1, <2>2, <2>5
  <2>7. KeyHolds(new, x, m + 1)
    <3>1. m + 1 # 0
      OBVIOUS
    <3>2. QED
      BY <2>5, <2>6, <3>1 DEF KeyHolds
  <2>8. QED
    BY <1>4, <2>7 DEF new
<1>5. QED
  BY <1>2, <1>3, <1>4

LEMMA KeyBelow ==
  ASSUME NEW p, NEW b, NEW c, Above(p, b, c), NEW key
  PROVE  /\ KeyHolds(key, p, 0) \/ KeyHolds(key, p, b) =>
              KeyHolds(KeyWritten(key, p), c, 0)
         /\ KeyHolds(key, c, 2) => KeyHolds(key, p, b + 1)
<1>1. /\ p \in Seq({0, 1}) /\ c \in Seq({0, 1}) /\ b \in {0, 1}
      /\ Len(p) \in Nat /\ Len(c) = Len(p) + 1
      /\ \A j \in 1..Len(p) : c[j] = p[j]
  BY DEF Above
<1>2. ASSUME NEW m \in {0, b}, KeyHolds(key, p, m)
      PROVE  KeyHolds(KeyWritten(key, p), c, 0)
  <2> DEFINE new == KeyWritten(key, p)
  <2>1. m \in Nat
    BY <1>1
  <2>2. /\ KeyHolds(new, p, m + 1)
        /\ Len(p) % 2 = 1 => Len(p) + 1 <= Len(new) /\ new[Len(p) + 1] = 0
    BY <1>1, <1>2, <2>1, KeyIsWritten
  <2> HIDE DEF new
  <2>3. new \in Seq({0, 1}) /\ \A j \in 1..Len(p) : j <= Len(new) /\ new[j] = p[j]
    BY <2>1, <2>2 DEF KeyHolds
  <2>4. \A j \in 1..Len(c) : j < Len(c) => j \in 1..Len(p)
    BY <1>1
  <2>5. Len(c) % 2 = 0 => Len(p) % 2 = 1
    BY <1>1
  <2>6. KeyHolds(new, c, 0)
    BY <1>1, <2>2, <2>3, <2>4, <2>5 DEF KeyHolds
  <2>7. QED
    BY <2>6 DEF new
<1>3. ASSUME KeyHolds(key, c, 2) PROVE KeyHolds(key, p, b + 1)
  <2>1. b + 1 # 0 /\ \A j \in 1..Len(p) : j \in 1..Len(c) /\ j < Len(c)
    BY <1>1
  <2>2. QED
    BY <1>1, <1>3, <2>1 DEF KeyHolds
<1>4. QED
  BY <1>2, <1>3

\* A key that has room for the bytes before that of the last digit of c.
LongFor(key, c) == key \in Seq({0, 1}) /\ Len(key) >= Len(c) - (Len(c) % 2)

LEMMA KeyStaysLong ==
  ASSUME NEW x \in Seq({0, 1}), NEW key, LongFor(key, x)
  PROVE  /\ LongFor(KeyWritten(key, x), x)
         /\ \A b \in {0, 1} : LongFor(KeyWritten(key, x), Append(x, b))
         /\ x # <<>> => LongFor(key, Front(x))
<1> DEFINE n == Len(x)
           k == Len(key)
           new == KeyWritten(key, x)
<1>1. /\ n \in Nat /\ k \in Nat /\ key \in Seq({0, 1}) /\ k >= n - (n % 2)
      /\ \A j \in 1..k : key[j] \in {0, 1}
      /\ n > 0 => Last(x) \in {0, 1}
  BY DEF LongFor, Last
<1>2. /\ new \in Seq({0, 1}) /\ Len(new) >= k
      /\ n % 2 = 1 => Len(new) >= n + 1
  <2>1. CASE n = 0
    BY <1>1, <2>1 DEF KeyWritten
  <2>2. CASE n % 2 = 1
    <3> DEFINE t == IF k >= n + 1 THEN k ELSE n + 1
               digits == [i \in 1..t |->
                  IF i = n THEN Last(x) ELSE IF i = n + 1 THEN 0 ELSE key[i]]
    <3>1. Max({k, n + 1}) = t /\ n # 0
      <4>1. k \in Int /\ n + 1 \in Int /\ n # 0
        BY <1>1, <2>2
      <4> HIDE DEF k, n
      <4>2. Max({k, n + 1}) = t
        BY <4>1, LargerOfTwo
      <4>3. QED
        BY <4>1, <4>2
    <3>2. new = digits
      BY <2>2, <3>1 DEF KeyWritten
    <3>3. t \in Nat /\ n + 1 <= t /\ k <= t
      BY <1>1, <3>1
    <3>4. \A i \in 1..t : i # n /\ i # n + 1 => i \in 1..k
      BY <1>1, <2>2, <3>1
    <3> HIDE DEF t
    <3>5. \A i \in 1..t : digits[i] \in {0, 1}
      BY <1>1, <3>1, <3>3, <3>4
    <3>6. digits \in Seq({0, 1}) /\ Len(digits) = t
      <4>1. digits \in [1..t -> {0, 1}]
        BY <3>5
      <4> HIDE DEF digits
      <4>2. QED
        BY <3>3, <4>1
    <3> HIDE DEF digits
    <3>7. QED
      BY <3>2, <3>3, <3>6
  <2>3. CASE n % 2 # 1 /\ n # 0
    <3>1. n \in 1..k
      BY <1>1, <2>3
    <3>2. Max({key[n], Last(x)}) \in {0, 1}
      <4>1. key[n] \in {0, 1} /\ Last(x) \in {0, 1}
        BY <1>1, <3>1
      <4>2. key[n] \in Int /\ Last(x) \in Int
        BY <4>1
      <4>3. QED
        BY <4>1, <4>2, LargerOfTwo
    <3>3. new = [key EXCEPT ![n] = Max({key[n], Last(x)})]
      BY <2>3 DEF KeyWritten
    <3>4. new \in Seq({0, 1}) /\ Len(new) = k
      BY <1>1, <3>1, <3>2, <3>3
    <3>5. QED
      BY <1>1, <2>3, <3>4
  <2>4. QED
    BY <2>1, <2>2, <2>3
<1> HIDE DEF new
<1>3. LongFor(new, x)
  BY <1>1, <1>2 DEF LongFor
<1>4. ASSUME NEW b \in {0, 1} PROVE LongFor(new, Append(x, b))
  <2>1. Len(Append(x, b)) = n + 1
    BY AppendProperties
  <2>2. n % 2 # 1 => (n + 1) - ((n + 1) % 2) = n /\ n % 2 = 0
    BY <1>1
  <2>3. n % 2 = 1 => (n + 1) - ((n + 1) % 2) <= n + 1
    BY <1>1
  <2>4. QED
    BY <1>1, <1>2, <2>1, <2>2, <2>3 DEF LongFor
<1>5. ASSUME x # <<>> PROVE LongFor(key, Front(x))
  <2>1. Above(Front(x), Last(x), x)
    BY <1>5, ParentAbove
  <2>2. n = Len(Front(x)) + 1 /\ Len(Front(x)) \in Nat
    BY <2>1 DEF Above
  <2>3. (n - 1) - ((n - 1) % 2) <= n - (n % 2)
    BY <1>1, <2>2
  <2>4. QED
    BY <1>1, <2>2, <2>3 DEF LongFor
<1>6. QED
  BY <1>3, <1>4, <1>5 DEF new

\* When all children were tried, the key begins with the node.
LEMMA KeyRead ==
  ASSUME NEW c \in Seq({0, 1}), NEW key, KeyHolds(key, c, 2)
  PROVE  SubSeq(key, 1, Len(c)) = c
<1> DEFINE n == Len(c)
           u == SubSeq(key, 1, n)
<1>1. /\ n \in Nat /\ key \in Seq({0, 1})
      /\ \A j \in 1..n : j <= Len(key) /\ key[j] = c[j]
      /\ \A j \in 1..n : c[j] \in {0, 1}
  BY DEF KeyHolds
<1>2. /\ u \in Seq({0, 1}) /\ Len(u) = IF 1 <= n THEN n - 1 + 1 ELSE 0
      /\ \A i \in 1..n - 1 + 1 : u[i] = key[1 + i - 1]
  <2>1. 1 \in Int /\ n \in Int /\ \A i \in 1..n : key[i] \in {0, 1}
    BY <1>1
  <2> HIDE DEF n
  <2>2. QED
    BY <2>1, SubSeqProperties
<1>3. Len(u) = n /\ n \in Nat
  <2> DEFINE v == Len(u)
             w == n
  <2>1. v = (IF 1 <= w THEN w - 1 + 1 ELSE 0) /\ w \in Nat
    BY <1>1, <1>2
  <2> HIDE DEF v, w
  <2>2. v = w
    BY <2>1
  <2>3. QED
    BY <1>1, <2>2 DEF v, w
<1>4. ASSUME NEW i \in 1..n PROVE u[i] = c[i]
  <2>1. i \in 1..n - 1 + 1 /\ 1 + i - 1 = i
    BY <1>1
  <2>2. QED
    BY <1>1, <1>2, <2>1
<1> HIDE DEF u
<1>5. u = c
  BY <1>2, <1>3, <1>4, SeqEqual
<1>6. QED
  BY <1>5 DEF u

\* A list with one more element.
LEMMA ElementsOfAppend ==
  ASSUME NEW S, NEW s \in Seq(S), NEW x \in S
  PROVE  /\ Append(s, x) \in Seq(S)
         /\ ToSet(Append(s, x)) = ToSet(s) \cup {x}
         /\ IsInjective(s) /\ x \notin ToSet(s) => IsInjective(Append(s, x))
<1> DEFINE m == Len(s)
           q == Append(s, x)
<1>1. /\ q \in Seq(S) /\ m \in Nat /\ DOMAIN q = 1..(m + 1) /\ DOMAIN s = 1..m
      /\ \A j \in 1..m : q[j] = s[j]
      /\ q[m + 1] = x
  BY AppendProperties
<1> HIDE DEF q, m
<1>2. \A j \in 1..(m + 1) : j \in 1..m \/ j = m + 1
  BY <1>1
<1>3. (\A j \in 1..m : j \in 1..(m + 1)) /\ m + 1 \in 1..(m + 1)
  BY <1>1
<1>4. ToSet(q) = ToSet(s) \cup {x}
  <2>1. ToSet(q) \subseteq ToSet(s) \cup {x}
    BY <1>1, <1>2 DEF ToSet
  <2>2. ToSet(s) \cup {x} \subseteq ToSet(q)
    BY <1>1, <1>3 DEF ToSet
  <2>3. QED
    BY <2>1, <2>2
<1>5. ASSUME IsInjective(s), x \notin ToSet(s) PROVE IsInjective(q)
  <2>1. \A j \in 1..m : s[j] # x
    BY <1>1, <1>5 DEF ToSet
  <2>2. \A a, b \in 1..m : s[a] = s[b] => a = b
    BY <1>1, <1>5 DEF IsInjective
  <2>3. \A a, b \in 1..(m + 1) : q[a] = q[b] => a = b
    BY <1>1, <1>2, <2>1, <2>2
  <2>4. QED
    BY <1>1, <2>3 DEF IsInjective
<1>6. QED
  BY <1>1, <1>4, <1>5 DEF q

\* The calls of the user's function that a walk owes to the nodes it has left
\* behind, and those it has made.
CallsFor(datum, none, passed) == {<<z, datum[z]>> : z \in {y \in passed : datum[y] # none}}
CallsMade(datum, none, passed, failed, seen) ==
  /\ IsInjective(seen)
  /\ IF failed THEN ToSet(seen) \subseteq CallsFor(datum, none, passed)
               ELSE ToSet(seen) = CallsFor(datum, none, passed)
CallDue(datum, none, z, failed) == datum[z] # none /\ ~failed
CallsWith(datum, none, z, failed, seen) ==
  IF CallDue(datum, none, z, failed) THEN Append(seen, <<z, datum[z]>>) ELSE seen

LEMMA OneCallMore ==
  ASSUME NEW datum, NEW none, NEW passed, NEW failed \in BOOLEAN,
         NEW S, NEW seen \in Seq(S), CallsMade(datum, none, passed, failed, seen),
         NEW z, z \notin passed, <<z, datum[z]>> \in S,
         NEW now \in BOOLEAN, failed => now,
         now => failed \/ CallDue(datum, none, z, failed)
  PROVE  CallsMade(datum, none, passed \cup {z}, now,
              CallsWith(datum, none, z, failed, seen))
<1> DEFINE x == <<z, datum[z]>>
           before == CallsFor(datum, none, passed)
           after == CallsFor(datum, none, passed \cup {z})
<1>1. after = IF datum[z] # none THEN before \cup {x} ELSE before
  BY DEF CallsFor
<1>2. x \notin before
  BY DEF CallsFor
<1>3. /\ IsInjective(seen)
      /\ failed => ToSet(seen) \subseteq before
      /\ ~failed => ToSet(seen) = before
  BY DEF CallsMade
<1> HIDE DEF x, before, after
<1>4. CASE CallDue(datum, none, z, failed)
  <2>1. ~failed /\ datum[z] # none
    BY <1>4 DEF CallDue
  <2>2. x \in S /\ x \notin ToSet(seen)
    BY <1>2, <1>3, <2>1 DEF x
  <2>3. IsInjective(Append(seen, x)) /\ ToSet(Append(seen, x)) = ToSet(seen) \cup {x}
    BY <1>3, <2>2, ElementsOfAppend
  <2>4. ToSet(Append(seen, x)) = after
    BY <1>1, <1>3, <2>1, <2>3
  <2>5. CallsMade(datum, none, passed \cup {z}, now, Append(seen, x))
    BY <2>3, <2>4 DEF CallsMade, after
  <2>6. QED
    BY <1>4, <2>5 DEF x, CallsWith
<1>5. CASE ~CallDue(datum, none, z, failed)
  <2>1. (now <=> failed) /\ (datum[z] = none \/ failed)
    BY <1>5 DEF CallDue
  <2>2. /\ failed => ToSet(seen) \subseteq after
        /\ ~failed => ToSet(seen) = after
    BY <1>1, <1>3, <2>1
  <2>3. CallsMade(datum, none, passed \cup {z}, now, seen)
    BY <1>3, <2>1, <2>2 DEF CallsMade, after
  <2>4. QED
    BY <1>5, <2>3 DEF CallsWith
<1>6. QED
  BY <1>4, <1>5

\* A walk that is at a node: the nodes it has left behind are told of.
LeftBehind(nodes, c, m) == {z \in nodes : Left(z, c, m)}
Walks(nodes, datum, none, cur, node, key, failed, seen) ==
  /\ node \in nodes
  /\ Counters(nodes, cur, node, cur[node])
  /\ KeyHolds(key, node, cur[node])
  /\ CallsMade(datum, none, LeftBehind(nodes, node, cur[node]), failed, seen)
Binary(nodes, n) == Trie(nodes, n) /\ nodes \subseteq Seq({0, 1})

LEMMA WalkBegins ==
  ASSUME NEW nodes, NEW n, Binary(nodes, n), NEW datum, NEW none,
         NEW cur, cur = [z \in nodes |-> 0]
  PROVE  Walks(nodes, datum, none, cur, <<>>, <<>>, FALSE, <<>>)
<1>1. <<>> \in nodes /\ nodes \subseteq Seq({0, 1}) /\ <<>> \in Seq({0, 1})
  BY DEF Binary, Trie
<1>2. cur[<<>>] = 0
  BY <1>1
<1>3. Counters(nodes, cur, <<>>, 0)
  <2>1. \A z \in nodes : ~Begins(z, <<>>)
    BY <1>1 DEF Begins
  <2>2. QED
    BY <1>2, <2>1 DEF Counters
<1>4. KeyHolds(<<>>, <<>>, 0)
  BY DEF KeyHolds
<1>5. LeftBehind(nodes, <<>>, 0) = {}
  BY <1>1, LeftEnds DEF LeftBehind
<1>6. CallsMade(datum, none, {}, FALSE, <<>>)
  BY ElementsOfEmpty DEF CallsMade, CallsFor
<1>7. QED
  BY <1>1, <1>2, <1>3, <1>4, <1>5, <1>6 DEF Walks

LEMMA WalkDown ==
  ASSUME NEW nodes, NEW n, Binary(nodes, n), NEW datum, NEW none,
         NEW cur, NEW node, NEW key, NEW failed, NEW seen,
         Walks(nodes, datum, none, cur, node, key, failed, seen), cur[node] < 2
  PROVE  Walks(nodes, datum, none, Tried(cur, node),
               IF Append(node, cur[node]) \in nodes
               THEN Append(node, cur[node]) ELSE node,
               KeyWritten(key, node), failed, seen)
<1> DEFINE b == cur[node]
           c == Append(node, b)
           new == Tried(cur, node)
<1>1. /\ nodes \subseteq Seq({0, 1}) /\ node \in nodes /\ Trie(nodes, n)
      /\ Counters(nodes, cur, node, b) /\ KeyHolds(key, node, b)
      /\ CallsMade(datum, none, LeftBehind(nodes, node, b), failed, seen)
  BY DEF Walks, Binary
<1>2. b \in {0, 1}
  <2>1. cur[node] \in 0..2
    BY <1>1 DEF Counters
  <2>2. QED
    BY <2>1
<1>3. Above(node, b, c)
  BY <1>1, <1>2, ChildBelow
<1>4. CASE c \in nodes
  <2>1. Counters(nodes, new, c, 0)
    <3>1. nodes \in SUBSET Seq({0, 1})
      BY <1>1
    <3> HIDE DEF b, c
    <3>2. QED
      BY <1>1, <1>3, <1>4, <3>1, CountersBelow, Zenon
  <2>2. KeyHolds(KeyWritten(key, node), c, 0)
    BY <1>1, <1>3, KeyBelow
  <2>3. LeftBehind(nodes, c, 0) = LeftBehind(nodes, node, b)
    <3>1. \A z \in nodes : Left(z, c, 0) <=> Left(z, node, b)
      BY <1>1, <1>3, LeftBelow
    <3>2. QED
      BY <3>1 DEF LeftBehind
  <2> HIDE DEF b, c, new
  <2>4. Walks(nodes, datum, none, new, c, KeyWritten(key, node), failed, seen)
    <3>1. new[c] = 0
      BY <2>1 DEF Counters
    <3>2. QED
      BY <1>1, <1>4, <2>1, <2>2, <2>3, <3>1 DEF Walks
  <2>5. QED
    BY <1>4, <2>4 DEF b, c, new
<1>5. CASE c \notin nodes
  <2>1. Counters(nodes, new, node, b + 1)
    <3> HIDE DEF b
    <3>1. QED
      BY <1>1, <1>2, CountersHere
  <2>2. KeyHolds(KeyWritten(key, node), node, b + 1)
    <3>1. b \in Nat /\ node \in Seq({0, 1})
      BY <1>1, <1>2
    <3>2. QED
      BY <1>1, <3>1, KeyIsWritten
  <2>3. LeftBehind(nodes, node, b + 1) = LeftBehind(nodes, node, b)
    <3>1. ASSUME NEW z \in nodes PROVE Left(z, node, b + 1) <=> Left(z, node, b)
      <4>1. Prefixes(z) \subseteq nodes
        BY <1>1, WayThere
      <4>2. c \notin Prefixes(z)
        BY <1>5, <4>1
      <4>3. QED
        BY <1>1, <1>3, <4>2, LeftBelow
    <3>2. QED
      BY <3>1 DEF LeftBehind
  <2> HIDE DEF b, c, new
  <2>4. Walks(nodes, datum, none, new, node, KeyWritten(key, node), failed, seen)
    <3>1. new[node] = b + 1
      BY <2>1 DEF Counters
    <3>2. QED
      BY <1>1, <2>1, <2>2, <2>3, <3>1 DEF Walks
  <2>5. QED
    BY <1>5, <2>4 DEF b, c, new
<1>6. QED
  BY <1>4, <1>5

\* The last turn at a node: the call of the user's function with its key, the
\* counter put back, and up, or out at the root.
LEMMA KeyOfWalk ==
  ASSUME NEW nodes, NEW n, Binary(nodes, n), NEW datum, NEW none,
         NEW cur, NEW node, NEW key, NEW failed, NEW seen,
         Walks(nodes, datum, none, cur, node, key, failed, seen), cur[node] >= 2
  PROVE  SubSeq(key, 1, Len(node)) = node
<1>1. node \in nodes /\ cur \in [nodes -> 0..2] /\ KeyHolds(key, node, cur[node])
      /\ nodes \subseteq Seq({0, 1})
  BY DEF Walks, Counters, Binary
<1>2. cur[node] = 2
  <2>1. cur[node] \in 0..2
    BY <1>1
  <2>2. QED
    BY <2>1
<1>3. QED
  BY <1>1, <1>2, KeyRead

LastTurn(nodes, n, datum, none, D, cur, node, key, failed, seen, now, told) ==
  /\ Binary(nodes, n)
  /\ Walks(nodes, datum, none, cur, node, key, failed, seen) /\ cur[node] >= 2
  /\ seen \in Seq(D) /\ <<node, datum[node]>> \in D
  /\ failed \in BOOLEAN /\ now \in BOOLEAN /\ (failed => now)
  /\ now => failed \/ CallDue(datum, none, node, failed)
  /\ told = CallsWith(datum, none, node, failed, seen)

AfterLast(nodes, datum, none, new, node, key, now, told) ==
  /\ node # <<>> => /\ Front(node) \in nodes
                    /\ Walks(nodes, datum, none, new, Front(node), key, now, told)
  /\ node = <<>> => /\ CallsMade(datum, none, nodes, now, told)
                    /\ new = [z \in nodes |-> 0]

LEMMA WalkUp ==
  ASSUME NEW nodes, NEW n, NEW datum, NEW none, NEW D, NEW cur, NEW node, NEW key,
         NEW failed, NEW seen, NEW now, NEW told,
         LastTurn(nodes, n, datum, none, D, cur, node, key, failed, seen, now, told)
  PROVE  AfterLast(nodes, datum, none, PutBack(cur, node), node, key, now, told)
<1> DEFINE p == Front(node)
           b == Last(node)
           new == PutBack(cur, node)
<1>1. /\ nodes \subseteq Seq({0, 1}) /\ node \in nodes /\ Trie(nodes, n)
      /\ Counters(nodes, cur, node, cur[node]) /\ KeyHolds(key, node, cur[node])
      /\ CallsMade(datum, none, LeftBehind(nodes, node, cur[node]), failed, seen)
  BY Zenon DEF LastTurn, Walks, Binary
<1>2. cur[node] = 2
  <2>1. cur[node] \in 0..2 /\ cur[node] >= 2
    BY <1>1 DEF Counters, LastTurn
  <2>2. QED
    BY <2>1
<1>3. node \notin LeftBehind(nodes, node, 2)
  BY <1>1, LeftEnds DEF LeftBehind
<1>4. CallsMade(datum, none, LeftBehind(nodes, node, 2) \cup {node}, now, told)
  <2>1. CallsMade(datum, none, LeftBehind(nodes, node, 2), failed, seen)
    BY <1>1, <1>2
  <2>2. QED
    BY <1>3, <2>1, OneCallMore, Zenon DEF LastTurn
<1>5. ASSUME node # <<>>
      PROVE  Walks(nodes, datum, none, new, p, key, now, told)
  <2>1. Above(p, b, node) /\ p \in nodes
    BY <1>1, <1>5, ParentAbove DEF Trie
  <2>2. Counters(nodes, new, p, b + 1)
    <3>1. nodes \in SUBSET Seq({0, 1})
      BY <1>1
    <3> HIDE DEF b, p
    <3>2. QED
      BY <1>1, <2>1, <3>1, CountersBelow, Zenon
  <2>3. KeyHolds(key, p, b + 1)
    BY <1>1, <1>2, <2>1, KeyBelow
  <2>4. LeftBehind(nodes, p, b + 1) = LeftBehind(nodes, node, 2) \cup {node}
    <3>1. \A z \in nodes : Left(z, p, b + 1) <=> Left(z, node, 2) \/ z = node
      BY <1>1, <2>1, LeftBelow
    <3>2. QED
      BY <1>1, <3>1 DEF LeftBehind
  <2> HIDE DEF p, b, new
  <2>5. new[p] = b + 1
    BY <2>2 DEF Counters
  <2>6. QED
    BY <1>4, <2>1, <2>2, <2>3, <2>4, <2>5 DEF Walks
<1>6. ASSUME node = <<>>
      PROVE  /\ CallsMade(datum, none, nodes, now, told)
             /\ new = [z \in nodes |-> 0]
  <2>1. LeftBehind(nodes, node, 2) \cup {node} = nodes
    BY <1>1, <1>6, LeftEnds DEF LeftBehind
  <2>2. \A z \in nodes : ~Begins(z, node)
    BY <1>1, <1>6 DEF Begins
  <2>3. new = [z \in nodes |-> 0]
    BY <1>1, <2>2 DEF Counters, PutBack
  <2>4. QED
    BY <1>4, <2>1, <2>3
<1>7. node # <<>> => p \in nodes
  BY <1>1 DEF Trie
<1>8. QED
  BY <1>5, <1>6, <1>7 DEF AfterLast

\* The locals of a walk that calls for data of D, and what the last turn at a
\* node writes into them.
VisitsOf(D) ==
  [at : {"out", "tested", "set", "loop", "unlocked"},
   node : Seq({0, 1}), key : Seq({0, 1}), failed : BOOLEAN,
   seen : Seq(Seq({0, 1}) \X D)]
TurnOf(v, failed, seen, node, at) ==
  [v EXCEPT !.failed = failed, !.seen = seen, !.node = node, !.at = at]
TurnAt(f, t, failed, seen, node, at) ==
  [f EXCEPT ![t].failed = failed, ![t].seen = seen, ![t].node = node, ![t].at = at]
OneTurn(f, t, failed, seen, node, at) ==
  [f EXCEPT ![t] = TurnOf(f[t], failed, seen, node, at)]
HasTurned(D, w, v, failed, seen, node, at) ==
  /\ w \in VisitsOf(D) /\ w.at = at /\ w.node = node /\ w.key = v.key
  /\ w.failed = failed /\ w.seen = seen
MayTurn(D, f, t) == t \in DOMAIN f /\ f \in [DOMAIN f -> VisitsOf(D)]

\* A function with the domain D; writing it twice at one place leaves the second.
IsFunction(g, D) == g = [x \in D |-> g[x]]

LEMMA WrittenTwice ==
  ASSUME NEW D, NEW f, IsFunction(f, D), NEW t \in D, NEW u, NEW w
  PROVE  /\ [[f EXCEPT ![t] = u] EXCEPT ![t] = w] = [f EXCEPT ![t] = w]
         /\ [f EXCEPT ![t] = u][t] = u
<1>1. PICK g : g = [f EXCEPT ![t] = u]
  OBVIOUS
<1>2. g = [x \in D |-> IF x = t THEN u ELSE f[x]]
  BY <1>1, SMT DEF IsFunction
<1>3. IsFunction(g, D) /\ g[t] = u /\ \A x \in D : x # t => g[x] = f[x]
  BY <1>2, Zenon DEF IsFunction
<1>4. [x \in D |-> IF x = t THEN w ELSE g[x]] =
        [x \in D |-> IF x = t THEN w ELSE f[x]]
  BY <1>3, Zenon
<1>5. [g EXCEPT ![t] = w] = [x \in D |-> IF x = t THEN w ELSE g[x]]
  BY <1>3, SMT DEF IsFunction
<1>6. [f EXCEPT ![t] = w] = [x \in D |-> IF x = t THEN w ELSE f[x]]
  BY SMT DEF IsFunction
<1>7. QED
  BY <1>1, <1>3, <1>4, <1>5, <1>6, Zenon

LEMMA TurnOfWalk ==
  ASSUME NEW D, NEW f, NEW t, MayTurn(D, f, t),
         NEW failed, NEW seen, NEW node, NEW at
  PROVE  TurnAt(f, t, failed, seen, node, at) = OneTurn(f, t, failed, seen, node, at)
<1>1. IsFunction(f, DOMAIN f) /\ t \in DOMAIN f
  BY Zenon DEF MayTurn, IsFunction
<1>2. PICK f1, v1 : /\ v1 = [f[t] EXCEPT !.failed = failed]
                   /\ f1 = [f EXCEPT ![t] = v1]
  OBVIOUS
<1>3. PICK f2, v2 : v2 = [v1 EXCEPT !.seen = seen] /\ f2 = [f1 EXCEPT ![t] = v2]
  OBVIOUS
<1>4. PICK f3, v3 : v3 = [v2 EXCEPT !.node = node] /\ f3 = [f2 EXCEPT ![t] = v3]
  OBVIOUS
<1>5. PICK f4, v4 : v4 = [v3 EXCEPT !.at = at] /\ f4 = [f3 EXCEPT ![t] = v4]
  OBVIOUS
<1>6. f1[t] = v1 /\ f2 = [f EXCEPT ![t] = v2]
  BY <1>1, <1>2, <1>3, WrittenTwice
<1>7. f2[t] = v2 /\ f3 = [f EXCEPT ![t] = v3]
  BY <1>1, <1>4, <1>6, WrittenTwice
<1>8. f3[t] = v3 /\ f4 = [f EXCEPT ![t] = v4]
  BY <1>1, <1>5, <1>7, WrittenTwice
<1>9. /\ f1 = [f EXCEPT ![t].failed = failed] /\ f2 = [f1 EXCEPT ![t].seen = seen]
      /\ f3 = [f2 EXCEPT ![t].node = node] /\ f4 = [f3 EXCEPT ![t].at = at]
  BY <1>2, <1>3, <1>4, <1>5, <1>6, <1>7, <1>8, Zenon
<1>10. f4 = TurnAt(f, t, failed, seen, node, at)
  <2>1. f4 = [[[[f EXCEPT ![t].failed = failed] EXCEPT ![t].seen = seen]
               EXCEPT ![t].node = node] EXCEPT ![t].at = at]
    BY <1>9, Zenon
  <2>2. QED
    BY <2>1 DEF TurnAt
<1>11. v4 = TurnOf(f[t], failed, seen, node, at)
  <2>1. v4 = [[[[f[t] EXCEPT !.failed = failed] EXCEPT !.seen = seen]
               EXCEPT !.node = node] EXCEPT !.at = at]
    BY <1>2, <1>3, <1>4, <1>5, Zenon
  <2>2. QED
    BY <2>1 DEF TurnOf
<1>12. QED
  BY <1>8, <1>10, <1>11, Zenon DEF OneTurn

\* Writing one field of a record leaves the others.
LEMMA FieldsWritten ==
  ASSUME NEW a, NEW n, NEW k, NEW b, NEW s,
         NEW v \in [at : a, node : n, key : k, failed : b, seen : s], NEW w
  PROVE  /\ w \in b => LET r == [v EXCEPT !.failed = w] IN
              /\ r \in [at : a, node : n, key : k, failed : b, seen : s]
              /\ r.failed = w /\ r.key = v.key
         /\ w \in s => LET r == [v EXCEPT !.seen = w] IN
              /\ r \in [at : a, node : n, key : k, failed : b, seen : s]
              /\ r.seen = w /\ r.failed = v.failed /\ r.key = v.key
         /\ w \in n => LET r == [v EXCEPT !.node = w] IN
              /\ r \in [at : a, node : n, key : k, failed : b, seen : s]
              /\ r.node = w /\ r.seen = v.seen /\ r.failed = v.failed
              /\ r.key = v.key
         /\ w \in a => LET r == [v EXCEPT !.at = w] IN
              /\ r \in [at : a, node : n, key : k, failed : b, seen : s]
              /\ r.at = w /\ r.node = v.node /\ r.seen = v.seen
              /\ r.failed = v.failed /\ r.key = v.key
<1> DEFINE V == [at : a, node : n, key : k, failed : b, seen : s]
<1>1. w \in b => LET r == [v EXCEPT !.failed = w] IN
         r \in V /\ r.failed = w /\ r.key = v.key
  BY SMT
<1>2. w \in s => LET r == [v EXCEPT !.seen = w] IN
         r \in V /\ r.seen = w /\ r.failed = v.failed /\ r.key = v.key
  BY SMT
<1>3. w \in n => LET r == [v EXCEPT !.node = w] IN
         /\ r \in V /\ r.node = w /\ r.seen = v.seen /\ r.failed = v.failed
         /\ r.key = v.key
  BY SMT
<1>4. w \in a => LET r == [v EXCEPT !.at = w] IN
         /\ r \in V /\ r.at = w /\ r.node = v.node /\ r.seen = v.seen
         /\ r.failed = v.failed /\ r.key = v.key
  BY SMT
<1>5. QED
  BY <1>1, <1>2, <1>3, <1>4, Zenon

LEMMA AfterTurn ==
  ASSUME NEW D, NEW v, v \in VisitsOf(D), NEW failed \in BOOLEAN,
         NEW seen \in Seq(Seq({0, 1}) \X D), NEW node \in Seq({0, 1}),
         NEW at \in {"loop", "unlocked"}
  PROVE  HasTurned(D, TurnOf(v, failed, seen, node, at), v, failed, seen, node, at)
<1>1. PICK v1 : v1 = [v EXCEPT !.failed = failed]
  OBVIOUS
<1>2. PICK v2 : v2 = [v1 EXCEPT !.seen = seen]
  OBVIOUS
<1>3. PICK v3 : v3 = [v2 EXCEPT !.node = node]
  OBVIOUS
<1>4. PICK w : w = [v3 EXCEPT !.at = at]
  OBVIOUS
<1>5. v1 \in VisitsOf(D) /\ v1.failed = failed /\ v1.key = v.key
  BY <1>1, FieldsWritten, Zenon DEF VisitsOf
<1>6. /\ v2 \in VisitsOf(D) /\ v2.seen = seen /\ v2.failed = failed
      /\ v2.key = v.key
  BY <1>2, <1>5, FieldsWritten, Zenon DEF VisitsOf
<1>7. /\ v3 \in VisitsOf(D) /\ v3.node = node /\ v3.seen = seen
      /\ v3.failed = failed /\ v3.key = v.key
  BY <1>3, <1>6, FieldsWritten, Zenon DEF VisitsOf
<1>8. HasTurned(D, w, v, failed, seen, node, at)
  <2>1. at \in {"out", "tested", "set", "loop", "unlocked"}
    OBVIOUS
  <2>2. QED
    BY <1>4, <1>7, <2>1, FieldsWritten, Zenon DEF VisitsOf, HasTurned
<1>9. w = TurnOf(v, failed, seen, node, at)
  <2>1. w = [[[[v EXCEPT !.failed = failed] EXCEPT !.seen = seen]
               EXCEPT !.node = node] EXCEPT !.at = at]
    BY <1>1, <1>2, <1>3, <1>4, Zenon
  <2>2. QED
    BY <2>1 DEF TurnOf
<1>10. QED
  BY <1>8, <1>9, Zenon
=============================================================================
