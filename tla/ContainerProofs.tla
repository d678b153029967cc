-------------------------- MODULE ContainerProofs ---------------------------
(***************************************************************************)
(* What TLC checks of the containers on small instances (Containers), for  *)
(* every value of their constants.  A behaviour is one of one component,   *)
(* and keeps its invariant: that of a list, a pool or a bit list is the    *)
(* one of ListsAndPoolsProofs, that of the event manager of                *)
(* EventManagerProofs, those of the TLV manager, the memory monitor, the   *)
(* radix tree and the traversal of it are here.                            *)
(***************************************************************************)
EXTENDS Containers, ListsAndPoolsProofs

\* A step of the containers is one of the component in use.
LEMMA OneKind ==
  ASSUME [Next]_vars
  PROVE  /\ UNCHANGED kind
         /\ kind = "buffers" => [U!Next]_bufferVars
         /\ kind = "events" => [E!Next]_eventVars
         /\ kind = "shm allocator" => [A!Next]_allocatorVars
         /\ kind = "list" => [L!Next]_listVars
         /\ kind = "ordered list" => [O!Next]_orderedVars
         /\ kind = "TLVs" => [T!Next]_tlvVars
         /\ kind = "memory monitor" => [M!Next]_monitorVars
         /\ kind = "radix tree" => [R!Next]_radixVars
         /\ kind = "bit list" => [B!Next]_bitVars
         /\ kind = "shm bit list" => [S!Next]_shmBitVars
<1>1. CASE UNCHANGED vars
  BY <1>1 DEF vars
<1>2. CASE Next
  BY <1>2, Zenon DEF Next, Others
<1>3. QED
  BY <1>1, <1>2, Zenon

-----------------------------------------------------------------------------
(***************************************************************************)
(* The lists and the pools.                                                *)
(***************************************************************************)
\* A list has the links, both ways, the ends and the count of the sequence
\* its calls asked for, and no node besides.
LEMMA ListKept ==
  ASSUME L!ConstantsOK
  PROVE  Spec => [](kind = "list" => L!Exact)
<1> DEFINE Inv == kind = "list" => ListInv
<1>1. Init => Inv
  BY ListBegins, Zenon DEF Init
<1>2. Inv /\ [Next]_vars => Inv'
  BY OneKind, ListStep, Zenon
<1>3. Inv => (kind = "list" => L!Exact)
  BY ListAsAsked, Zenon
<1>4. QED
  BY <1>1, <1>2, <1>3, PTL DEF Spec

\* Lists of both kinds are exact: the linked one has the links, both ways,
\* the ends and the count of the sequence its calls asked for; the ordered
\* one holds the data in the order of their keys and then the marker; and
\* neither has a node besides.
THEOREM ListsKept ==
  ASSUME L!ConstantsOK, O!ConstantsOK
  PROVE  Spec => []ListsExact
<1> DEFINE Inv == kind = "ordered list" => OrderedInv
<1>1. Init => Inv
  BY OrderedBegins, Zenon DEF Init
<1>2. Inv /\ [Next]_vars => Inv'
  <2>1. SUFFICES ASSUME Inv, [Next]_vars, (kind = "ordered list")'
                 PROVE  OrderedInv'
    BY Zenon
  <2>2. UNCHANGED kind /\ (kind = "ordered list" => [O!Next]_orderedVars)
    <3>1. [Next]_vars
      BY <2>1, Zenon
    <3>2. QED
      BY <3>1, OneKind, Zenon
  <2>3. OrderedInv /\ [O!Next]_orderedVars
    BY <2>1, <2>2, Zenon
  <2>4. QED
    BY <2>3, OrderedStep
<1>3. Inv => (kind = "ordered list" => O!Exact)
  BY OrderedAsAsked, Zenon
<1>4. Spec => [](kind = "list" => L!Exact)
  BY ListKept
<1>5. (kind = "list" => L!Exact) /\ (kind = "ordered list" => O!Exact) => ListsExact
  BY Zenon DEF ListsExact
<1>6. QED
  BY <1>1, <1>2, <1>3, <1>4, <1>5, PTL DEF Spec

\* Every buffer is free or has one user, who asked for no more than it holds,
\* and a request is served by one of the smallest buffers that are free and
\* large enough, whichever allocations failed at the start.  Except that
\* nothing is said of how a request of max_size is served where there is a
\* table: its entry lies past it, and it may be refused with a buffer free.
THEOREM BuffersKept ==
  ASSUME U!ConstantsOK
  PROVE  Spec => []BuffersExact
<1> DEFINE Inv == kind = "buffers" => BuffersInv
<1>1. Init => Inv
  BY InitialisedInv DEF Init, U!Init
<1>2. Inv /\ [Next]_vars => Inv'
  BY OneKind, BuffersStep, Zenon
<1>3. Inv => BuffersExact
  BY BuffersInvExact DEF BuffersExact
<1>4. QED
  BY <1>1, <1>2, <1>3, PTL DEF Spec

\* As long as no two calls have overlapped: the extents that the shared memory
\* allocator has handed out are disjoint, and chunks, free list and counts of
\* its blocks account for them, whichever processes made the calls.
THEOREM ExtentsKept ==
  ASSUME A!ConstantsOK
  PROVE  Spec => []ShmExtentsExact
<1> DEFINE Inv == kind = "shm allocator" => BlocksInv
<1>1. Init => Inv
  BY BlocksBegin, Zenon DEF Init
<1>2. Inv /\ [Next]_vars => Inv'
  <2>1. SUFFICES ASSUME Inv, [Next]_vars, (kind = "shm allocator")'
                 PROVE  BlocksInv'
    BY Zenon
  <2>2. UNCHANGED kind /\ (kind = "shm allocator" => [A!Next]_allocatorVars)
    <3>1. [Next]_vars
      BY <2>1, Zenon
    <3>2. QED
      BY <3>1, OneKind, Zenon
  <2>3. BlocksInv /\ [A!Next]_allocatorVars
    BY <2>1, <2>2, Zenon
  <2>4. QED
    BY <2>3, BlocksStep, Zenon
<1>3. Inv => ShmExtentsExact
  BY BlocksAsAsked, Zenon DEF ShmExtentsExact
<1>4. QED
  BY <1>1, <1>2, <1>3, PTL DEF Spec

\* Bit lists answer every query for the bits asked to be 1: each bit, the
\* count, the first bit set and the first one clear, whatever the spare bits
\* hold; and in shared memory as many of the lowest as are asked for.
THEOREM BitsKept ==
  ASSUME B!ConstantsOK, S!ConstantsOK
  PROVE  Spec => []BitListsExact
<1> DEFINE Inv == /\ kind = "bit list" => BitInv
                  /\ kind = "shm bit list" => ShmBitInv
<1>1. Init => Inv
  BY BitBegins, ShmBitBegins, Zenon DEF Init
<1>2. Inv /\ [Next]_vars => Inv'
  <2>1. SUFFICES ASSUME Inv, [Next]_vars PROVE Inv'
    BY Zenon
  <2>2. /\ UNCHANGED kind
        /\ kind = "bit list" => [B!Next]_bitVars
        /\ kind = "shm bit list" => [S!Next]_shmBitVars
    <3>1. [Next]_vars
      BY <2>1, Zenon
    <3>2. QED
      BY <3>1, OneKind, Zenon
  <2>3. ASSUME (kind = "bit list")' PROVE BitInv'
    <3>1. BitInv /\ [B!Next]_bitVars
      BY <2>1, <2>2, <2>3, Zenon
    <3>2. QED
      BY <3>1, BitStep, Zenon
  <2>4. ASSUME (kind = "shm bit list")' PROVE ShmBitInv'
    <3>1. ShmBitInv /\ [S!Next]_shmBitVars
      BY <2>1, <2>2, <2>4, Zenon
    <3>2. QED
      BY <3>1, ShmBitStep, Zenon
  <2>5. QED
    BY <2>3, <2>4, Zenon
<1>3. Inv => BitListsExact
  BY BitAsAsked, ShmBitAsAsked, Zenon DEF BitListsExact
<1>4. QED
  BY <1>1, <1>2, <1>3, PTL DEF Spec

-----------------------------------------------------------------------------
(***************************************************************************)
(* The TLV manager.  The triples written stand in the buffer at offsets    *)
(* that a parse goes through, up to a length that it refuses, and the next *)
(* is written behind the last, or at the start instead of them.            *)
(***************************************************************************)
TlvInv ==
  /\ buffer \in Seq(Int) /\ idx \in Nat /\ remaining_size \in Int
  /\ idx + remaining_size <= Len(buffer)
  /\ n_tlvs \in Nat /\ lost \in Nat /\ (idx # 0 => n_tlvs = Len(written) + lost)
  /\ written \in Seq(AnyTriples)
  /\ written = <<>> => idx = 0
  /\ written # <<>> =>
       \E off : /\ Offsets(buffer, written, off)
                /\ idx \in {0, off[Len(written) + 1]}

\* The parser of the model is that of the lemmas.
LEMMA ParserOfModel == T!ParseFrom = Parser(buffer, MAX_TLV_VALUE_BYTES)
<1>1. \A rc, p : T!Stop(rc, p) = StopAt(rc, p)
  BY DEF T!Stop, StopAt
<1>2. \A D : T!Min(D) = Min(D)
  BY DEF T!Min, Min
<1>3. \A p, length : T!ValueAt(p, length) = ValueIn(buffer, p, length)
  BY <1>2, Zenon DEF T!ValueAt, ValueIn, T!buf_size
<1>4. T!buf_size = Len(buffer) /\ T!TLV_END_TYPE = EndType
  BY DEF T!buf_size, T!TLV_END_TYPE, EndType
<1> DEFINE Turn(f, p, mem) ==
             IF p >= T!buf_size THEN T!Stop("ok", p)
             ELSE IF p + 1 >= T!buf_size THEN T!Stop("ENOSPC", p)
             ELSE IF buffer[p + 1] = T!TLV_END_TYPE THEN T!Stop("ok", p)
             ELSE IF p + 2 >= T!buf_size THEN T!Stop("ENOSPC", p)
             ELSE IF buffer[p + 2] \notin 1..MAX_TLV_VALUE_BYTES
                    THEN T!Stop("EINVAL", p)
             ELSE IF mem = 0 THEN T!Stop("ENOMEM", p)
             ELSE [f[<<p + 2 + buffer[p + 2], mem - 1>>] EXCEPT !.found =
                     <<<<buffer[p + 1], T!ValueAt(p + 2, buffer[p + 2])>>>> \o @]
           domain == (0..(2 * T!buf_size + MAX_TLV_VALUE_BYTES)) \X (0..T!buf_size)
<1>5. T!ParseFrom = CHOOSE f : f = [from \in domain |-> Turn(f, from[1], from[2])]
  BY Zenon DEF T!ParseFrom
<1>6. ASSUME NEW f, NEW p, NEW mem
      PROVE  Turn(f, p, mem) = ParseTurn(buffer, MAX_TLV_VALUE_BYTES, f, p, mem)
  BY <1>1, <1>3, <1>4, Zenon DEF ParseTurn
<1>7. domain = Starts(buffer, MAX_TLV_VALUE_BYTES) \X Room(buffer)
  BY <1>4, Zenon DEF Starts, Room
<1> HIDE DEF Turn, domain
<1>8. \A f : [from \in domain |-> Turn(f, from[1], from[2])] =
             [from \in domain |->
                ParseTurn(buffer, MAX_TLV_VALUE_BYTES, f, from[1], from[2])]
  BY <1>6, Zenon
<1>9. \A f : f = [from \in domain |-> Turn(f, from[1], from[2])] <=>
             Parses(buffer, MAX_TLV_VALUE_BYTES, f)
  BY <1>7, <1>8, Zenon DEF Parses
<1>10. QED
  BY <1>5, <1>9, Zenon DEF Parser

LEMMA TlvAsAsked ==
  ASSUME T!ConstantsOK, TlvInv
  PROVE  T!RoundTrip
<1> DEFINE parsed == T!ParseFrom[<<0, T!buf_size>>]
           longest == MAX_TLV_VALUE_BYTES
<1>1. /\ T!buf_size = Len(buffer) /\ idx + remaining_size <= T!buf_size
      /\ idx # 0 => n_tlvs = Len(written) + lost
  BY DEF TlvInv, T!buf_size
<1>2. ASSUME written # <<>>
      PROVE  /\ parsed.found = T!Taken(written)
             /\ IF T!Taken(written) # written THEN parsed.rc = "EINVAL"
                ELSE parsed.at # T!buf_size - 1 => parsed.rc = "ok"
  <2>1. PICK off : Offsets(buffer, written, off)
    BY <1>2 DEF TlvInv
  <2>2. buffer \in Seq(Int) /\ longest \in Nat /\ written \in Seq(AnyTriples)
    BY DEF TlvInv, T!ConstantsOK
  <2>3. PICK g \in 0..Len(written) : Takes(written, longest, g)
    BY <2>2, TakenIs, Zenon
  <2>4. ParseOf(buffer, longest, written, off, g)
    BY <2>1, <2>2, <2>3, ParseTakes, Zenon
  <2> DEFINE prefix == SubSeq(written, 1, g)
             rc == IF g < Len(written) THEN "EINVAL"
                   ELSE IF off[g + 1] = Len(buffer) - 1 THEN "ENOSPC" ELSE "ok"
  <2>5. Len(prefix) = g
    BY <2>4, Zenon DEF ParseOf
  <2>6. parsed = [rc |-> rc, at |-> off[g + 1], found |-> prefix]
    BY <1>1, <2>4, ParserOfModel, Zenon DEF ParseOf
  <2>7. Len(written) \in Nat /\ g \in Nat /\ (g < Len(written) \/ g = Len(written))
    BY <2>2
  <2>8. T!Taken(written) = prefix
    <3>1. \A D : T!Min(D) = Min(D)
      BY DEF T!Min, Min
    <3>2. T!Taken(written) = IF Refused(written, longest) = {} THEN written
                             ELSE SubSeq(written, 1, Min(Refused(written, longest)) - 1)
      BY <3>1, Zenon DEF T!Taken, Refused
    <3>3. QED
      BY <2>3, <2>7, <3>2, Zenon DEF Takes
  <2> HIDE DEF parsed, prefix, longest
  <2>9. parsed.found = prefix /\ parsed.rc = rc /\ parsed.at = off[g + 1]
    BY <2>6, Zenon
  <2>10. CASE g < Len(written)
    <3>1. prefix # written
      BY <2>5, <2>7, <2>10
    <3>2. QED
      BY <2>8, <2>9, <2>10, <3>1, Zenon
  <2>11. CASE g = Len(written)
    <3>1. prefix = written
      BY <2>3, <2>11, Zenon DEF prefix, Takes
    <3>2. ~(g < Len(written))
      BY <2>7, <2>11
    <3>3. QED
      BY <1>1, <2>8, <2>9, <3>1, <3>2, Zenon
  <2>12. QED
    BY <2>7, <2>10, <2>11
<1>3. QED
  BY <1>1, <1>2, Zenon DEF T!RoundTrip

LEMMA TlvBegins == T!Init => TlvInv
<1>1. <<>> \in Seq(AnyTriples) /\ <<>> \in Seq(Int) /\ Len(<<>>) = 0
  OBVIOUS
<1>2. QED
  BY <1>1 DEF T!Init, TlvInv

LEMMA AppendKeeps ==
  ASSUME T!ConstantsOK, TlvInv, NEW type \in TlvTypes, NEW value \in TlvValues,
         T!tlvm_append(type, value)
  PROVE  TlvInv'
<1> DEFINE kept == IF idx = 0 THEN <<>> ELSE written
<1>1. /\ Len(value) + 3 <= remaining_size
      /\ buffer' = Appended(buffer, idx, type, value)
      /\ idx' = idx + (Len(value) + 3) - 1
      /\ remaining_size' = remaining_size - ((Len(value) + 3) - 1)
      /\ n_tlvs' = n_tlvs + 1 /\ lost' = (IF idx = 0 THEN n_tlvs ELSE lost)
      /\ written' = Append(kept, <<type, value>>)
  BY DEF T!tlvm_append, T!TLV_END_TYPE, T!buf_size, Appended, EndType
<1>2. /\ buffer \in Seq(Int) /\ Len(buffer) \in Nat /\ idx \in Nat
      /\ remaining_size \in Int /\ idx + remaining_size <= Len(buffer)
      /\ written \in Seq(AnyTriples)
      /\ value \in Seq(Int) /\ Len(value) \in Nat /\ type \in Nat
      /\ n_tlvs \in Nat /\ lost \in Nat
      /\ idx # 0 => n_tlvs = Len(written) + lost
  <2>1. value \in Seq(Int) /\ type \in Nat
    BY DEF T!ConstantsOK
  <2>2. Len(value) \in Nat
    BY <2>1
  <2>3. QED
    BY <2>1, <2>2 DEF TlvInv
<1>3. kept \in Seq(AnyTriples) /\ Len(kept) \in Nat
  <2>1. <<>> \in Seq(AnyTriples)
    OBVIOUS
  <2>2. kept \in Seq(AnyTriples)
    BY <1>2, <2>1, Zenon
  <2> HIDE DEF kept
  <2>3. QED
    BY <2>2
<1>a. n_tlvs' \in Nat /\ lost' \in Nat /\ n_tlvs' = Len(kept) + 1 + lost'
  <2>1. idx = 0 => Len(kept) = 0 /\ lost' = n_tlvs
    BY <1>1
  <2>2. idx # 0 => Len(kept) = Len(written) /\ lost' = lost
    BY <1>1
  <2> DEFINE k == Len(kept)
             w == Len(written)
             c == n_tlvs
             d == n_tlvs'
             x == lost
             y == lost'
  <2>3. /\ k \in Nat /\ c \in Nat /\ x \in Nat /\ d = c + 1
        /\ idx = 0 => k = 0 /\ y = c
        /\ idx # 0 => k = w /\ y = x /\ c = w + x
    BY <1>1, <1>2, <1>3, <2>1, <2>2, Zenon
  <2> HIDE DEF k, w, c, d, x, y
  <2>4. d \in Nat /\ y \in Nat /\ d = k + 1 + y
    BY <2>3
  <2>5. QED
    BY <2>4, Zenon DEF k, d, y
<1>4. PICK old : StandAt(buffer, kept, old) /\ old[Len(kept) + 1] = idx
  <2>1. CASE idx = 0
    <3> DEFINE z == [i \in 1..1 |-> 0]
    <3>1. kept = <<>> /\ Len(<<>>) = 0
      BY <2>1
    <3>2. StandAt(buffer, <<>>, z) /\ z[Len(<<>>) + 1] = 0
      <4>1. z \in [1..1 -> Nat] /\ z[1] = 0
        OBVIOUS
      <4> HIDE DEF z
      <4>2. ASSUME NEW i \in 1..0 + 1, NEW j \in 1..0 + 1 PROVE z[i] + (j - i) <= z[j]
        <5>1. i = 1 /\ j = 1 /\ z[1] + (1 - 1) <= z[1]
          BY <4>1
        <5>2. QED
          BY <5>1
      <4>3. QED
        BY <4>1, <4>2, <3>1 DEF StandAt
    <3> HIDE DEF z
    <3>3. QED
      BY <2>1, <3>1, <3>2
  <2>2. CASE idx # 0
    <3>1. kept = written /\ written # <<>>
      BY <2>2 DEF TlvInv
    <3>2. PICK off : Offsets(buffer, written, off) /\ idx = off[Len(written) + 1]
      BY <2>2, <3>1 DEF TlvInv
    <3> HIDE DEF kept
    <3>3. QED
      BY <3>1, <3>2 DEF Offsets
  <2>3. QED
    BY <2>1, <2>2
<1> HIDE DEF kept
<1>5. idx + (Len(value) + 3) <= Len(buffer) /\ Len(value) \in Nat
  <2>1. Len(value) \in Nat
    BY <1>2
  <2>2. QED
    BY <1>1, <1>2, <2>1
<1>6. CanAppend(buffer, kept, old, idx, type, value)
  BY <1>2, <1>3, <1>4, <1>5 DEF CanAppend
<1>7. /\ buffer' \in Seq(Int) /\ Len(buffer') = Len(buffer)
      /\ written' \in Seq(AnyTriples)
      /\ \E off : /\ Offsets(buffer', written', off)
                  /\ off[Len(kept) + 2] = idx + (Len(value) + 2)
  BY <1>1, <1>6, OffsetsAppended
<1>8. /\ written' # <<>> /\ Len(written') + 1 = Len(kept) + 2
      /\ n_tlvs' = Len(written') + lost'
  <2>1. written' # <<>> /\ Len(written') = Len(kept) + 1
    BY <1>1, <1>3
  <2>2. QED
    BY <1>3, <1>a, <2>1
<1>9. /\ idx' = idx + (Len(value) + 2) /\ idx' \in Nat /\ remaining_size' \in Int
      /\ idx' + remaining_size' <= Len(buffer')
  <2> DEFINE length == Len(value)
  <2>1. /\ idx \in Nat /\ remaining_size \in Int /\ length \in Nat
        /\ idx' = idx + (length + 3) - 1
        /\ remaining_size' = remaining_size - ((length + 3) - 1)
        /\ Len(buffer') = Len(buffer) /\ Len(buffer) \in Nat
        /\ idx + remaining_size <= Len(buffer)
    BY <1>1, <1>2, <1>5, <1>7
  <2> HIDE DEF length
  <2>2. idx' = idx + (length + 2) /\ idx' \in Nat /\ remaining_size' \in Int
        /\ idx' + remaining_size' <= Len(buffer')
    BY <2>1
  <2>3. QED
    BY <2>2 DEF length
<1>10. \E off : /\ Offsets(buffer', written', off)
                /\ idx' \in {0, off[Len(written') + 1]}
  BY <1>7, <1>8, <1>9
<1>11. QED
  BY <1>7, <1>8, <1>9, <1>10, <1>a, Zenon DEF TlvInv

\* The invariant asks of the other calls that the room they account for is
\* in the buffer, and that they count again only at its start.
LEMMA SameTriples ==
  ASSUME TlvInv, UNCHANGED <<buffer, written, lost>>, idx' \in {0, idx},
         remaining_size' \in Int, idx' + remaining_size' <= Len(buffer),
         n_tlvs' \in Nat, idx' = 0 \/ n_tlvs' = n_tlvs
  PROVE  TlvInv'
<1>1. idx' \in Nat /\ (idx = 0 => idx' = 0)
  BY DEF TlvInv
<1>2. \A off : idx \in {0, off[Len(written) + 1]} => idx' \in {0, off[Len(written) + 1]}
  OBVIOUS
<1>3. idx' # 0 => n_tlvs' = Len(written) + lost
  BY <1>1 DEF TlvInv
<1>4. QED
  BY <1>1, <1>2, <1>3 DEF TlvInv

LEMMA TlvStep ==
  ASSUME T!ConstantsOK, TlvInv, [T!Next]_tlvVars
  PROVE  TlvInv'
<1>0. <<>> \in Seq(AnyTriples) /\ <<>> \in Seq(Int) /\ Len(<<>>) = 0
  OBVIOUS
<1>1. ASSUME NEW contents \in TlvBuffers, T!tlvm_attach(contents) PROVE TlvInv'
  <2>1. contents \in Seq(Int) /\ Len(contents) \in Nat
    BY DEF T!ConstantsOK
  <2>2. /\ buffer' = contents /\ idx' = 0 /\ remaining_size' = Len(contents)
        /\ written' = <<>> /\ n_tlvs' = 0 /\ lost' = 0
    BY <1>1 DEF T!tlvm_attach
  <2>3. QED
    BY <1>0, <2>1, <2>2 DEF TlvInv
<1>2. ASSUME T!tlvm_detach PROVE TlvInv'
  BY <1>0, <1>2 DEF T!tlvm_detach, TlvInv
<1>3. buffer \in Seq(Int) /\ Len(buffer) \in Nat /\ T!buf_size = Len(buffer)
  BY DEF TlvInv, T!buf_size
<1>4. ASSUME T!tlvm_reset PROVE TlvInv'
  <2>1. /\ UNCHANGED <<buffer, written, lost>> /\ idx' \in {0, idx}
        /\ remaining_size' \in Int /\ idx' + remaining_size' <= Len(buffer)
        /\ n_tlvs' \in Nat /\ idx' = 0
    BY <1>3, <1>4 DEF T!tlvm_reset
  <2>2. QED
    BY <2>1, SameTriples
<1>5. ASSUME NEW mem \in 0..T!buf_size, NEW store, T!Parse(mem, store) PROVE TlvInv'
  <2> DEFINE result == T!ParseFrom[<<0, mem>>]
  <2>1. result.at \in Nat /\ Len(result.found) \in Nat
    <3>1. MAX_TLV_VALUE_BYTES \in Nat
      BY DEF T!ConstantsOK
    <3>2. 0 \in Starts(buffer, MAX_TLV_VALUE_BYTES) /\ mem \in Room(buffer)
      BY <1>3, <3>1 DEF Starts, Room
    <3>3. result \in Results
      BY <1>3, <3>1, <3>2, ResultTyped, ParserOfModel
    <3> HIDE DEF result
    <3>4. QED
      BY <3>3 DEF Results
  <2>2. /\ UNCHANGED <<buffer, written, lost>> /\ idx' = 0
        /\ remaining_size' = IF result.rc = "ok" THEN T!buf_size - result.at ELSE T!buf_size
        /\ n_tlvs' = Len(result.found)
    BY <1>5, Zenon DEF T!Parse
  <2> HIDE DEF result
  <2>3. /\ idx' \in {0, idx} /\ n_tlvs' \in Nat
        /\ remaining_size' \in Int /\ idx' + remaining_size' <= Len(buffer)
    BY <1>3, <2>1, <2>2
  <2>4. QED
    BY <2>2, <2>3, SameTriples
<1>6. T!buf_size \in 0..T!buf_size
  BY <1>3
<1>7. CASE UNCHANGED tlvVars
  <2>1. UNCHANGED <<buffer, written, idx, remaining_size, n_tlvs, lost>>
    BY <1>7 DEF tlvVars
  <2>2. /\ remaining_size' \in Int /\ idx' + remaining_size' <= Len(buffer)
        /\ idx' \in {0, idx} /\ n_tlvs' \in Nat
    BY <2>1 DEF TlvInv
  <2>3. QED
    BY <2>1, <2>2, SameTriples
<1>8. CASE T!Next
  BY <1>1, <1>2, <1>4, <1>5, <1>6, <1>8, AppendKeeps, Zenon
     DEF T!Next, T!tlvm_parse, T!tlvm_reset_to_append
<1>9. QED
  BY <1>7, <1>8

\* A parse finds the triples appended to a buffer since its start was last
\* written, in order and whole, up to the first of a length that it refuses,
\* which it reports; while triples are appended they are counted with those
\* lost to them; and the room accounted for is in the buffer.
THEOREM TriplesKept ==
  ASSUME T!ConstantsOK
  PROVE  Spec => []TlvRoundTrip
<1> DEFINE Inv == kind = "TLVs" => TlvInv
<1>1. Init => Inv
  BY TlvBegins DEF Init
<1>2. Inv /\ [Next]_vars => Inv'
  BY OneKind, TlvStep, Zenon
<1>3. Inv => TlvRoundTrip
  BY TlvAsAsked DEF TlvRoundTrip
<1>4. QED
  BY <1>1, <1>2, <1>3, PTL DEF Spec

-----------------------------------------------------------------------------
(***************************************************************************)
(* The memory monitor.  What a monitor is charged for is a sum over its    *)
(* blocks, and a call adds a block to it, takes one away, or both.         *)
(***************************************************************************)
ChargedTo(m) == {b \in DOMAIN block : block[b].mmp = m}
ChargesOf(m) == [b \in ChargedTo(m) |-> block[b].total_size]
Headers == [mmp : Monitors, total_size : Int, owner : Objects]

CountsAre(m) ==
  /\ bytes_used[m] = Total(ChargesOf(m))
  /\ allocations[m] - frees[m] = Cardinality(ChargedTo(m))

MonitorInv ==
  /\ mem_mon_p \in [Objects -> Monitors]
  /\ bytes_used \in [Monitors -> Int]
  /\ allocations \in [Monitors -> Int] /\ frees \in [Monitors -> Int]
  /\ IsFiniteSet(DOMAIN block)
  /\ \A b \in DOMAIN block : /\ block[b] \in Headers
                             /\ mem_mon_p[block[b].owner] = block[b].mmp
  /\ \A m \in Monitors : CountsAre(m)

\* The sum of the model is that of the lemmas.
LEMMA ChargesSummed ==
  ASSUME MonitorInv, NEW m
  PROVE  /\ Summable(ChargesOf(m)) /\ IsFiniteSet(ChargedTo(m))
         /\ M!MapThenSumSet(LAMBDA b : block[b].total_size, ChargedTo(m)) =
              Total(ChargesOf(m))
<1> DEFINE w == ChargesOf(m)
           held == ChargedTo(m)
           h == CHOOSE f : f = [s \in SUBSET held |->
                  IF s = {} THEN 0
                  ELSE block[CHOOSE x \in s : TRUE].total_size
                         + f[s \ {CHOOSE x \in s : TRUE}]]
<1>1. /\ DOMAIN w = held /\ IsFiniteSet(held)
      /\ \A b \in held : w[b] = block[b].total_size /\ w[b] \in Int
  <2>1. IsFiniteSet(held)
    BY FS_Subset DEF MonitorInv, ChargedTo
  <2>2. \A b \in held : block[b] \in Headers
    BY DEF MonitorInv, ChargedTo
  <2>3. QED
    BY <2>1, <2>2 DEF ChargesOf, Headers
<1>2. Summable(w)
  BY <1>1 DEF Summable
<1> HIDE DEF w
<1>3. \A f : [s \in SUBSET held |->
                IF s = {} THEN 0
                ELSE block[CHOOSE x \in s : TRUE].total_size
                       + f[s \ {CHOOSE x \in s : TRUE}]]
             = [s \in SUBSET DOMAIN w |->
                  IF s = {} THEN 0 ELSE w[One(s)] + f[s \ {One(s)}]]
  BY <1>1, OneIn DEF One
<1>4. SumsAre(h, w)
  <2>1. PICK f : SumsAre(f, w)
    BY <1>2, SumsExist
  <2>2. h = [s \in SUBSET held |->
                IF s = {} THEN 0
                ELSE block[CHOOSE x \in s : TRUE].total_size
                       + h[s \ {CHOOSE x \in s : TRUE}]]
    <3>1. f = [s \in SUBSET held |->
                IF s = {} THEN 0
                ELSE block[CHOOSE x \in s : TRUE].total_size
                       + f[s \ {CHOOSE x \in s : TRUE}]]
      BY <1>3, <2>1, Zenon DEF SumsAre
    <3>2. QED
      BY <3>1, Zenon
  <2> HIDE DEF h
  <2>3. QED
    BY <1>3, <2>2, Zenon DEF SumsAre
<1>5. M!MapThenSumSet(LAMBDA b : block[b].total_size, held) = h[held]
  BY Zenon DEF M!MapThenSumSet, M!MapThenFoldSet
<1> HIDE DEF h
<1>6. h[held] = Total(w)
  <2>1. SumsAre(CHOOSE f : SumsAre(f, w), w)
    BY <1>2, TotalInt
  <2>2. h[DOMAIN w] = (CHOOSE f : SumsAre(f, w))[DOMAIN w]
    BY <1>2, <1>4, <2>1, SumsAgree
  <2>3. QED
    BY <1>1, <2>2 DEF Total
<1>7. QED
  BY <1>1, <1>2, <1>5, <1>6 DEF w

LEMMA MonitorAsAsked == MonitorInv => M!Exact
<1>1. SUFFICES ASSUME MonitorInv PROVE M!Exact
  OBVIOUS
<1>2. \A m \in Monitors :
        M!MapThenSumSet(LAMBDA b : block[b].total_size, ChargedTo(m)) = Total(ChargesOf(m))
  BY <1>1, ChargesSummed, Zenon
<1>3. ASSUME NEW m \in Monitors
      PROVE  /\ bytes_used[m] = M!MapThenSumSet(LAMBDA b : block[b].total_size,
                                   {b \in DOMAIN block : block[b].mmp = m})
             /\ allocations[m] - frees[m] =
                  Cardinality({b \in DOMAIN block : block[b].mmp = m})
             /\ \A b \in {b \in DOMAIN block : block[b].mmp = m} :
                  mem_mon_p[block[b].owner] = m
  BY <1>1, <1>2, Zenon DEF MonitorInv, CountsAre, ChargedTo
<1>4. \A D : M!Cardinality(D) = Cardinality(D)
  BY DEF M!Cardinality, Cardinality
<1>5. QED
  BY <1>3, <1>4, Zenon DEF M!Exact

LEMMA MonitorBegins == M!Init => MonitorInv
<1>1. SUFFICES ASSUME M!Init PROVE MonitorInv
  OBVIOUS
<1>2. /\ mem_mon_p \in [Objects -> Monitors] /\ DOMAIN block = {}
      /\ bytes_used = [m \in Monitors |-> 0]
      /\ allocations = bytes_used /\ frees = bytes_used
  BY <1>1 DEF M!Init
<1>3. IsFiniteSet(DOMAIN block)
  BY <1>2, FS_EmptySet
<1>4. ASSUME NEW m \in Monitors
      PROVE  /\ bytes_used[m] = Total(ChargesOf(m))
             /\ allocations[m] - frees[m] = Cardinality(ChargedTo(m))
  <2>1. ChargedTo(m) = {} /\ DOMAIN ChargesOf(m) = {}
    BY <1>2 DEF ChargedTo, ChargesOf
  <2>2. Total(ChargesOf(m)) = 0 /\ Cardinality(ChargedTo(m)) = 0
    BY <2>1, FS_EmptySet, TotalInt DEF Summable
  <2>3. QED
    BY <1>2, <2>2
<1>5. QED
  BY <1>2, <1>3, <1>4 DEF MonitorInv, CountsAre

\* The counts stay right for a monitor whose blocks and counters stay.
LEMMA SameCharges ==
  ASSUME MonitorInv, NEW m \in Monitors, ChargedTo(m)' = ChargedTo(m),
         \A b \in ChargedTo(m) : block'[b].total_size = block[b].total_size,
         bytes_used'[m] = bytes_used[m], allocations'[m] = allocations[m],
         frees'[m] = frees[m]
  PROVE  CountsAre(m)'
<1>1. ChargesOf(m)' = ChargesOf(m)
  BY DEF ChargesOf
<1>2. CountsAre(m)
  BY DEF MonitorInv
<1>3. QED
  BY <1>1, <1>2 DEF CountsAre

\* An allocation charges the monitor of the object with one block more.
LEMMA AllocateKeeps ==
  ASSUME M!ConstantsOK, MonitorInv, NEW o \in Objects, NEW b \in Block,
         NEW size \in BlockSizes, M!mem_monitor_allocate(o, b, size)
  PROVE  MonitorInv'
<1> DEFINE mmp == mem_mon_p[o]
           total_size == size + Header
           mhp == [mmp |-> mmp, total_size |-> total_size, owner |-> o]
<1>0. mmp \in Monitors /\ total_size \in Int
  BY DEF M!ConstantsOK, MonitorInv
<1>1. mmp \in Monitors /\ total_size \in Int /\ mhp \in Headers
  <2> HIDE DEF mmp, total_size
  <2>1. QED
    BY <1>0 DEF Headers
<1>2. block' = [a \in DOMAIN block \cup {b} |-> IF a = b THEN mhp ELSE block[a]]
  BY DEF M!mem_monitor_allocate
<1>3. /\ b \notin DOMAIN block
      /\ bytes_used' = [bytes_used EXCEPT ![mmp] = @ + total_size]
      /\ allocations' = [allocations EXCEPT ![mmp] = @ + 1]
      /\ UNCHANGED <<mem_mon_p, frees>>
  BY DEF M!mem_monitor_allocate
<1>4. mhp.mmp = mmp /\ mhp.total_size = total_size /\ mhp.owner = o
  OBVIOUS
<1> HIDE DEF mhp, total_size, mmp
<1>5. /\ DOMAIN block' = DOMAIN block \cup {b} /\ block'[b] = mhp
      /\ \A a \in DOMAIN block : block'[a] = block[a]
  BY <1>2, <1>3
<1>6. IsFiniteSet(DOMAIN block')
  BY <1>5, FS_AddElement DEF MonitorInv
<1>7. \A a \in DOMAIN block' : /\ block'[a] \in Headers
                               /\ mem_mon_p'[block'[a].owner] = block'[a].mmp
  BY <1>1, <1>3, <1>4, <1>5 DEF MonitorInv, mmp
<1>8. ASSUME NEW m \in Monitors
      PROVE  CountsAre(m)'
  <2> DEFINE w == ChargesOf(m)
             v == ChargesOf(m)'
  <2>1. Summable(w) /\ IsFiniteSet(ChargedTo(m)) /\ DOMAIN w = ChargedTo(m)
    BY ChargesSummed, Zenon DEF ChargesOf
  <2>2. Total(w) \in Int /\ Cardinality(ChargedTo(m)) \in Nat
    BY <2>1, TotalInt, FS_CardinalityType
  <2>3. /\ bytes_used[m] = Total(w) /\ bytes_used[m] \in Int
        /\ allocations[m] - frees[m] = Cardinality(ChargedTo(m))
        /\ allocations[m] \in Int /\ frees[m] \in Int
    BY DEF MonitorInv, CountsAre
  <2>4. CASE m = mmp
    <3>1. ChargedTo(m)' = ChargedTo(m) \cup {b} /\ b \notin ChargedTo(m)
      BY <1>3, <1>4, <1>5, <2>4 DEF ChargedTo
    <3>2. /\ DOMAIN v = DOMAIN w \cup {b} /\ b \notin DOMAIN w /\ v[b] = total_size
          /\ \A a \in DOMAIN w : v[a] = w[a]
      BY <1>4, <1>5, <3>1 DEF ChargesOf, ChargedTo
    <3> HIDE DEF w, v
    <3>3. Total(v) = total_size + Total(w)
      BY <1>1, <2>1, <3>2, TotalWith
    <3>4. Cardinality(ChargedTo(m)') = Cardinality(ChargedTo(m)) + 1
      BY <2>1, <3>1, FS_AddElement, Zenon
    <3>5. /\ bytes_used'[m] = bytes_used[m] + total_size
          /\ allocations'[m] = allocations[m] + 1 /\ frees'[m] = frees[m]
      BY <1>3, <2>4 DEF MonitorInv
    <3>6. bytes_used'[m] = Total(v)
      BY <1>1, <2>2, <2>3, <3>3, <3>5
    <3>7. allocations'[m] - frees'[m] = Cardinality(ChargedTo(m)')
      BY <2>2, <2>3, <3>4, <3>5
    <3>8. QED
      BY <3>6, <3>7 DEF v, CountsAre
  <2>5. CASE m # mmp
    <3>1. ChargedTo(m)' = ChargedTo(m)
      BY <1>3, <1>4, <1>5, <2>5 DEF ChargedTo
    <3>2. \A a \in ChargedTo(m) : block'[a].total_size = block[a].total_size
      BY <1>5 DEF ChargedTo
    <3>4. bytes_used'[m] = bytes_used[m] /\ allocations'[m] = allocations[m] /\ frees'[m] = frees[m]
      BY <1>3, <2>5 DEF MonitorInv
    <3>5. QED
      BY <3>1, <3>2, <3>4, SameCharges
  <2>6. QED
    BY <2>4, <2>5
<1>9. /\ mem_mon_p' \in [Objects -> Monitors]
      /\ bytes_used' \in [Monitors -> Int]
      /\ allocations' \in [Monitors -> Int] /\ frees' \in [Monitors -> Int]
  BY <1>1, <1>3 DEF MonitorInv
<1>10. QED
  BY <1>6, <1>7, <1>8, <1>9 DEF MonitorInv

\* The release of a block takes its size from the monitor it names.
LEMMA FreeKeeps ==
  ASSUME MonitorInv, NEW b \in Block, M!mem_monitor_free(b)
  PROVE  MonitorInv'
<1> DEFINE mhp == block[b]
<1>1. b \in DOMAIN block /\ mhp \in Headers
  BY DEF M!mem_monitor_free, MonitorInv
<1>2. mhp.mmp \in Monitors /\ mhp.total_size \in Int
  BY <1>1 DEF Headers
<1>3. /\ bytes_used' = [bytes_used EXCEPT ![mhp.mmp] = @ - mhp.total_size]
      /\ frees' = [frees EXCEPT ![mhp.mmp] = @ + 1]
      /\ block' = [a \in DOMAIN block \ {b} |-> block[a]]
      /\ UNCHANGED <<mem_mon_p, allocations>>
  BY DEF M!mem_monitor_free
<1>4. /\ DOMAIN block' = DOMAIN block \ {b}
      /\ \A a \in DOMAIN block' : block'[a] = block[a]
  BY <1>3
<1>5. IsFiniteSet(DOMAIN block')
  BY <1>4, FS_RemoveElement DEF MonitorInv
<1>6. \A a \in DOMAIN block' : /\ block'[a] \in Headers
                               /\ mem_mon_p'[block'[a].owner] = block'[a].mmp
  BY <1>3, <1>4 DEF MonitorInv
<1>7. ASSUME NEW m \in Monitors
      PROVE  CountsAre(m)'
  <2> DEFINE w == ChargesOf(m)
             v == ChargesOf(m)'
  <2>1. Summable(w) /\ IsFiniteSet(ChargedTo(m)) /\ DOMAIN w = ChargedTo(m)
    BY ChargesSummed, Zenon DEF ChargesOf
  <2>2. /\ bytes_used[m] = Total(w) /\ bytes_used[m] \in Int
        /\ allocations[m] - frees[m] = Cardinality(ChargedTo(m))
        /\ allocations[m] \in Int /\ frees[m] \in Int
    BY DEF MonitorInv, CountsAre
  <2>3. CASE m = mhp.mmp
    <3>1. ChargedTo(m)' = ChargedTo(m) \ {b} /\ b \in ChargedTo(m)
      BY <1>1, <1>4, <2>3 DEF ChargedTo
    <3>2. /\ DOMAIN v = DOMAIN w \ {b} /\ b \in DOMAIN w /\ w[b] = mhp.total_size
          /\ \A a \in DOMAIN v : v[a] = w[a]
      BY <1>4, <3>1 DEF ChargesOf, ChargedTo
    <3> HIDE DEF w, v, mhp
    <3>3. Summable(v) /\ Total(w) = mhp.total_size + Total(v)
      BY <2>1, <3>2, TotalWithout
    <3>4. Total(v) \in Int
      BY <3>3, TotalInt
    <3>5. /\ Cardinality(ChargedTo(m)') = Cardinality(ChargedTo(m)) - 1
          /\ Cardinality(ChargedTo(m)) \in Nat
      BY <2>1, <3>1, FS_RemoveElement, FS_CardinalityType
    <3>6. /\ bytes_used'[m] = bytes_used[m] - mhp.total_size
          /\ allocations'[m] = allocations[m] /\ frees'[m] = frees[m] + 1
      BY <1>3, <2>3 DEF MonitorInv
    <3>7. bytes_used'[m] = Total(v)
      BY <1>2, <2>2, <3>3, <3>4, <3>6
    <3>8. allocations'[m] - frees'[m] = Cardinality(ChargedTo(m)')
      BY <2>2, <3>5, <3>6
    <3>9. QED
      BY <3>7, <3>8 DEF v, CountsAre
  <2>4. CASE m # mhp.mmp
    <3>1. ChargedTo(m)' = ChargedTo(m)
      BY <1>4, <2>4 DEF ChargedTo
    <3>2. \A a \in ChargedTo(m) : block'[a].total_size = block[a].total_size
      BY <1>4, <3>1 DEF ChargedTo
    <3>3. /\ bytes_used'[m] = bytes_used[m] /\ frees'[m] = frees[m]
          /\ allocations'[m] = allocations[m]
      BY <1>3, <2>4 DEF MonitorInv
    <3>4. QED
      BY <3>1, <3>2, <3>3, SameCharges
  <2>5. QED
    BY <2>3, <2>4
<1>8. /\ mem_mon_p' \in [Objects -> Monitors]
      /\ bytes_used' \in [Monitors -> Int]
      /\ allocations' \in [Monitors -> Int] /\ frees' \in [Monitors -> Int]
  BY <1>2, <1>3 DEF MonitorInv
<1>9. QED
  BY <1>5, <1>6, <1>7, <1>8 DEF MonitorInv

\* A reallocation moves a block or not, and changes its size in either case.
LEMMA ReallocateKeeps ==
  ASSUME M!ConstantsOK, MonitorInv, NEW b \in Block, NEW new \in Block,
         NEW size \in BlockSizes, M!mem_monitor_reallocate(b, new, size)
  PROVE  MonitorInv'
<1> DEFINE mhp == block[b]
           new_total_size == size + Header
           moved == [mhp EXCEPT !.total_size = new_total_size]
<1>0. new_total_size \in Int
  BY DEF M!ConstantsOK
<1>1. b \in DOMAIN block /\ mhp \in Headers /\ new \notin DOMAIN block \ {b}
  BY DEF M!mem_monitor_reallocate, MonitorInv
<1>2. mhp.mmp \in Monitors /\ mhp.total_size \in Int
  BY <1>1 DEF Headers
<1>3. /\ bytes_used' = [bytes_used EXCEPT ![mhp.mmp] =
                         @ - mhp.total_size + new_total_size]
      /\ block' = [a \in (DOMAIN block \ {b}) \cup {new} |->
                    IF a = new THEN moved ELSE block[a]]
      /\ UNCHANGED <<mem_mon_p, allocations, frees>>
  BY DEF M!mem_monitor_reallocate
<1>4. /\ moved \in Headers /\ moved.mmp = mhp.mmp /\ moved.owner = mhp.owner
      /\ moved.total_size = new_total_size
  <2> HIDE DEF mhp, new_total_size
  <2>1. QED
    BY <1>0, <1>1 DEF Headers
<1> HIDE DEF moved, new_total_size
<1>5. /\ DOMAIN block' = (DOMAIN block \ {b}) \cup {new} /\ block'[new] = moved
      /\ \A a \in DOMAIN block \ {b} : block'[a] = block[a]
  BY <1>1, <1>3
<1>6. IsFiniteSet(DOMAIN block')
  <2>1. IsFiniteSet(DOMAIN block \ {b})
    BY FS_RemoveElement DEF MonitorInv
  <2>2. QED
    BY <1>5, <2>1, FS_AddElement
<1>7. \A a \in DOMAIN block' : /\ block'[a] \in Headers
                               /\ mem_mon_p'[block'[a].owner] = block'[a].mmp
  BY <1>1, <1>3, <1>4, <1>5 DEF MonitorInv
<1>8. ASSUME NEW m \in Monitors
      PROVE  CountsAre(m)'
  <2> DEFINE w == ChargesOf(m)
             v == ChargesOf(m)'
             u == [a \in ChargedTo(m) \ {b} |-> block[a].total_size]
  <2>1. Summable(w) /\ IsFiniteSet(ChargedTo(m)) /\ DOMAIN w = ChargedTo(m)
    BY ChargesSummed, Zenon DEF ChargesOf
  <2>2. /\ bytes_used[m] = Total(w) /\ bytes_used[m] \in Int
        /\ allocations[m] - frees[m] = Cardinality(ChargedTo(m))
        /\ allocations[m] \in Int /\ frees[m] \in Int
    BY DEF MonitorInv, CountsAre
  <2>3. CASE m = mhp.mmp
    <3>1. /\ ChargedTo(m)' = (ChargedTo(m) \ {b}) \cup {new}
          /\ b \in ChargedTo(m) /\ new \notin ChargedTo(m) \ {b}
      BY <1>1, <1>4, <1>5, <2>3 DEF ChargedTo
    <3>2. /\ DOMAIN u = DOMAIN w \ {b} /\ b \in DOMAIN w /\ w[b] = mhp.total_size
          /\ \A a \in DOMAIN u : u[a] = w[a]
      BY <3>1 DEF ChargesOf
    <3>3. /\ DOMAIN v = DOMAIN u \cup {new} /\ new \notin DOMAIN u
          /\ v[new] = new_total_size
          /\ \A a \in DOMAIN u : v[a] = u[a]
      BY <1>4, <1>5, <3>1 DEF ChargesOf, ChargedTo
    <3> HIDE DEF w, v, u, mhp
    <3>4. Summable(u) /\ Total(w) = mhp.total_size + Total(u)
      BY <2>1, <3>2, TotalWithout
    <3>5. Total(v) = new_total_size + Total(u)
      BY <1>0, <3>3, <3>4, TotalWith DEF new_total_size
    <3>6. Total(u) \in Int
      BY <3>4, TotalInt
    <3>7. Cardinality(ChargedTo(m)') = Cardinality(ChargedTo(m))
      <4>1. /\ IsFiniteSet(ChargedTo(m) \ {b})
            /\ Cardinality(ChargedTo(m) \ {b}) = Cardinality(ChargedTo(m)) - 1
            /\ Cardinality(ChargedTo(m)) \in Nat
        BY <2>1, <3>1, FS_RemoveElement, FS_CardinalityType
      <4>2. Cardinality(ChargedTo(m)') = Cardinality(ChargedTo(m) \ {b}) + 1
        BY <3>1, <4>1, FS_AddElement, Zenon
      <4>3. QED
        BY <4>1, <4>2
    <3>8. /\ bytes_used'[m] = bytes_used[m] - mhp.total_size + new_total_size
          /\ allocations'[m] = allocations[m] /\ frees'[m] = frees[m]
      BY <1>3, <2>3 DEF MonitorInv
    <3>9. bytes_used'[m] = Total(v)
      BY <1>0, <1>2, <2>2, <3>4, <3>5, <3>6, <3>8 DEF new_total_size
    <3>10. QED
      BY <2>2, <3>7, <3>8, <3>9 DEF v, CountsAre
  <2>4. CASE m # mhp.mmp
    <3>1. ChargedTo(m)' = ChargedTo(m)
      BY <1>1, <1>4, <1>5, <2>4 DEF ChargedTo
    <3>2. \A a \in ChargedTo(m) : block'[a].total_size = block[a].total_size
      BY <1>5, <2>4 DEF ChargedTo
    <3>3. /\ bytes_used'[m] = bytes_used[m] /\ frees'[m] = frees[m]
          /\ allocations'[m] = allocations[m]
      BY <1>3, <2>4 DEF MonitorInv
    <3>4. QED
      BY <3>1, <3>2, <3>3, SameCharges
  <2>5. QED
    BY <2>3, <2>4
<1>9. /\ mem_mon_p' \in [Objects -> Monitors]
      /\ bytes_used' \in [Monitors -> Int]
      /\ allocations' \in [Monitors -> Int] /\ frees' \in [Monitors -> Int]
  <2>1. mhp.mmp \in Monitors /\ mhp.total_size \in Int /\ new_total_size \in Int
    BY <1>0, <1>2 DEF new_total_size
  <2> HIDE DEF mhp
  <2>2. QED
    BY <1>3, <2>1 DEF MonitorInv
<1>10. QED
  BY <1>6, <1>7, <1>8, <1>9 DEF MonitorInv

LEMMA MonitorStep ==
  ASSUME M!ConstantsOK, MonitorInv, [M!Next]_monitorVars
  PROVE  MonitorInv'
<1>1. CASE M!Next
  BY <1>1, AllocateKeeps, FreeKeeps, ReallocateKeeps DEF M!Next
<1>2. CASE UNCHANGED monitorVars
  <2>1. \A m : ChargedTo(m)' = ChargedTo(m) /\ ChargesOf(m)' = ChargesOf(m)
    BY <1>2 DEF monitorVars, ChargedTo, ChargesOf
  <2>2. QED
    BY <1>2, <2>1 DEF monitorVars, MonitorInv, CountsAre
<1>3. QED
  BY <1>1, <1>2

\* A monitor counts the bytes and the number of the blocks charged to it,
\* whichever objects share it, and each object's blocks are charged to its own.
THEOREM MemoryKept ==
  ASSUME M!ConstantsOK
  PROVE  Spec => []MemoryCounted
<1> DEFINE Inv == kind = "memory monitor" => MonitorInv
<1>1. Init => Inv
  BY MonitorBegins, Zenon DEF Init
<1>2. Inv /\ [Next]_vars => Inv'
  <2>1. SUFFICES ASSUME Inv, [Next]_vars, (kind = "memory monitor")'
                 PROVE  MonitorInv'
    BY Zenon
  <2>2. UNCHANGED kind /\ (kind = "memory monitor" => [M!Next]_monitorVars)
    <3>1. [Next]_vars
      BY <2>1, Zenon
    <3>2. QED
      BY <3>1, OneKind, Zenon
  <2>3. MonitorInv /\ [M!Next]_monitorVars
    BY <2>1, <2>2, Zenon
  <2>4. QED
    BY <2>3, MonitorStep, Zenon
<1>3. Inv => MemoryCounted
  BY MonitorAsAsked, Zenon DEF MemoryCounted
<1>4. QED
  BY <1>1, <1>2, <1>3, PTL DEF Spec

-----------------------------------------------------------------------------
(***************************************************************************)
(* The radix tree.  Its nodes are a trie; a search finds a datum where the *)
(* node of its key has one; and a node without children has a datum, for   *)
(* which it was made or for which it stayed.                               *)
(***************************************************************************)
RadixInv ==
  /\ DOMAIN n_children = R!Nodes
  /\ Trie(R!Nodes, n_children)
  /\ node_count = Cardinality(R!Nodes) - 1
  /\ map \in [RadixKeys -> {map[k] : k \in RadixKeys}]
  /\ \A k \in RadixKeys : R!Search(k) = map[k]
  /\ \A x \in R!Nodes :
       x # <<>> /\ n_children[x] = 0 /\ ~starved => user_data[x] # Null

LEMMA TriesOfModel ==
  /\ \A s : R!Prefixes(s) = Prefixes(s)
  /\ \A s : R!Parent(s) = Front(s)
  /\ \A s : R!Cardinality(s) = Cardinality(s)
BY DEF R!Prefixes, Prefixes, R!Parent, R!Front, Front, R!Cardinality, Cardinality

LEMMA RadixAsAsked == RadixInv => R!Exact
<1>1. SUFFICES ASSUME RadixInv PROVE R!Exact
  OBVIOUS
<1>2. ASSUME NEW x \in R!Nodes
      PROVE  /\ n_children[x] =
                  R!Cardinality({y \in R!Nodes : y # <<>> /\ R!Parent(y) = x})
             /\ x # <<>> => R!Parent(x) \in R!Nodes
             /\ x # <<>> /\ n_children[x] = 0 /\ ~starved => user_data[x] # Null
  <2>1. /\ x # <<>> => Front(x) \in R!Nodes
        /\ n_children[x] = Cardinality(ChildrenIn(R!Nodes, x))
    BY <1>1 DEF RadixInv, Trie
  <2>2. ChildrenIn(R!Nodes, x) = {y \in R!Nodes : y # <<>> /\ R!Parent(y) = x}
    BY TriesOfModel DEF ChildrenIn
  <2>3. QED
    BY <1>1, <2>1, <2>2, TriesOfModel DEF RadixInv
<1>3. \A k \in RadixKeys : R!Search(k) = map[k]
  BY <1>1 DEF RadixInv
<1>4. node_count = R!Cardinality(R!Nodes) - 1
  BY <1>1, TriesOfModel DEF RadixInv
<1>5. QED
  BY <1>2, <1>3, <1>4 DEF R!Exact

LEMMA RadixBegins == R!Init => RadixInv
<1>1. SUFFICES ASSUME R!Init PROVE RadixInv
  OBVIOUS
<1>2. /\ R!Nodes = {<<>>} /\ DOMAIN n_children = {<<>>} /\ node_count = 0
      /\ user_data[<<>>] = Null /\ n_children[<<>>] = 0
      /\ map = [k \in RadixKeys |-> Null]
  BY <1>1 DEF R!Init, R!Nodes
<1>3. Trie({<<>>}, n_children)
  <2>1. IsFiniteSet({<<>>})
    BY FS_Singleton, Zenon
  <2>2. Cardinality({}) = 0
    BY FS_EmptySet
  <2>3. ChildrenIn({<<>>}, <<>>) = {}
    BY DEF ChildrenIn
  <2>4. QED
    BY <1>2, <2>1, <2>2, <2>3, SMTT(30) DEF Trie
<1>4. Cardinality({<<>>}) = 1
  BY FS_Singleton, Zenon
<1>5. \A k \in RadixKeys : R!Search(k) = map[k]
  BY <1>2 DEF R!Search
<1>6. QED
  BY <1>2, <1>3, <1>4, <1>5 DEF RadixInv

\* Where the tree has grown.
LEMMA TreeGrows ==
  ASSUME RadixInv, NEW D, NEW x \in Seq(D), NEW d, R!Grow(x, d)
  PROVE  /\ R!Nodes' = R!Nodes \cup Added(R!Nodes, x)
         /\ Added(R!Nodes, x) \cap R!Nodes = {} /\ x \in R!Nodes'
         /\ DOMAIN n_children' = R!Nodes' /\ Trie(R!Nodes', n_children')
         /\ node_count' = Cardinality(R!Nodes') - 1
         /\ \A y \in R!Nodes' : user_data'[y] =
              IF y \in R!Nodes /\ user_data[y] # Null THEN user_data[y]
              ELSE IF y = x THEN d ELSE Null
         /\ \A y \in R!Nodes : n_children'[y] = 0 => n_children[y] = 0
         /\ \A y \in Added(R!Nodes, x) : y # x => n_children'[y] # 0
<1> DEFINE added == Added(R!Nodes, x)
<1>1. /\ node_count' = node_count + Cardinality(added)
      /\ user_data' = [y \in R!Nodes \cup added |->
           IF y \in R!Nodes /\ user_data[y] # Null THEN user_data[y]
           ELSE IF y = x THEN d ELSE Null]
      /\ n_children' = [y \in R!Nodes \cup added |->
           (IF y \in R!Nodes THEN n_children[y] ELSE 0)
             + Cardinality({z \in added : Front(z) = y})]
  BY TriesOfModel, Zenon DEF R!Grow, Added
<1>2. n_children' = CountsGrown(R!Nodes, n_children, x)
  BY <1>1 DEF CountsGrown
<1>3. R!Nodes' = R!Nodes \cup added /\ DOMAIN n_children' = R!Nodes \cup added
  BY <1>1 DEF R!Nodes
<1>4. /\ Trie(R!Nodes \cup added, n_children')
      /\ Cardinality(R!Nodes \cup added) = Cardinality(R!Nodes) + Cardinality(added)
      /\ \A y \in R!Nodes : n_children'[y] = 0 => n_children[y] = 0
      /\ \A y \in added : y # x => n_children'[y] # 0
  BY <1>2, TrieGrows DEF RadixInv
<1>5. node_count' = Cardinality(R!Nodes \cup added) - 1
  <2>1. node_count = Cardinality(R!Nodes) - 1
    BY DEF RadixInv
  <2>2. Cardinality(R!Nodes) \in Nat /\ Cardinality(added) \in Nat
    <3>1. IsFiniteSet(R!Nodes) /\ IsFiniteSet(added)
      BY PrefixFacts, FS_Subset DEF RadixInv, Trie, Added
    <3>2. QED
      BY <3>1, FS_CardinalityType
  <2> HIDE DEF added
  <2>3. QED
    BY <1>1, <1>4, <2>1, <2>2
<1>6. added \cap R!Nodes = {} /\ x \in R!Nodes \cup added
  BY PrefixFacts DEF Added
<1>7. QED
  BY <1>1, <1>3, <1>4, <1>5, <1>6, Zenon

LEMMA InsertKeeps ==
  ASSUME R!ConstantsOK, RadixInv, NEW key \in RadixKeys, NEW d \in Data,
         R!radix_tree_insert(key, d)
  PROVE  RadixInv'
<1>1. /\ R!Grow(key, d) /\ UNCHANGED starved
      /\ map' = [map EXCEPT ![key] = IF map[key] = Null THEN d ELSE map[key]]
  BY DEF R!radix_tree_insert
<1>2. key \in Seq({0, 1}) /\ d # Null
  BY DEF R!ConstantsOK
<1>3. /\ R!Nodes' = R!Nodes \cup Added(R!Nodes, key)
      /\ Added(R!Nodes, key) \cap R!Nodes = {} /\ key \in R!Nodes'
      /\ DOMAIN n_children' = R!Nodes' /\ Trie(R!Nodes', n_children')
      /\ node_count' = Cardinality(R!Nodes') - 1
      /\ \A y \in R!Nodes' : user_data'[y] =
           IF y \in R!Nodes /\ user_data[y] # Null THEN user_data[y]
           ELSE IF y = key THEN d ELSE Null
      /\ \A y \in R!Nodes : n_children'[y] = 0 => n_children[y] = 0
      /\ \A y \in Added(R!Nodes, key) : y # key => n_children'[y] # 0
  BY <1>1, <1>2, TreeGrows
<1>4. map' \in [RadixKeys -> {map'[k] : k \in RadixKeys}]
  BY <1>1 DEF RadixInv
<1>5. ASSUME NEW k \in RadixKeys PROVE R!Search(k)' = map'[k]
  <2>1. map[k] = IF k \in R!Nodes THEN user_data[k] ELSE Null
    BY DEF RadixInv, R!Search
  <2>2. R!Search(k)' = IF k \in R!Nodes' THEN user_data'[k] ELSE Null
    BY DEF R!Search
  <2>3. map'[k] = IF k = key /\ map[key] = Null THEN d ELSE map[k]
    BY <1>1 DEF RadixInv
  <2>4. QED
    BY <1>3, <2>1, <2>2, <2>3
<1>6. ASSUME NEW x \in R!Nodes', x # <<>>, n_children'[x] = 0, ~starved'
      PROVE  user_data'[x] # Null
  <2>1. CASE x \in R!Nodes
    <3>1. user_data[x] # Null
      BY <1>1, <1>3, <1>6, <2>1 DEF RadixInv
    <3>2. QED
      BY <1>3, <2>1, <3>1
  <2>2. CASE x \notin R!Nodes
    <3>1. x = key
      BY <1>3, <1>6, <2>2
    <3>2. QED
      BY <1>2, <1>3, <2>2, <3>1
  <2>3. QED
    BY <2>1, <2>2
<1>7. QED
  BY <1>3, <1>4, <1>5, <1>6 DEF RadixInv

LEMMA InsertStarves ==
  ASSUME R!ConstantsOK, RadixInv, NEW key \in RadixKeys, NEW x,
         R!InsertNoMemory(key, x)
  PROVE  RadixInv'
<1>1. R!Grow(x, Null) /\ starved' = TRUE /\ map' = map /\ x \in Prefixes(key)
  BY TriesOfModel DEF R!InsertNoMemory
<1>2. x \in Seq({0, 1})
  <2>1. key \in Seq({0, 1})
    BY DEF R!ConstantsOK
  <2>2. QED
    BY <1>1, <2>1, PrefixFacts
<1>3. /\ R!Nodes' = R!Nodes \cup Added(R!Nodes, x)
      /\ DOMAIN n_children' = R!Nodes' /\ Trie(R!Nodes', n_children')
      /\ node_count' = Cardinality(R!Nodes') - 1
      /\ \A y \in R!Nodes' : user_data'[y] =
           IF y \in R!Nodes /\ user_data[y] # Null THEN user_data[y]
           ELSE IF y = x THEN Null ELSE Null
  BY <1>1, <1>2, TreeGrows
<1>4. ASSUME NEW k \in RadixKeys PROVE R!Search(k)' = map'[k]
  <2>1. map[k] = IF k \in R!Nodes THEN user_data[k] ELSE Null
    BY DEF RadixInv, R!Search
  <2>2. R!Search(k)' = IF k \in R!Nodes' THEN user_data'[k] ELSE Null
    BY DEF R!Search
  <2>3. QED
    BY <1>1, <1>3, <2>1, <2>2
<1>5. QED
  BY <1>1, <1>3, <1>4 DEF RadixInv

LEMMA RemoveKeeps ==
  ASSUME R!ConstantsOK, RadixInv, NEW key \in RadixKeys,
         R!radix_tree_remove(key)
  PROVE  RadixInv'
<1> DEFINE freed == Useless(n_children, user_data, Null, key)
           nodes == R!Nodes \ freed
<1>1. R!Unused(key) = freed
  BY TriesOfModel DEF R!Unused, Useless
<1>2. /\ node_count' = node_count - Cardinality(freed)
      /\ user_data' = [y \in nodes |-> IF y = key THEN Null ELSE user_data[y]]
      /\ n_children' = CountsPruned(R!Nodes, n_children, freed)
      /\ map' = [map EXCEPT ![key] = Null] /\ UNCHANGED starved
      /\ R!Search(key) # Null
  BY <1>1, TriesOfModel DEF R!radix_tree_remove, CountsPruned
<1>3. key \in Seq({0, 1}) /\ key \in R!Nodes
  BY <1>2 DEF R!ConstantsOK, R!Search
<1>4. /\ Trie(nodes, n_children')
      /\ freed \subseteq R!Nodes /\ Cardinality(freed) \in Nat
      /\ Cardinality(R!Nodes) \in Nat
      /\ Cardinality(nodes) = Cardinality(R!Nodes) - Cardinality(freed)
      /\ \A x \in freed : x # key => user_data[x] = Null
      /\ \A x \in nodes :
           /\ x # <<>> /\ n_children'[x] = 0
           /\ (n_children[x] = 0 => user_data[x] # Null)
           => x # key /\ user_data[x] # Null
  <2>1. Pruned(R!Nodes, n_children, user_data, Null, key)
    BY <1>3, TriePruned DEF RadixInv
  <2>2. QED
    BY <1>2, <2>1 DEF Pruned
<1> HIDE DEF freed
<1>5. R!Nodes' = nodes /\ DOMAIN n_children' = nodes
  BY <1>2 DEF R!Nodes, CountsPruned
<1>6. node_count' = Cardinality(R!Nodes') - 1
  <2>1. node_count = Cardinality(R!Nodes) - 1
    BY DEF RadixInv
  <2>2. QED
    BY <1>2, <1>4, <1>5, <2>1
<1>7. map' \in [RadixKeys -> {map'[k] : k \in RadixKeys}]
  BY <1>2 DEF RadixInv
<1>8. ASSUME NEW k \in RadixKeys PROVE R!Search(k)' = map'[k]
  <2>1. map[k] = IF k \in R!Nodes THEN user_data[k] ELSE Null
    BY DEF RadixInv, R!Search
  <2>2. R!Search(k)' = IF k \in R!Nodes' THEN user_data'[k] ELSE Null
    BY DEF R!Search
  <2>3. map'[k] = IF k = key THEN Null ELSE map[k]
    BY <1>2 DEF RadixInv
  <2>4. QED
    BY <1>2, <1>4, <1>5, <2>1, <2>2, <2>3
<1>9. ASSUME NEW x \in R!Nodes', x # <<>>, n_children'[x] = 0, ~starved'
      PROVE  user_data'[x] # Null
  <2>1. x \in nodes /\ (n_children[x] = 0 => user_data[x] # Null)
    BY <1>2, <1>5, <1>9 DEF RadixInv
  <2>2. x # key /\ user_data[x] # Null
    BY <1>4, <1>9, <2>1
  <2>3. QED
    BY <1>2, <2>1, <2>2
<1>10. QED
  BY <1>4, <1>5, <1>6, <1>7, <1>8, <1>9 DEF RadixInv

LEMMA RadixStep ==
  ASSUME R!ConstantsOK, RadixInv, [R!Next]_radixVars
  PROVE  RadixInv'
<1>1. ASSUME NEW k \in RadixKeys, R!radix_tree_remove(k) PROVE RadixInv'
  BY <1>1, RemoveKeeps
<1>2. ASSUME NEW k \in RadixKeys, NEW d \in Data, R!radix_tree_insert(k, d)
      PROVE  RadixInv'
  BY <1>2, InsertKeeps
<1>3. ASSUME NEW k \in RadixKeys, NEW x, R!InsertNoMemory(k, x)
      PROVE  RadixInv'
  BY <1>3, InsertStarves
<1>4. ASSUME UNCHANGED <<R!tree, map, starved>> PROVE RadixInv'
  BY <1>4 DEF RadixInv, R!tree, R!Nodes, R!Search
<1>5. ASSUME NEW t \in Traversers,
             \/ R!TraverseTest(t) \/ R!TraverseSet(t) \/ R!TraverseNoMemory(t)
             \/ R!TraverseLock(t) \/ R!TraverseDown(t) \/ R!TraverseUp(t)
             \/ R!TraverseClear(t)
      PROVE  RadixInv'
  <2>1. UNCHANGED <<R!tree, map, starved>>
    BY <1>5, Zenon DEF R!TraverseTest, R!TraverseSet, R!TraverseNoMemory,
       R!TraverseLock, R!TraverseDown, R!TraverseUp, R!TraverseClear
  <2>2. QED
    BY <1>4, <2>1
<1>6. CASE UNCHANGED radixVars
  <2>1. UNCHANGED <<R!tree, map, starved>>
    BY <1>6 DEF radixVars, R!tree
  <2>2. QED
    BY <1>4, <2>1
<1>7. QED
  BY <1>1, <1>2, <1>3, <1>5, <1>6, Zenon DEF R!Next

\* Every search answers for what was stored under the key and not removed
\* since; the counts are those of the tree; and each node leads to a datum,
\* unless memory ran out: whatever the traversals do in between.
THEOREM MapKept ==
  ASSUME R!ConstantsOK
  PROVE  Spec => []RadixExact
<1> DEFINE Inv == kind = "radix tree" => RadixInv
<1>1. Init => Inv
  BY RadixBegins, Zenon DEF Init
<1>2. Inv /\ [Next]_vars => Inv'
  <2>1. SUFFICES ASSUME Inv, [Next]_vars, (kind = "radix tree")'
                 PROVE  RadixInv'
    BY Zenon
  <2>2. UNCHANGED kind /\ (kind = "radix tree" => [R!Next]_radixVars)
    <3>1. [Next]_vars
      BY <2>1, Zenon
    <3>2. QED
      BY <3>1, OneKind, Zenon
  <2>3. RadixInv /\ [R!Next]_radixVars
    BY <2>1, <2>2, Zenon
  <2>4. QED
    BY <2>3, RadixStep, Zenon
<1>3. Inv => RadixExact
  BY RadixAsAsked, Zenon DEF RadixExact
<1>4. QED
  BY <1>1, <1>2, <1>3, PTL DEF Spec

\* A traversal beside which no other has run: what the walk holds while it is
\* in the loop, and what it has called when it is out.  Nobody modifies the
\* tree from its flag's being set to its being cleared.
Visits == VisitsOf(Data)
Visiting(w, flag, nodes, datum, cur) ==
  /\ w.at \in {"set", "loop", "unlocked"} => flag
  /\ w.at # "loop" => cur = [z \in nodes |-> 0]
  /\ w.at = "loop" =>
       Walks(nodes, datum, Null, cur, w.node, w.key, w.failed, w.seen)
  /\ w.at = "unlocked" => CallsMade(datum, Null, nodes, w.failed, w.seen)
Stored(nodes, datum) ==
  /\ nodes \subseteq Seq({0, 1})
  /\ \A x \in nodes : /\ datum[x] \in Data \cup {Null}
                      /\ datum[x] # Null => x \in RadixKeys

\* Whatever runs beside it, a traversal is at a node, with a key that has room
\* for the way there; and it stands for the counters above it, which are zero
\* where no traversal has gone.
Within(w, nodes) ==
  w.at = "loop" => w.node \in nodes /\ LongFor(w.key, w.node)
Answers(w, z) == w.at = "loop" /\ (z = w.node \/ Begins(z, w.node))
Walkers(visits, nodes, cur) ==
  /\ visits \in [Traversers -> Visits] /\ cur \in [nodes -> 0..2]
  /\ \A t \in Traversers : Within(visits[t], nodes)
  /\ \A z \in nodes : cur[z] # 0 => \E t \in Traversers : Answers(visits[t], z)
Lonely(by, visits, flag, nodes, datum, cur) ==
  \A t \in by : /\ t \in Traversers /\ visits[t].at # "out"
                /\ \A u \in Traversers : visits[u].at # "out" => u = t
                /\ Visiting(visits[t], flag, nodes, datum, cur)
VisitInv ==
  /\ RadixInv
  /\ Stored(R!Nodes, user_data)
  /\ Walkers(visit, R!Nodes, current)
  /\ Lonely(alone, visit, radix_flag, R!Nodes, user_data, current)

LEMMA KeyOfModel == \A key, x : R!KeyWith(key, x) = KeyWritten(key, x)
BY DEF R!KeyWith, KeyWritten, R!Max, Max, R!Last, Last

LEMMA VisitAsAsked == R!ConstantsOK /\ VisitInv => R!TraversalComplete
<1>1. SUFFICES ASSUME R!ConstantsOK, VisitInv,
                      NEW t \in alone, visit[t].at = "unlocked"
               PROVE  /\ R!IsInjective(visit[t].seen)
                      /\ LET stored == {<<k, map[k]>> :
                                          k \in {k \in RadixKeys : map[k] # Null}}
                         IN IF visit[t].failed
                            THEN R!ToSet(visit[t].seen) \subseteq stored
                            ELSE R!ToSet(visit[t].seen) = stored
                      /\ \A x \in R!Nodes : current[x] = 0
  BY DEF R!TraversalComplete
<1> DEFINE s == visit[t].seen
           stored == {<<k, map[k]>> : k \in {k \in RadixKeys : map[k] # Null}}
<1>2. /\ CallsMade(user_data, Null, R!Nodes, visit[t].failed, s)
      /\ current = [z \in R!Nodes |-> 0]
  BY <1>1 DEF VisitInv, Lonely, Visiting
<1>3. R!IsInjective(s) = IsInjective(s) /\ R!ToSet(s) = ToSet(s)
  BY DEF R!IsInjective, IsInjective, R!ToSet, ToSet
<1>4. CallsFor(user_data, Null, R!Nodes) = stored
  <2>1. \A x \in R!Nodes : user_data[x] # Null => x \in RadixKeys
    BY <1>1 DEF VisitInv, Stored
  <2>2. \A k \in RadixKeys : map[k] = IF k \in R!Nodes THEN user_data[k] ELSE Null
    BY <1>1 DEF VisitInv, RadixInv, R!Search
  <2>3. \A x \in R!Nodes : user_data[x] # Null =>
          x \in {k \in RadixKeys : map[k] # Null} /\ map[x] = user_data[x]
    BY <2>1, <2>2
  <2>4. \A k \in RadixKeys : map[k] # Null =>
          k \in {y \in R!Nodes : user_data[y] # Null} /\ map[k] = user_data[k]
    BY <2>2
  <2>5. CallsFor(user_data, Null, R!Nodes) \subseteq stored
    BY <2>3 DEF CallsFor
  <2>6. stored \subseteq CallsFor(user_data, Null, R!Nodes)
    BY <2>4 DEF CallsFor
  <2>7. QED
    BY <2>5, <2>6
<1>5. QED
  BY <1>2, <1>3, <1>4 DEF CallsMade

LEMMA VisitBegins == R!ConstantsOK /\ R!Init => VisitInv
<1>1. SUFFICES ASSUME R!ConstantsOK, R!Init PROVE VisitInv
  OBVIOUS
<1>2. /\ R!Nodes = {<<>>} /\ user_data[<<>>] = Null
      /\ current = [z \in {<<>>} |-> 0]
      /\ visit = [t \in Traversers |-> R!Away] /\ alone = {}
  BY <1>1 DEF R!Init, R!Nodes
<1>3. Stored(R!Nodes, user_data)
  BY <1>2 DEF Stored
<1>4. R!Away \in Visits /\ R!Away.at = "out"
  BY DEF R!Away, Visits, VisitsOf
<1>5. Walkers(visit, R!Nodes, current)
  BY <1>2, <1>4 DEF Walkers, Within
<1>6. Lonely(alone, visit, radix_flag, R!Nodes, user_data, current)
  BY <1>2 DEF Lonely
<1>7. QED
  BY <1>1, <1>3, <1>5, <1>6, RadixBegins DEF VisitInv

\* Nobody is in the loop where the tree is modified, and the flag is clear.
LEMMA ModifiedBeside ==
  ASSUME VisitInv, RadixInv', R!MayModify, UNCHANGED <<visit, radix_flag, alone>>,
         Stored(R!Nodes', user_data'),
         current' = [y \in R!Nodes' |-> IF y \in R!Nodes THEN current[y] ELSE 0]
  PROVE  VisitInv'
<1>1. /\ visit \in [Traversers -> Visits] /\ current \in [R!Nodes -> 0..2]
      /\ \A t \in Traversers : visit[t].at # "loop"
      /\ ~radix_flag
      /\ \A z \in R!Nodes : current[z] # 0 =>
           \E t \in Traversers : Answers(visit[t], z)
  BY DEF VisitInv, Walkers, R!MayModify, R!NoReader
<1>2. \A z \in R!Nodes : current[z] = 0
  BY <1>1 DEF Answers
<1>3. current' = [y \in R!Nodes' |-> 0]
  BY <1>2
<1>4. Walkers(visit, R!Nodes', current')
  BY <1>1, <1>3 DEF Walkers, Within
<1>5. Lonely(alone, visit, radix_flag, R!Nodes', user_data', current')
  <2>1. SUFFICES ASSUME NEW t \in alone
                 PROVE  /\ t \in Traversers /\ visit[t].at # "out"
                        /\ \A u \in Traversers : visit[u].at # "out" => u = t
                        /\ Visiting(visit[t], radix_flag, R!Nodes', user_data',
                                    current')
    BY DEF Lonely
  <2>2. /\ t \in Traversers /\ visit[t].at # "out"
        /\ \A u \in Traversers : visit[u].at # "out" => u = t
        /\ Visiting(visit[t], radix_flag, R!Nodes, user_data, current)
    BY DEF VisitInv, Lonely
  <2>3. visit[t].at \notin {"set", "loop", "unlocked"}
    BY <1>1, <2>2 DEF Visiting
  <2>4. QED
    BY <1>3, <2>2, <2>3 DEF Visiting
<1>6. QED
  BY <1>4, <1>5 DEF VisitInv

LEMMA GrownBeside ==
  ASSUME R!ConstantsOK, VisitInv, RadixInv', R!MayModify, NEW x \in Seq({0, 1}),
         NEW d \in Data \cup {Null}, d # Null => x \in RadixKeys,
         R!Grow(x, d), UNCHANGED <<visit, radix_flag, alone>>
  PROVE  VisitInv'
<1>1. /\ R!Nodes' = R!Nodes \cup Added(R!Nodes, x)
      /\ \A y \in R!Nodes' : user_data'[y] =
           IF y \in R!Nodes /\ user_data[y] # Null THEN user_data[y]
           ELSE IF y = x THEN d ELSE Null
  BY TreeGrows DEF VisitInv
<1>2. current' = [y \in R!Nodes' |-> IF y \in R!Nodes THEN current[y] ELSE 0]
  <2>1. R!Nodes' = R!Nodes \cup (R!Prefixes(x) \ R!Nodes)
    BY <1>1, TriesOfModel DEF Added
  <2>2. QED
    BY <2>1 DEF R!Grow
<1>3. Added(R!Nodes, x) \subseteq Seq({0, 1})
  BY PrefixFacts DEF Added
<1>4. Stored(R!Nodes', user_data')
  <2>1. Stored(R!Nodes, user_data)
    BY DEF VisitInv
  <2>2. QED
    BY <1>1, <1>3, <2>1 DEF Stored
<1>5. QED
  BY <1>2, <1>4, ModifiedBeside

LEMMA RemovedBeside ==
  ASSUME R!ConstantsOK, VisitInv, RadixInv', NEW key \in RadixKeys,
         R!radix_tree_remove(key)
  PROVE  VisitInv'
<1> DEFINE nodes == R!Nodes \ R!Unused(key)
<1>1. /\ R!MayModify /\ UNCHANGED <<visit, radix_flag, alone>>
      /\ user_data' = [y \in nodes |-> IF y = key THEN Null ELSE user_data[y]]
      /\ current' = R!Restrict(current, nodes)
  BY DEF R!radix_tree_remove
<1>2. R!Nodes' = nodes
  BY <1>1 DEF R!Nodes
<1> HIDE DEF nodes
<1>3. nodes \subseteq R!Nodes
  BY DEF nodes
<1>4. current' = [y \in R!Nodes' |-> IF y \in R!Nodes THEN current[y] ELSE 0]
  <2>1. current' = [y \in nodes |-> current[y]]
    BY <1>1 DEF R!Restrict
  <2>2. QED
    BY <1>2, <1>3, <2>1
<1>5. Stored(R!Nodes', user_data')
  <2>1. Stored(R!Nodes, user_data)
    BY DEF VisitInv
  <2>2. QED
    BY <1>1, <1>2, <1>3, <2>1 DEF Stored
<1>6. QED
  BY <1>1, <1>4, <1>5, ModifiedBeside

\* The traversal of t moves on to w.
MayMove(t, w, visits, nodes, cur, new, by, flag, datum) ==
  /\ w \in Visits /\ Within(w, nodes) /\ new \in [nodes -> 0..2]
  /\ \A z \in nodes : new[z] # 0 =>
       Answers(w, z) \/ (cur[z] # 0 /\ ~Answers(visits[t], z))
  /\ \A u \in by : /\ u = t /\ w.at # "out"
                   /\ \A q \in Traversers : q # t => visits[q].at = "out"
                   /\ Visiting(w, flag, nodes, datum, new)

LEMMA OneMoves ==
  ASSUME VisitInv, NEW t \in Traversers, UNCHANGED <<R!tree, map, starved>>,
         NEW w, visit' = [visit EXCEPT ![t] = w],
         MayMove(t, w, visit, R!Nodes, current, current', alone', radix_flag',
                 user_data)
  PROVE  VisitInv'
<1>1. UNCHANGED <<R!Nodes, user_data, n_children, node_count>>
  BY DEF R!tree, R!Nodes
<1>2. RadixInv'
  BY <1>1 DEF VisitInv, RadixInv, R!Nodes, R!Search
<1>3. Stored(R!Nodes', user_data')
  BY <1>1 DEF VisitInv
<1>4. /\ visit \in [Traversers -> Visits]
      /\ \A u \in Traversers : Within(visit[u], R!Nodes)
      /\ \A z \in R!Nodes : current[z] # 0 =>
           \E u \in Traversers : Answers(visit[u], z)
  BY DEF VisitInv, Walkers
<1>5. /\ w \in Visits /\ Within(w, R!Nodes) /\ current' \in [R!Nodes -> 0..2]
      /\ \A z \in R!Nodes : current'[z] # 0 =>
           Answers(w, z) \/ (current[z] # 0 /\ ~Answers(visit[t], z))
      /\ \A u \in alone' : /\ u = t /\ w.at # "out"
                           /\ \A q \in Traversers : q # t => visit[q].at = "out"
                           /\ Visiting(w, radix_flag', R!Nodes, user_data, current')
  BY DEF MayMove
<1>6. PICK new : new = visit'
  OBVIOUS
<1>7. /\ new \in [Traversers -> Visits] /\ new[t] = w
      /\ \A u \in Traversers : u # t => new[u] = visit[u]
  BY <1>4, <1>5, <1>6
<1>8. \A u \in Traversers : Within(new[u], R!Nodes)
  BY <1>4, <1>5, <1>7, Zenon
<1>9. ASSUME NEW z \in R!Nodes, current'[z] # 0
      PROVE  \E u \in Traversers : Answers(new[u], z)
  <2>1. CASE Answers(w, z)
    BY <1>7, <2>1
  <2>2. CASE current[z] # 0 /\ ~Answers(visit[t], z)
    <3>1. PICK u \in Traversers : Answers(visit[u], z)
      BY <1>4, <2>2
    <3>2. QED
      BY <1>7, <2>2, <3>1
  <2>3. QED
    BY <1>5, <1>9, <2>1, <2>2
<1>10. Walkers(new, R!Nodes', current')
  BY <1>1, <1>5, <1>7, <1>8, <1>9, Zenon DEF Walkers
<1>11. Lonely(alone', new, radix_flag', R!Nodes', user_data', current')
  BY <1>1, <1>5, <1>7, Zenon DEF Lonely
<1>12. QED
  BY <1>2, <1>3, <1>6, <1>10, <1>11 DEF VisitInv

\* Who traverses knows of no other if he is alone.
LEMMA OthersOut ==
  ASSUME VisitInv, NEW t \in Traversers, visit[t].at # "out", NEW u \in alone
  PROVE  /\ u = t /\ \A q \in Traversers : q # t => visit[q].at = "out"
         /\ Visiting(visit[t], radix_flag, R!Nodes, user_data, current)
<1>1. /\ u \in Traversers
      /\ \A q \in Traversers : visit[q].at # "out" => q = u
      /\ Visiting(visit[u], radix_flag, R!Nodes, user_data, current)
  BY DEF VisitInv, Lonely
<1>2. t = u
  BY <1>1
<1>3. QED
  BY <1>1, <1>2

\* The turns before the first and after the last of the loop.
LEMMA OutsideLoop ==
  ASSUME VisitInv, NEW t \in Traversers,
         \/ R!TraverseTest(t) \/ R!TraverseSet(t) \/ R!TraverseNoMemory(t)
         \/ R!TraverseLock(t) \/ R!TraverseClear(t)
  PROVE  VisitInv'
<1> DEFINE v == visit[t]
           nodes == R!Nodes
<1>1. /\ v \in Visits /\ current \in [nodes -> 0..2]
      /\ \A z \in nodes : current[z] # 0 =>
           \E u \in Traversers : Answers(visit[u], z)
      /\ Binary(nodes, n_children)
  BY DEF VisitInv, Walkers, RadixInv, Binary, Stored
<1>2. ASSUME NEW place \in {"out", "tested", "set"},
             R!Goto(t, place), v.at # "loop",
             UNCHANGED <<R!tree, current, map, starved>>,
             \A u \in alone' :
               /\ u = t /\ place # "out" /\ (place = "set" => radix_flag')
               /\ \A q \in Traversers : q # t => visit[q].at = "out"
               /\ \A q \in Traversers : visit[q].at # "loop"
      PROVE  VisitInv'
  <2> DEFINE w == [v EXCEPT !.at = place]
  <2>1. w \in Visits /\ w.at = place
    BY <1>1, Zenon DEF Visits, VisitsOf
  <2>2. visit' = [visit EXCEPT ![t] = w]
    BY <1>2 DEF R!Goto
  <2> HIDE DEF w
  <2>3. (\A q \in Traversers : visit[q].at # "loop") =>
           current = [z \in nodes |-> 0]
    BY <1>1 DEF Answers
  <2>4. ASSUME NEW u \in alone'
        PROVE  Visiting(w, radix_flag', nodes, user_data, current')
    <3>1. current' = [z \in nodes |-> 0]
      BY <1>2, <2>3
    <3>2. QED
      BY <1>2, <2>1, <3>1 DEF Visiting
  <2>5. Within(w, nodes) /\ ~Answers(v, v.node) /\ \A z : ~Answers(v, z)
    BY <1>2, <2>1 DEF Within, Answers
  <2>6. MayMove(t, w, visit, nodes, current, current', alone', radix_flag', user_data)
    BY <1>1, <1>2, <2>1, <2>4, <2>5 DEF MayMove
  <2>7. QED
    BY <1>2, <2>2, <2>6, OneMoves, Zenon
<1>3. CASE R!TraverseTest(t)
  <2>1. /\ v.at = "out" /\ R!Goto(t, "tested")
        /\ UNCHANGED <<R!tree, current, map, starved>>
        /\ alone' = {u \in {t} : \A q \in Traversers : visit[q].at = "out"}
    BY <1>3 DEF R!TraverseTest
  <2>2. QED
    BY <1>2, <2>1
<1>4. CASE R!TraverseSet(t)
  <2>1. /\ v.at = "tested" /\ R!Goto(t, "set") /\ radix_flag' = TRUE
        /\ UNCHANGED <<R!tree, current, map, starved, alone>>
    BY <1>4 DEF R!TraverseSet
  <2>2. \A u \in alone : /\ u = t
                         /\ \A q \in Traversers : q # t => visit[q].at = "out"
    BY <2>1, OthersOut
  <2>3. \A u \in alone : \A q \in Traversers : visit[q].at # "loop"
    BY <2>1, <2>2
  <2>4. QED
    BY <1>2, <2>1, <2>2, <2>3
<1>5. CASE R!TraverseNoMemory(t)
  <2>1. /\ v.at = "set" /\ R!Goto(t, "out") /\ alone' = alone \ {t}
        /\ UNCHANGED <<R!tree, current, map, starved>>
    BY <1>5 DEF R!TraverseNoMemory
  <2>2. alone' = {}
    BY <2>1, OthersOut
  <2>3. QED
    BY <1>2, <2>1, <2>2
<1>6. CASE R!TraverseLock(t)
  <2> DEFINE w == [R!Away EXCEPT !.at = "loop"]
  <2>1. /\ v.at = "set" /\ visit' = [visit EXCEPT ![t] = w]
        /\ current' = [current EXCEPT ![<<>>] = 0]
        /\ UNCHANGED <<radix_flag, R!tree, map, starved, alone>>
    BY <1>6 DEF R!TraverseLock
  <2>2. /\ w \in Visits /\ w.at = "loop" /\ w.node = <<>> /\ w.key = <<>>
        /\ w.failed = FALSE /\ w.seen = <<>>
    <3> DEFINE a == R!Away
    <3>1. /\ a \in Visits /\ a.node = <<>> /\ a.key = <<>>
          /\ a.failed = FALSE /\ a.seen = <<>>
      BY DEF R!Away, Visits, VisitsOf
    <3> HIDE DEF a
    <3>2. [a EXCEPT !.at = "loop"] \in Visits
      BY <3>1 DEF Visits, VisitsOf
    <3>3. /\ [a EXCEPT !.at = "loop"].at = "loop"
          /\ [a EXCEPT !.at = "loop"].node = a.node
          /\ [a EXCEPT !.at = "loop"].key = a.key
          /\ [a EXCEPT !.at = "loop"].failed = a.failed
          /\ [a EXCEPT !.at = "loop"].seen = a.seen
      BY <3>1 DEF Visits, VisitsOf
    <3>4. w = [a EXCEPT !.at = "loop"]
      BY DEF a
    <3> HIDE DEF w
    <3>5. QED
      BY <3>1, <3>2, <3>3, <3>4
  <2> HIDE DEF w
  <2>3. <<>> \in nodes
    BY <1>1 DEF Binary, Trie
  <2>4. current' \in [nodes -> 0..2] /\ \A z \in nodes : current'[z] # 0 => current[z] # 0
    <3>1. current' = PutBack(current, <<>>)
      BY <2>1 DEF PutBack
    <3>2. CountersAre(current, current', nodes, <<>>, 0)
      BY <1>1, <2>3, <3>1, CounterWritten
    <3>3. QED
      BY <3>2 DEF CountersAre
  <2>5. ASSUME NEW u \in alone'
        PROVE  /\ u = t /\ \A q \in Traversers : q # t => visit[q].at = "out"
               /\ Visiting(w, radix_flag', nodes, user_data, current')
    <3>1. /\ u = t /\ \A q \in Traversers : q # t => visit[q].at = "out"
          /\ Visiting(v, radix_flag, nodes, user_data, current)
      BY <2>1, <2>5, OthersOut
    <3>2. radix_flag /\ current = [z \in nodes |-> 0]
      BY <2>1, <3>1 DEF Visiting
    <3>3. current' = current
      BY <2>1, <3>2
    <3>4. Walks(nodes, user_data, Null, current, <<>>, <<>>, FALSE, <<>>)
      BY <1>1, <3>2, WalkBegins, Zenon
    <3>5. Visiting(w, radix_flag', nodes, user_data, current')
      BY <2>1, <2>2, <3>2, <3>3, <3>4, Zenon DEF Visiting
    <3>6. QED
      BY <3>1, <3>5
  <2>6. Within(w, nodes) /\ \A z : ~Answers(v, z)
    <3>1. <<>> \in Seq({0, 1}) /\ Len(<<>>) = 0
      OBVIOUS
    <3>2. QED
      BY <2>1, <2>2, <2>3, <3>1 DEF Within, Answers, LongFor
  <2>7. MayMove(t, w, visit, nodes, current, current', alone', radix_flag', user_data)
    BY <2>2, <2>4, <2>5, <2>6 DEF MayMove
  <2>8. QED
    BY <2>1, <2>7, OneMoves, ZenonT(60)
<1>7. CASE R!TraverseClear(t)
  <2> DEFINE w == R!Away
  <2>1. /\ v.at = "unlocked" /\ visit' = [visit EXCEPT ![t] = w]
        /\ alone' = alone \ {t} /\ UNCHANGED <<current, R!tree, map, starved>>
    BY <1>7 DEF R!TraverseClear
  <2>2. w \in Visits /\ w.at = "out"
    BY DEF R!Away, Visits, VisitsOf
  <2> HIDE DEF w
  <2>3. alone' = {}
    BY <2>1, OthersOut
  <2>4. Within(w, nodes) /\ \A z : ~Answers(v, z)
    BY <2>1, <2>2 DEF Within, Answers
  <2>5. MayMove(t, w, visit, nodes, current, current', alone', radix_flag', user_data)
    BY <1>1, <2>1, <2>2, <2>3, <2>4 DEF MayMove
  <2>6. QED
    BY <2>1, <2>5, OneMoves, Zenon
<1>8. QED
  BY <1>3, <1>4, <1>5, <1>6, <1>7

LEMMA DownInLoop ==
  ASSUME R!ConstantsOK, VisitInv, NEW t \in Traversers, R!TraverseDown(t)
  PROVE  VisitInv'
<1> DEFINE v == visit[t]
           nodes == R!Nodes
           x == v.node
           child == Append(x, current[x])
           next == IF child \in nodes THEN child ELSE x
           key == KeyWritten(v.key, x)
           w == [[v EXCEPT !.key = key] EXCEPT !.node = next]
<1>1. /\ v \in Visits /\ current \in [nodes -> 0..2] /\ Within(v, nodes)
      /\ Binary(nodes, n_children) /\ visit \in [Traversers -> Visits]
  BY DEF VisitInv, Walkers, RadixInv, Binary, Stored
<1>2. /\ v.at = "loop" /\ current[x] < 2
      /\ UNCHANGED <<radix_flag, R!tree, map, starved, alone>>
      /\ current' = Tried(current, x)
  BY DEF R!TraverseDown, R!ConstantsOK, Tried
<1>3. visit' = [visit EXCEPT ![t].key = key, ![t].node = next]
  BY KeyOfModel, Zenon DEF R!TraverseDown
<1>4. visit' = [visit EXCEPT ![t] = w]
  BY <1>1, <1>3, Zenon
<1>5. x \in nodes /\ x \in Seq({0, 1}) /\ LongFor(v.key, x) /\ current[x] \in {0, 1}
  <2>1. x \in nodes /\ LongFor(v.key, x)
    BY <1>1, <1>2 DEF Within
  <2>2. current[x] \in 0..2
    BY <1>1, <2>1
  <2>3. current[x] \in {0, 1}
    BY <1>2, <2>2
  <2>4. QED
    BY <1>1, <2>1, <2>3 DEF Binary
<1>6. Above(x, current[x], child)
  BY <1>5, ChildBelow
<1>7. next \in nodes /\ next \in Seq({0, 1}) /\ LongFor(key, next)
  <2>1. LongFor(key, x) /\ LongFor(key, child)
    BY <1>5, KeyStaysLong
  <2>2. next \in nodes
    BY <1>5
  <2>3. nodes \subseteq Seq({0, 1})
    BY <1>1 DEF Binary
  <2>4. LongFor(key, next)
    BY <2>1, Zenon
  <2> HIDE DEF next, key, nodes
  <2>5. QED
    BY <2>2, <2>3, <2>4, Zenon
<1>8. \A z \in Seq({0, 1}) : z = x \/ Begins(z, x) => z = next \/ Begins(z, next)
  BY <1>6, BeginsBelow
<1>9. current' \in [nodes -> 0..2] /\ \A z \in nodes : z # x => current'[z] = current[z]
  <2>1. current[x] # 2
    BY <1>5
  <2>2. CountersAre(current, current', nodes, x, current[x] + 1)
    BY <1>1, <1>2, <1>5, <2>1, CounterWritten, Zenon
  <2>3. QED
    BY <2>2, Zenon DEF CountersAre
<1>10. ASSUME NEW u \in alone
       PROVE  /\ radix_flag
              /\ Walks(nodes, user_data, Null, current', next, key, v.failed, v.seen)
              /\ u = t /\ \A q \in Traversers : q # t => visit[q].at = "out"
  <2>1. /\ u = t /\ \A q \in Traversers : q # t => visit[q].at = "out"
        /\ Visiting(v, radix_flag, nodes, user_data, current)
    BY <1>2, OthersOut
  <2>2. /\ radix_flag
        /\ Walks(nodes, user_data, Null, current, x, v.key, v.failed, v.seen)
    BY <1>2, <2>1 DEF Visiting
  <2>3. QED
    BY <1>1, <1>2, <2>1, <2>2, WalkDown
<1> HIDE DEF next, key
<1>11. key \in Seq({0, 1})
  BY <1>7 DEF LongFor
<1>12. /\ w \in Visits /\ w.at = "loop" /\ w.node = next /\ w.key = key
       /\ w.failed = v.failed /\ w.seen = v.seen
  BY <1>1, <1>2, <1>7, <1>11, Zenon DEF Visits, VisitsOf
<1> HIDE DEF w
<1>13. Within(w, nodes)
  BY <1>7, <1>12 DEF Within
<1>14. ASSUME NEW z \in nodes, current'[z] # 0
       PROVE  Answers(w, z) \/ (current[z] # 0 /\ ~Answers(v, z))
  <2>1. z \in Seq({0, 1})
    BY <1>1 DEF Binary
  <2>2. CASE z = x \/ Begins(z, x)
    BY <1>8, <1>12, <2>1, <2>2 DEF Answers
  <2>3. CASE ~(z = x \/ Begins(z, x))
    BY <1>9, <1>14, <2>3 DEF Answers
  <2>4. QED
    BY <2>2, <2>3
<1>15. \A u \in alone' : Visiting(w, radix_flag', nodes, user_data, current')
  BY <1>2, <1>10, <1>12 DEF Visiting
<1>16. MayMove(t, w, visit, nodes, current, current', alone', radix_flag', user_data)
  <2>1. w.at # "out"
    BY <1>12
  <2>2. QED
    BY <1>2, <1>9, <1>10, <1>12, <1>13, <1>14, <1>15, <2>1, Zenon DEF MayMove
<1>17. QED
  BY <1>2, <1>4, <1>16, OneMoves, Zenon

LEMMA UpInLoop ==
  ASSUME R!ConstantsOK, VisitInv, NEW t \in Traversers, R!TraverseUp(t)
  PROVE  VisitInv'
<1>1. PICK v : v = visit[t]
  OBVIOUS
<1> DEFINE x == v.node
           due == user_data[x] # Null /\ ~v.failed
           lone == t \in alone
           D == Seq({0, 1}) \X (Data \cup {Null})
<1>2. /\ v \in Visits /\ visit \in [Traversers -> Visits]
      /\ current \in [R!Nodes -> 0..2] /\ Within(v, R!Nodes)
      /\ Stored(R!Nodes, user_data) /\ Binary(R!Nodes, n_children)
  BY <1>1 DEF VisitInv, Walkers, RadixInv, Binary, Stored
<1>3. /\ v.at = "loop" /\ current[x] >= 2
      /\ UNCHANGED <<radix_flag, R!tree, map, starved, alone>>
      /\ current' = PutBack(current, x)
  BY <1>1 DEF R!TraverseUp, R!ConstantsOK, PutBack
<1>4. /\ v.failed \in BOOLEAN /\ v.seen \in Seq(Seq({0, 1}) \X Data)
      /\ x \in R!Nodes /\ R!Nodes \subseteq Seq({0, 1}) /\ LongFor(v.key, x)
  BY <1>2, <1>3 DEF Visits, VisitsOf, Within, Stored
<1>5. ASSUME NEW u \in alone
      PROVE  /\ radix_flag /\ lone /\ SubSeq(v.key, 1, Len(x)) = x
             /\ Walks(R!Nodes, user_data, Null, current, x, v.key, v.failed, v.seen)
             /\ u = t /\ \A q \in Traversers : q # t => visit[q].at = "out"
  <2>1. /\ u = t /\ \A q \in Traversers : q # t => visit[q].at = "out"
        /\ Visiting(v, radix_flag, R!Nodes, user_data, current)
    BY <1>1, <1>3, OthersOut
  <2>2. /\ radix_flag
        /\ Walks(R!Nodes, user_data, Null, current, x, v.key, v.failed, v.seen)
    BY <1>3, <2>1 DEF Visiting
  <2>3. SubSeq(v.key, 1, Len(x)) = x
    BY <1>2, <1>3, <2>2, KeyOfWalk
  <2>4. QED
    BY <2>1, <2>2, <2>3
<1>6. PICK fails, now, told, next, at :
        /\ fails \in BOOLEAN /\ (fails => due)
        /\ now = (v.failed \/ fails)
        /\ told = IF due /\ lone
                  THEN Append(v.seen, <<SubSeq(v.key, 1, Len(x)), user_data[x]>>)
                  ELSE v.seen
        /\ next = IF x = <<>> THEN x ELSE R!Parent(x)
        /\ at = IF x = <<>> THEN "unlocked" ELSE v.at
        /\ visit' = [visit EXCEPT ![t].failed = now, ![t].seen = told,
                                  ![t].node = next, ![t].at = at]
  <2>1. PICK fails \in BOOLEAN :
          /\ fails => due
          /\ visit' = [visit EXCEPT
               ![t].failed = v.failed \/ fails,
               ![t].seen = IF due /\ lone
                 THEN Append(v.seen, <<SubSeq(v.key, 1, Len(x)), user_data[x]>>)
                 ELSE v.seen,
               ![t].node = IF x = <<>> THEN x ELSE R!Parent(x),
               ![t].at = IF x = <<>> THEN "unlocked" ELSE v.at]
    BY <1>1, Zenon DEF R!TraverseUp
  <2>2. QED
    BY <2>1, ZenonT(60)
<1>7. now \in BOOLEAN /\ (v.failed => now) /\ (now => v.failed \/ due)
  BY <1>4, <1>6
<1>8. ASSUME lone
      PROVE  /\ told = CallsWith(user_data, Null, x, v.failed, v.seen)
             /\ SubSeq(v.key, 1, Len(x)) = x
  <2>1. SubSeq(v.key, 1, Len(x)) = x
    BY <1>5, <1>8
  <2>2. told = IF due THEN Append(v.seen, <<x, user_data[x]>>) ELSE v.seen
    BY <1>6, <1>8, <2>1, Zenon
  <2>3. QED
    BY <2>1, <2>2, Zenon DEF CallsWith, CallDue
<1>9. v.seen \in Seq(D) /\ <<x, user_data[x]>> \in D
  BY <1>2, <1>4 DEF Stored
<1> HIDE DEF x
<1>10. ASSUME NEW u \in alone
       PROVE  AfterLast(R!Nodes, user_data, Null, PutBack(current, x), x, v.key,
                        now, told)
  <2>1. LastTurn(R!Nodes, n_children, user_data, Null, D, current, x, v.key,
                 v.failed, v.seen, now, told)
    BY <1>2, <1>3, <1>4, <1>5, <1>7, <1>8, <1>9, Zenon DEF LastTurn, CallDue
  <2>2. QED
    BY <2>1, WalkUp, Zenon
<1>11. /\ x # <<>> => next = Front(x) /\ at = "loop"
       /\ x = <<>> => next = <<>> /\ at = "unlocked"
  BY <1>3, <1>6, TriesOfModel
<1>12. /\ next \in R!Nodes /\ next \in Seq({0, 1}) /\ LongFor(v.key, next)
       /\ \A z \in Seq({0, 1}) : z # x /\ Begins(z, x) =>
            x # <<>> /\ (z = next \/ Begins(z, next))
  <2>1. CASE x = <<>>
    <3>1. \A z \in Seq({0, 1}) : ~Begins(z, <<>>)
      BY DEF Begins
    <3>2. QED
      BY <1>4, <1>11, <2>1, <3>1
  <2>2. CASE x # <<>>
    <3>1. Front(x) \in R!Nodes
      BY <1>2, <1>4, <2>2 DEF Binary, Trie
    <3>2. LongFor(v.key, Front(x)) /\ Above(Front(x), Last(x), x)
      BY <1>4, <2>2, KeyStaysLong, ParentAbove
    <3>3. \A z \in Seq({0, 1}) : Begins(z, x) => z = Front(x) \/ Begins(z, Front(x))
      BY <3>2, BeginsBelow
    <3>4. QED
      BY <1>4, <1>11, <2>2, <3>1, <3>2, <3>3
  <2>3. QED
    BY <2>1, <2>2
<1>13. /\ told \in Seq(Seq({0, 1}) \X Data) /\ at \in {"loop", "unlocked"}
       /\ current' \in [R!Nodes -> 0..2] /\ current'[x] = 0
       /\ \A z \in R!Nodes : z # x => current'[z] = current[z]
  <2>1. due => <<x, user_data[x]>> \in Seq({0, 1}) \X Data
    BY <1>2, <1>4 DEF Stored
  <2>2. told \in Seq(Seq({0, 1}) \X Data)
    <3>1. CASE lone /\ due
      <4>1. told = Append(v.seen, <<x, user_data[x]>>)
        BY <1>8, <3>1, Zenon DEF CallsWith, CallDue
      <4>2. QED
        BY <1>4, <2>1, <3>1, <4>1
    <3>2. CASE ~(lone /\ due)
      <4>1. told = v.seen
        BY <1>6, <3>2, Zenon
      <4>2. QED
        BY <1>4, <4>1
    <3>3. QED
      BY <3>1, <3>2
  <2>3. /\ current' \in [R!Nodes -> 0..2] /\ current'[x] = 0
        /\ \A z \in R!Nodes : z # x => current'[z] = current[z]
    <3>1. 0 \in 0..2
      OBVIOUS
    <3>2. QED
      BY <1>2, <1>3, <1>4, <3>1 DEF PutBack
  <2>4. QED
    BY <1>11, <2>2, <2>3
<1> HIDE DEF due, D, lone
<1>14. PICK w : w = TurnOf(v, now, told, next, at)
  OBVIOUS
<1>15. visit' = [visit EXCEPT ![t] = w]
  <2>1. visit' = TurnAt(visit, t, now, told, next, at)
    BY <1>6, Zenon DEF TurnAt
  <2>2. TurnAt(visit, t, now, told, next, at) =
          OneTurn(visit, t, now, told, next, at)
    <3>1. MayTurn(Data, visit, t)
      BY <1>2 DEF MayTurn, Visits
    <3>2. QED
      BY <3>1, TurnOfWalk, ZenonT(60)
  <2>3. QED
    BY <1>1, <1>14, <2>1, <2>2, Zenon DEF OneTurn
<1>16. /\ w \in Visits /\ w.at = at /\ w.node = next /\ w.key = v.key
       /\ w.failed = now /\ w.seen = told
  <2>1. HasTurned(Data, TurnOf(v, now, told, next, at), v, now, told, next, at)
    BY <1>2, <1>7, <1>12, <1>13, AfterTurn, ZenonT(60) DEF Visits
  <2>2. QED
    BY <1>14, <2>1, Zenon DEF HasTurned, Visits
<1>17. ASSUME NEW u \in alone
       PROVE  Visiting(w, radix_flag', R!Nodes, user_data, current')
  <2>1. CASE x = <<>>
    <3>1. w.at = "unlocked"
      BY <1>11, <1>16, <2>1
    <3>2. QED
      BY <1>3, <1>5, <1>10, <1>16, <2>1, <3>1 DEF Visiting, AfterLast
  <2>2. CASE x # <<>>
    <3>1. w.at = "loop" /\ w.node = Front(x)
      BY <1>11, <1>16, <2>2
    <3>2. QED
      BY <1>3, <1>5, <1>10, <1>16, <2>2, <3>1 DEF Visiting, AfterLast
  <2>3. QED
    BY <2>1, <2>2
<1>18. Within(w, R!Nodes)
  BY <1>12, <1>16 DEF Within
<1>19. ASSUME NEW z \in R!Nodes, current'[z] # 0
       PROVE  Answers(w, z) \/ (current[z] # 0 /\ ~Answers(v, z))
  <2>1. z \in Seq({0, 1}) /\ z # x /\ current[z] # 0
    BY <1>4, <1>13, <1>19
  <2>2. CASE Begins(z, x)
    <3>1. x # <<>> /\ (z = next \/ Begins(z, next))
      BY <1>12, <2>1, <2>2
    <3>2. QED
      BY <1>11, <1>16, <3>1 DEF Answers
  <2>3. CASE ~Begins(z, x)
    BY <2>1, <2>3 DEF Answers, x
  <2>4. QED
    BY <2>2, <2>3
<1>20. MayMove(t, w, visit, R!Nodes, current, current', alone', radix_flag', user_data)
  <2>1. w.at # "out"
    BY <1>13, <1>16
  <2>2. QED
    BY <1>1, <1>3, <1>5, <1>13, <1>16, <1>17, <1>18, <1>19, <2>1, Zenon DEF MayMove
<1>21. QED
  BY <1>3, <1>15, <1>20, OneMoves, Zenon

LEMMA VisitStep ==
  ASSUME R!ConstantsOK, VisitInv, [R!Next]_radixVars
  PROVE  VisitInv'
<1>1. RadixInv'
  BY RadixStep DEF VisitInv
<1>2. ASSUME NEW k \in RadixKeys, R!radix_tree_remove(k) PROVE VisitInv'
  BY <1>1, <1>2, RemovedBeside
<1>3. ASSUME NEW k \in RadixKeys, NEW d \in Data, R!radix_tree_insert(k, d)
      PROVE  VisitInv'
  <2>1. R!MayModify /\ R!Grow(k, d) /\ UNCHANGED <<visit, radix_flag, alone>>
    BY <1>3 DEF R!radix_tree_insert
  <2>2. k \in Seq({0, 1}) /\ d \in Data \cup {Null}
    BY DEF R!ConstantsOK
  <2>3. QED
    BY <1>1, <2>1, <2>2, GrownBeside
<1>4. ASSUME NEW k \in RadixKeys, NEW x \in R!Prefixes(k), R!InsertNoMemory(k, x)
      PROVE  VisitInv'
  <2>1. R!MayModify /\ R!Grow(x, Null) /\ UNCHANGED <<visit, radix_flag, alone>>
    BY <1>4 DEF R!InsertNoMemory
  <2>2. k \in Seq({0, 1})
    BY DEF R!ConstantsOK
  <2>3. x \in Seq({0, 1}) /\ Null \in Data \cup {Null}
    BY <2>2, TriesOfModel, PrefixFacts
  <2>4. QED
    BY <1>1, <2>1, <2>3, GrownBeside
<1>5. ASSUME NEW t \in Traversers,
             \/ R!TraverseTest(t) \/ R!TraverseSet(t) \/ R!TraverseNoMemory(t)
             \/ R!TraverseLock(t) \/ R!TraverseDown(t) \/ R!TraverseUp(t)
             \/ R!TraverseClear(t)
      PROVE  VisitInv'
  <2>2. CASE R!TraverseDown(t)
    BY <2>2, DownInLoop
  <2>3. CASE R!TraverseUp(t)
    BY <2>3, UpInLoop
  <2>4. CASE \/ R!TraverseTest(t) \/ R!TraverseSet(t) \/ R!TraverseNoMemory(t)
             \/ R!TraverseLock(t) \/ R!TraverseClear(t)
    BY <2>4, OutsideLoop
  <2>5. QED
    BY <1>5, <2>2, <2>3, <2>4
<1>6. CASE UNCHANGED radixVars
  <2>1. UNCHANGED <<radix_flag, user_data, current, visit, alone>>
    BY <1>6 DEF radixVars
  <2>2. QED
    BY <1>1, <2>1 DEF VisitInv, R!Nodes
<1>7. QED
  BY <1>2, <1>3, <1>4, <1>5, <1>6, Zenon DEF R!Next

\* A traversal beside which no other runs calls the user's function once for
\* each datum with the key it is stored under, or up to the call that failed,
\* and leaves every counter at zero, whatever is inserted and removed before
\* and after it and however many traversals astray of each other went before.
THEOREM TraversalsComplete ==
  ASSUME R!ConstantsOK
  PROVE  Spec => []RadixTraversalComplete
<1> DEFINE Inv == kind = "radix tree" => VisitInv
<1>1. Init => Inv
  BY VisitBegins, Zenon DEF Init
<1>2. Inv /\ [Next]_vars => Inv'
  <2>1. SUFFICES ASSUME Inv, [Next]_vars, (kind = "radix tree")'
                 PROVE  VisitInv'
    BY Zenon
  <2>2. UNCHANGED kind /\ (kind = "radix tree" => [R!Next]_radixVars)
    <3>1. [Next]_vars
      BY <2>1, Zenon
    <3>2. QED
      BY <3>1, OneKind, Zenon
  <2>3. VisitInv /\ [R!Next]_radixVars
    BY <2>1, <2>2, Zenon
  <2>4. QED
    BY <2>3, VisitStep, Zenon
<1>3. Inv => RadixTraversalComplete
  BY VisitAsAsked, Zenon DEF RadixTraversalComplete
<1>4. QED
  BY <1>1, <1>2, <1>3, PTL DEF Spec

-----------------------------------------------------------------------------
(***************************************************************************)
(* The event manager, about which a module of its own proves what is       *)
(* needed here.  EP is an instance of it, whose definitions are those of E *)
(* under another name: the lemmas say so from the operators up to the      *)
(* next-state relations.                                                   *)
(***************************************************************************)
EP == INSTANCE EventManagerProofs WITH
        Types <- EventTypes,
        alive <- event_alive, should_not_be_modified <- event_flag

LEMMA SameLists ==
  /\ E!Kinds = EP!Kinds /\ E!Scopes = EP!Scopes
  /\ \A D : E!Min(D) = EP!Min(D)
  /\ \A list, i, r : E!InsertAt(list, i, r) = EP!InsertAt(list, i, r)
  /\ \A list, i : E!RemoveAt(list, i) = EP!RemoveAt(list, i)
  /\ \A f, D : E!Restrict(f, D) = EP!Restrict(f, D)
  /\ \A r, q : E!compare_f_and_args(r, q) = EP!compare_f_and_args(r, q)
  /\ \A list, r : E!Passed(list, r) = EP!Passed(list, r)
  /\ \A list, r : E!Found(list, r) <=> EP!Found(list, r)
  /\ \A k, scope : E!HasList(k, scope) <=> EP!HasList(k, scope)
  /\ \A k, scope : E!ListOf(k, scope) = EP!ListOf(k, scope)
  /\ \A k, scope, list : E!SetList(k, scope, list) <=> EP!SetList(k, scope, list)
  /\ \A k, scope, r : E!Comparable(k, scope, r) = EP!Comparable(k, scope, r)
  /\ E!Entries = EP!Entries
<1>1. E!Kinds = EP!Kinds /\ E!Scopes = EP!Scopes
  BY DEF E!Kinds, EP!Kinds, E!Scopes, EP!Scopes
<1>2. \A D : E!Min(D) = EP!Min(D)
  BY DEF E!Min, EP!Min
<1>3. /\ \A list, i, r : E!InsertAt(list, i, r) = EP!InsertAt(list, i, r)
      /\ \A list, i : E!RemoveAt(list, i) = EP!RemoveAt(list, i)
      /\ \A f, D : E!Restrict(f, D) = EP!Restrict(f, D)
  BY DEF E!InsertAt, EP!InsertAt, E!RemoveAt, EP!RemoveAt, E!Restrict, EP!Restrict
<1>4. \A r, q : E!compare_f_and_args(r, q) = EP!compare_f_and_args(r, q)
  BY DEF E!compare_f_and_args, EP!compare_f_and_args, E!Difference, EP!Difference
<1>5. \A list, r : E!Passed(list, r) = EP!Passed(list, r)
  BY <1>2, <1>4 DEF E!Passed, EP!Passed
<1>6. \A list, r : E!Found(list, r) <=> EP!Found(list, r)
  BY <1>4, <1>5 DEF E!Found, EP!Found
<1>7. \A k, scope : E!HasList(k, scope) <=> EP!HasList(k, scope)
  BY DEF E!HasList, EP!HasList
<1>8. \A k, scope : E!ListOf(k, scope) = EP!ListOf(k, scope)
  BY <1>7 DEF E!ListOf, EP!ListOf
<1>9. \A k, scope, list : E!SetList(k, scope, list) <=> EP!SetList(k, scope, list)
  BY DEF E!SetList, EP!SetList
<1>10. \A k, scope, r : E!Comparable(k, scope, r) = EP!Comparable(k, scope, r)
  <2>1. \A s : E!ToSet(s) = EP!ToSet(s)
    BY DEF E!ToSet, EP!ToSet
  <2>2. \A D : E!Ordered(D) = EP!Ordered(D)
    BY <1>4 DEF E!Ordered, EP!Ordered
  <2>3. QED
    BY <1>8, <2>1, <2>2 DEF E!Comparable, EP!Comparable
<1>11. E!Entries = EP!Entries
  BY <1>1, <1>8 DEF E!Entries, EP!Entries
<1>12. QED
  BY <1>1, <1>2, <1>3, <1>4, <1>5, <1>6, <1>7, <1>8, <1>9, <1>10, <1>11

LEMMA SameAnnouncements ==
  /\ E!Top = EP!Top /\ (E!Walking <=> EP!Walking) /\ (E!Through <=> EP!Through)
  /\ E!CallerRuns <=> EP!CallerRuns
  /\ E!Front(announcing) = EP!Front(announcing)
  /\ \A k, type : E!Begun(k, type) = EP!Begun(k, type)
  /\ (E!Ends <=> EP!Ends) /\ (E!ListsChange <=> EP!ListsChange)
<1>1. E!Top = EP!Top
  BY DEF E!Top, EP!Top, E!Last, EP!Last
<1>2. E!Walking <=> EP!Walking
  BY <1>1, SameLists DEF E!Walking, EP!Walking
<1>3. /\ (E!Ends <=> EP!Ends) /\ (E!Through <=> EP!Through)
      /\ (E!CallerRuns <=> EP!CallerRuns)
  BY <1>1, <1>2 DEF E!Ends, EP!Ends, E!Through, EP!Through, E!CallerRuns, EP!CallerRuns
<1>4. E!Front(announcing) = EP!Front(announcing)
  BY DEF E!Front, EP!Front
<1>5. \A D : E!Cardinality(D) = EP!Cardinality(D)
  BY DEF E!Cardinality, EP!Cardinality
<1>6. \A k, type : E!Owed(k, type) = EP!Owed(k, type)
  BY <1>5 DEF E!Owed, EP!Owed
<1>7. \A k, type : E!Begun(k, type) = EP!Begun(k, type)
  BY <1>6 DEF E!Begun, EP!Begun
<1>8. E!ListsChange <=> EP!ListsChange
  BY DEF E!ListsChange, EP!ListsChange
<1>9. QED
  BY <1>1, <1>2, <1>3, <1>4, <1>7, <1>8

LEMMA SameManager ==
  /\ E!ConstantsOK => EP!ConstantsOK
  /\ E!Init => EP!Init
  /\ E!Next => EP!Next
  /\ EP!Registered => E!Registered
  /\ EP!ToldAsRegistered => E!ToldAsRegistered
<1>1. /\ E!Kinds = EP!Kinds /\ E!Scopes = EP!Scopes /\ E!Empty = EP!Empty
      /\ E!Top = EP!Top /\ (E!CallerRuns <=> EP!CallerRuns)
      /\ \A D : E!Cardinality(D) = EP!Cardinality(D)
  BY SameLists, SameAnnouncements DEF E!Empty, EP!Empty, E!Cardinality, EP!Cardinality
<1>2. /\ E!event_manager_init => EP!event_manager_init
      /\ E!event_manager_destroy => EP!event_manager_destroy
  BY <1>1 DEF E!event_manager_init, EP!event_manager_init,
     E!event_manager_destroy, EP!event_manager_destroy
<1>3. /\ E!Notify => EP!Notify
      /\ E!NotifyType => EP!NotifyType
      /\ E!announce_event_returns => EP!announce_event_returns
  BY SameAnnouncements DEF E!Notify, EP!Notify, E!NotifyType, EP!NotifyType,
     E!announce_event_returns, EP!announce_event_returns
<1>4. \A k \in E!Kinds, type \in EventTypes : E!announce_event(k, type) => EP!announce_event(k, type)
  BY SameAnnouncements DEF E!announce_event, EP!announce_event
<1>5. \A k \in E!Kinds, scope \in E!Scopes : E!RegisterNoMemory(k, scope) => EP!RegisterNoMemory(k, scope)
  BY <1>1, SameLists, SameAnnouncements DEF E!RegisterNoMemory, EP!RegisterNoMemory
<1>6. \A k \in E!Kinds, scope \in E!Scopes, r \in Registrants :
        E!Register(k, scope, r) => EP!Register(k, scope, r)
  BY <1>1, SameLists, SameAnnouncements DEF E!Register, EP!Register
<1>7. \A k \in E!Kinds, scope \in E!Scopes, r \in Registrants :
        E!UnRegister(k, scope, r) => EP!UnRegister(k, scope, r)
  BY <1>1, SameLists, SameAnnouncements DEF E!UnRegister, EP!UnRegister
<1>8. E!Next => EP!Next
  BY <1>1, <1>2, <1>3, <1>4, <1>5, <1>6, <1>7 DEF E!Next, EP!Next
<1>9. (E!ConstantsOK => EP!ConstantsOK) /\ (E!Init => EP!Init)
  BY <1>1 DEF E!ConstantsOK, EP!ConstantsOK, E!Init, EP!Init
<1>10. EP!Registered => E!Registered
  <2>1. \A s : E!IsInjective(s) <=> EP!IsInjective(s)
    BY DEF E!IsInjective, EP!IsInjective
  <2>2. QED
    BY <2>1, SameLists, Zenon
       DEF E!Registered, EP!Registered, E!already_registered,
       EP!already_registered
<1>11. EP!ToldAsRegistered => E!ToldAsRegistered
  BY <1>1, SameAnnouncements DEF E!ToldAsRegistered, EP!ToldAsRegistered
<1>12. QED
  BY <1>8, <1>9, <1>10, <1>11

\* In either case a behaviour of the containers is one of the manager.
LEMMA EventBehaviour ==
  ASSUME E!ConstantsOK
  PROVE  /\ Spec /\ kind = "events" => EP!Spec
         /\ Spec /\ ~(kind = "events") => []~(kind = "events")
<1>1. Init /\ kind = "events" => EP!Init
  BY SameManager DEF Init
<1>2. kind = "events" /\ [Next]_vars => (kind = "events")' /\ [EP!Next]_EP!vars
  BY OneKind, SameManager DEF eventVars, EP!vars
<1>3. ~(kind = "events") /\ [Next]_vars => ~(kind = "events")'
  BY OneKind, Zenon
<1>4. QED
  BY <1>1, <1>2, <1>3, PTL DEF Spec, EP!Spec

\* Whoever has registered and not unregistered since is found registered,
\* nobody else is, and no list has anybody twice, as long as the comparison
\* has ordered those it was used on, and orders those asked for.
THEOREM RegistrantsKept ==
  ASSUME E!ConstantsOK
  PROVE  Spec => []EventRegistered
<1>1. EP!Spec => []EP!Registered
  BY SameManager, EP!WhoIsRegistered
<1>2. /\ EP!Registered => EventRegistered
      /\ ~(kind = "events") => EventRegistered
  BY SameManager DEF EventRegistered
<1>3. QED
  BY <1>1, <1>2, EventBehaviour, PTL

\* An announcement calls each registrant once for each registration that
\* matched when it began, unless a list was changed under it (by a callback,
\* after one had announced) or registrants have compared out of order.
THEOREM RegistrantsTold ==
  ASSUME E!ConstantsOK
  PROVE  Spec => []EventToldAsRegistered
<1>1. EP!Spec => []EP!ToldAsRegistered
  BY SameManager, EP!ToldOnce
<1>2. /\ EP!ToldAsRegistered => EventToldAsRegistered
      /\ ~(kind = "events") => EventToldAsRegistered
  BY SameManager DEF EventToldAsRegistered
<1>3. QED
  BY <1>1, <1>2, EventBehaviour, PTL
=============================================================================
