----------------------------- MODULE TlvManager -----------------------------
(***************************************************************************)
(* tlv_manager.c: type-length-value triples appended to a buffer of the    *)
(* caller's and parsed out of one.  It takes no lock: one thread uses it.  *)
(* A cell of the buffer is sizeof(unsigned int) bytes and holds an         *)
(* integer; htonl and ntohl undo each other and are left out.              *)
(***************************************************************************)
EXTENDS Integers, SequencesExt

CONSTANTS
  Buffers,             \* the buffers attached: to be filled, or received
  Types,               \* types the callers append
  Values,              \* values they append: sequences of integers
  MAX_TLV_VALUE_BYTES

TLV_END_TYPE == -1

\* What is received is anything, and an append takes a value of any length,
\* those that a parse refuses with the others.
ConstantsOK ==
  /\ Buffers \subseteq Seq(Int) /\ Types \subseteq Nat
  /\ Values \subseteq Seq(Int) /\ MAX_TLV_VALUE_BYTES \in Nat

VARIABLES
  buffer, idx, remaining_size, n_tlvs,   \* fields of tlvm_t
  tlvs,      \* what a parse stored: type, value
  written,   \* history: the triples appended since one was last written at
             \* the buffer's start
  lost       \* history: how many had been parsed when that was written, which
             \* tlvm_parse_engine's comment has it continue: it goes over them

vars == <<buffer, idx, remaining_size, n_tlvs, tlvs, written, lost>>

buf_size == Len(buffer)

\* tlvm_attach, with an empty buffer, and tlvm_detach.
Init ==
  /\ buffer = <<>> /\ idx = 0 /\ remaining_size = 0
  /\ n_tlvs = 0 /\ tlvs = <<>> /\ written = <<>> /\ lost = 0

tlvm_attach(contents) ==
  /\ buffer = <<>>
  /\ buffer' = contents
  /\ idx' = 0 /\ remaining_size' = Len(contents)
  /\ n_tlvs' = 0 /\ tlvs' = <<>> /\ written' = <<>> /\ lost' = 0

tlvm_detach ==
  /\ buffer' = <<>>
  /\ idx' = 0 /\ remaining_size' = 0
  /\ n_tlvs' = 0 /\ tlvs' = <<>> /\ written' = <<>> /\ lost' = 0

\* tlvm_reset: the buffer stays as it is.
tlvm_reset ==
  /\ idx' = 0 /\ remaining_size' = buf_size
  /\ n_tlvs' = 0 /\ tlvs' = <<>>
  /\ UNCHANGED <<buffer, written, lost>>

\* Mutant: the next append leaves the end type in place.
AppendKeepsEnd(type, value) ==
  LET size == Len(value) + 3
      encoded == <<type, Len(value)>> \o value \o <<TLV_END_TYPE>>
  IN /\ buffer # <<>> /\ size <= remaining_size
     /\ buffer' = [i \in 1..buf_size |->
                     IF i - idx \in DOMAIN encoded THEN encoded[i - idx] ELSE buffer[i]]
     /\ idx' = idx + size
     /\ remaining_size' = remaining_size - size
     /\ n_tlvs' = n_tlvs + 1
     /\ written' = Append(IF idx = 0 THEN <<>> ELSE written, <<type, value>>)
     /\ lost' = IF idx = 0 THEN n_tlvs ELSE lost
     /\ UNCHANGED tlvs

\* Type, length, value and the end type, which the next append overwrites.
\* At the start of the buffer it replaces what was there, and n_tlvs goes on
\* counting what a parse had found of that.
tlvm_append(type, value) ==
  LET size == Len(value) + 3
      encoded == <<type, Len(value)>> \o value \o <<TLV_END_TYPE>>
  IN /\ buffer # <<>> /\ size <= remaining_size
     /\ buffer' = [i \in 1..buf_size |->
                     IF i - idx \in DOMAIN encoded THEN encoded[i - idx] ELSE buffer[i]]
     /\ idx' = idx + size - 1
     /\ remaining_size' = remaining_size - (size - 1)
     /\ n_tlvs' = n_tlvs + 1
     /\ written' = Append(IF idx = 0 THEN <<>> ELSE written, <<type, value>>)
     /\ lost' = IF idx = 0 THEN n_tlvs ELSE lost
     /\ UNCHANGED tlvs

-----------------------------------------------------------------------------
(***************************************************************************)
(* tlvm_parse_engine from cell p (counted from 0) on, when the array of    *)
(* triples can still be extended mem times: the triples found, the errno   *)
(* and where it stopped.  The bounds are those of the code: a cell that is *)
(* the last of the buffer is not read.                                     *)
(***************************************************************************)
Stop(rc, p) == [rc |-> rc, at |-> p, found |-> <<>>]

\* The value at p, which the code does not hold against the buffer's end.
ValueAt(p, length) == SubSeq(buffer, p + 1, Min({p + length, buf_size}))

ParseFrom ==
  LET parse[from \in (0..(2 * buf_size + MAX_TLV_VALUE_BYTES)) \X (0..buf_size)] ==
        LET p == from[1]
            mem == from[2]
        IN
        IF p >= buf_size THEN Stop("ok", p)
        ELSE IF p + 1 >= buf_size THEN Stop("ENOSPC", p)
        ELSE IF buffer[p + 1] = TLV_END_TYPE THEN Stop("ok", p)
        ELSE IF p + 2 >= buf_size THEN Stop("ENOSPC", p)
        ELSE IF buffer[p + 2] \notin 1..MAX_TLV_VALUE_BYTES THEN Stop("EINVAL", p)
        ELSE IF mem = 0 THEN Stop("ENOMEM", p)
        ELSE LET length == buffer[p + 2]
                 rest == parse[<<p + 2 + length, mem - 1>>]
             IN [rest EXCEPT !.found =
                   <<<<buffer[p + 1], ValueAt(p + 2, length)>>>> \o @]
  IN parse

\* The write index is back at 0 in either case; remaining_size is set only
\* by a parse that gets to the end.
Parse(mem, store) ==
  LET result == ParseFrom[<<0, mem>>]
  IN /\ buffer # <<>>
     /\ idx' = 0
     /\ remaining_size' = IF result.rc = "ok" THEN buf_size - result.at
                                               ELSE buf_size
     /\ n_tlvs' = Len(result.found)
     /\ tlvs' = IF store THEN result.found ELSE <<>>
     /\ UNCHANGED <<buffer, written, lost>>

tlvm_parse(mem) == Parse(mem, TRUE)
tlvm_reset_to_append == Parse(buf_size, FALSE)

Next ==
  \/ \E contents \in Buffers : tlvm_attach(contents)
  \/ tlvm_detach \/ tlvm_reset \/ tlvm_reset_to_append
  \/ \E mem \in 0..buf_size : tlvm_parse(mem)
  \/ \E type \in Types, v \in Values : tlvm_append(type, v)

Spec == Init /\ [][Next]_vars

-----------------------------------------------------------------------------
\* What a parse takes of the triples: those before the first of a length that
\* it refuses.
Taken(triples) ==
  LET refused == {i \in DOMAIN triples :
                    Len(triples[i][2]) \notin 1..MAX_TLV_VALUE_BYTES}
  IN IF refused = {} THEN triples ELSE SubSeq(triples, 1, Min(refused) - 1)

\* A parse finds the triples appended since the buffer's start was last
\* written, in order and whole, up to the first that append takes and a parse
\* refuses, and reports an error then; otherwise it reports none, unless the
\* end type is in the buffer's very last cell, of which nothing is said.  While
\* triples are appended they are counted, with those lost to the first of
\* them; and the room accounted for is in the buffer.
RoundTrip ==
  /\ idx + remaining_size <= buf_size
  /\ idx # 0 => n_tlvs = Len(written) + lost
  /\ written # <<>> =>
       LET parsed == ParseFrom[<<0, buf_size>>]
       IN /\ parsed.found = Taken(written)
          /\ IF Taken(written) # written THEN parsed.rc = "EINVAL"
             ELSE parsed.at # buf_size - 1 => parsed.rc = "ok"
=============================================================================
