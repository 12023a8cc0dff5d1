------------------------------ MODULE BitSets ------------------------------
(***************************************************************************)
(* Two BitSets of a program (frt.c:1182-1275) and the operations between   *)
(* them.  A bitset is a block of whole bytes, held here as the set of the  *)
(* numbers of its one bits, padding included.                              *)
(***************************************************************************)
EXTENDS Integers, FiniteSets

CONSTANTS
  Indices, \* The bit numbers a program asks for.
  Sizes,   \* The sizes it makes bitsets of.
  Byte     \* Bits of a byte (8).

VARIABLES
  kind,   \* "bits"
  state,  \* "null", "open", or "fault": a null block or header was written.
  bits,   \* bits[b]: the one bits of bitset b.
  sizes,  \* nbits
  hollow, \* The bitsets whose data calloc did not provide.
  clean,  \* Ghost: the bitsets in which no bit beyond nbits was ever set.
  answer

sets == <<bits, sizes, hollow, clean>>
vars == <<kind, state, sets, answer>>

Both == {1, 2}

Open == kind = "bits" /\ state = "open"
Reads(v) == answer' = <<v>> /\ UNCHANGED <<kind, state, sets>>
Holds(b, x, v) ==
  bits' = [bits EXCEPT ![b] = x] /\ answer' = <<v>> /\ UNCHANGED <<kind, state, sizes, hollow>>
Fault == state' = "fault" /\ UNCHANGED <<kind, sets, answer>>

Init ==
  /\ state = "null" /\ bits = <<{}, {}>> /\ sizes = <<0, 0>>
  /\ hollow = {} /\ clean = Both /\ answer = << >>

\* bitset_new twice.  The header is written unchecked, the block is not.
New ==
  /\ kind = "bits" /\ state = "null"
  /\ \/ /\ state' = "open" /\ sizes' \in [Both -> Sizes] /\ hollow' \in SUBSET Both
        /\ UNCHANGED <<kind, bits, clean, answer>>
     \/ Fault

Refuse == kind = "bits" /\ state = "null" /\ \E v \in {0, -1} : Reads(v)

Free ==
  /\ Open /\ state' = "null"
  /\ bits' = <<{}, {}>> /\ sizes' = <<0, 0>> /\ hollow' = {} /\ clean' = Both
  /\ UNCHANGED <<kind, answer>>

\* (nbits + 7) / 8
Bytes(b) == (sizes[b] + Byte - 1) \div Byte
OfBytes(n) == 0 .. Byte * n - 1

\* A call that reads or writes the block of b.
Touches(b) == Open /\ b \notin hollow
TouchFault(b) == Open /\ b \in hollow /\ Bytes(b) > 0 /\ Fault

\* bitset_set, bitset_clear and bitset_toggle leave x of the bits.
Change(b, i, x) ==
  \/ Open /\ i >= sizes[b] /\ Reads(-1)
  \/ Touches(b) /\ i < sizes[b] /\ Holds(b, x, 0) /\ UNCHANGED clean
SetBit(b, i) == Change(b, i, bits[b] \cup {i})
ClearBit(b, i) == Change(b, i, bits[b] \ {i})
Toggle(b, i) == Change(b, i, IF i \in bits[b] THEN bits[b] \ {i} ELSE bits[b] \cup {i})

GetBit(b, i) ==
  \/ Open /\ i >= sizes[b] /\ Reads(0)
  \/ Touches(b) /\ i < sizes[b] /\ Reads(IF i \in bits[b] THEN 1 ELSE 0)

CountBits(b) == Touches(b) /\ Reads(Cardinality(bits[b]))

\* bitset_not flips the padding too.
Complement(b) ==
  /\ Touches(b) /\ Holds(b, OfBytes(Bytes(b)) \ bits[b], 0)
  /\ clean' = IF sizes[b] % Byte = 0 THEN clean ELSE clean \ {b}

\* The addition is inside the conditional: (d < s ? d : s + 7) / 8.
SharedBytes == (IF sizes[1] < sizes[2] THEN sizes[1] ELSE sizes[2] + Byte - 1) \div Byte

Combined(op, x, y) ==
  CASE op = "and" -> x \cap y
    [] op = "or" -> x \cup y
    [] op = "xor" -> (x \ y) \cup (y \ x)

\* bitset_and, bitset_or and bitset_xor of the first set with the second.
Combine(op) ==
  LET reach == OfBytes(SharedBytes) IN
  /\ Touches(1) /\ Touches(2)
  /\ Holds(1, (bits[1] \ reach) \cup (Combined(op, bits[1], bits[2]) \cap reach), 0)
  /\ clean' = IF 2 \in clean THEN clean ELSE clean \ {1}

Next ==
  \/ New \/ Refuse \/ Free
  \/ \E b \in Both : Complement(b) \/ CountBits(b) \/ TouchFault(b)
  \/ \E b \in Both, i \in Indices :
       SetBit(b, i) \/ ClearBit(b, i) \/ Toggle(b, i) \/ GetBit(b, i)
  \/ \E op \in {"and", "or", "xor"} : Combine(op)
-----------------------------------------------------------------------------
Contents == [b \in Both |-> {i \in bits[b] : i < sizes[b]}]

\* No operation reaches beyond the block of a set, or leaves the padding of a
\* clean one.
WellFormed ==
  \A b \in Both :
    /\ bits[b] \subseteq OfBytes(Bytes(b))
    /\ b \in clean => bits[b] \subseteq 0 .. sizes[b] - 1
=============================================================================
