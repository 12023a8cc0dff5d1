----------------------------- MODULE Collection -----------------------------
(***************************************************************************)
(* What the containers of the runtime promise a C<< program (README.md:159 *)
(* to 171): Vector, StringBuilder and LinkedList are sequences, Set is a   *)
(* set, SortedVec a sequence in the order of its comparator and BitSet, of *)
(* which a program has two, a set of bit numbers.  answer is what the last *)
(* call returned: a string, or <<the number>>, 0 for a null pointer.       *)
(***************************************************************************)
EXTENDS Integers, SequencesExt

CONSTANTS
  Words,    \* The words a program stores.
  Strings,  \* The strings it appends to a builder.
  Indices,  \* The indices it asks for.
  Comparator, \* The pairs of words that its comparator has in order.
  Byte      \* Bits of a byte.

VARIABLES
  kind,     \* "vector", "builder", "list", "set", "sorted" or "bits"
  state,    \* "null", "open", or "fault" after a failed, unchecked allocation
  contents, \* What the container holds.
  sizes,    \* The sizes of the two bitsets.
  clean,    \* The bitsets whose padding, the bits of the last byte beyond
            \* the size, was never set.
  answer

vars == <<kind, state, contents, sizes, clean, answer>>

Sequential == {"vector", "builder", "list"}
\* The containers whose code writes through an allocation that failed.
Unchecked == {"list", "set", "sorted", "bits"}

Nothing ==
  CASE kind = "set" -> {}
    [] kind = "bits" -> <<{}, {}>>
    [] OTHER -> << >>

Open(k) == state = "open" /\ kind \in k
Answers(a) == answer' = a /\ UNCHANGED <<kind, state, contents, sizes, clean>>
Reads(v) == Answers(<<v>>)
Returns(v) == answer' = <<v>> /\ UNCHANGED <<kind, state, sizes, clean>>
Holds(c, v) == contents' = c /\ Returns(v)

Init == state = "null" /\ contents = Nothing /\ clean = {1, 2} /\ answer = << >>

New ==
  /\ state = "null"
  /\ state' \in {"null", "open"}
  /\ contents' = Nothing /\ clean' = {1, 2}
  /\ UNCHANGED <<kind, answer>>

\* A call on a null container answers 0 or -1, or the empty string.
Refuse ==
  /\ state = "null"
  /\ \/ \E v \in {0, -1} : Reads(v)
     \/ kind = "builder" /\ Answers(<< >>)

Free ==
  /\ state = "open" /\ state' = "null"
  /\ contents' = Nothing /\ clean' = {1, 2}
  /\ UNCHANGED <<kind, answer>>

Fault ==
  /\ kind \in Unchecked
  /\ state # "fault" /\ state' = "fault"
  /\ UNCHANGED <<kind, contents, sizes, clean, answer>>

\* Adding takes effect and answers 0, or answers -1 and changes nothing.
PushBack(w) == Open({"vector", "list"}) /\ (Holds(Append(contents, w), 0) \/ Reads(-1))
PushFront(w) == Open({"list"}) /\ Holds(<<w>> \o contents, 0)
AppendString(s) == Open({"builder"}) /\ (Holds(contents \o s, 0) \/ Reads(-1))

\* An empty container answers -1 to a pop; else the answer is the word.
PopBack ==
  /\ Open({"vector", "list"})
  /\ IF contents = << >> THEN Reads(-1) ELSE Holds(Front(contents), Last(contents))
PopFront ==
  /\ Open({"list"})
  /\ IF contents = << >> THEN Reads(-1) ELSE Holds(Tail(contents), Head(contents))

Get(i) ==
  /\ Open({"vector", "list", "sorted"})
  /\ Reads(IF i < Len(contents) THEN contents[i + 1] ELSE 0)
SetAt(i, w) ==
  /\ Open({"vector"})
  /\ IF i < Len(contents) THEN Holds([contents EXCEPT ![i + 1] = w], 0) ELSE Reads(-1)
RemoveIndex(i) ==
  /\ Open({"vector"})
  /\ IF i < Len(contents) THEN Holds(RemoveAt(contents, i + 1), contents[i + 1]) ELSE Reads(-1)
\* The string built, or a null pointer when there is no memory for it.
Build == Open({"builder"}) /\ (Answers(contents) \/ Reads(0))
Clear == Open(Sequential) /\ Holds(<< >>, 0)
Length ==
  /\ Open(Sequential \cup {"set", "sorted"})
  /\ Reads(IF kind = "set" THEN Cardinality(contents) ELSE Len(contents))
HasWord(w) ==
  /\ Open({"vector", "set"})
  /\ Reads(IF w \in (IF kind = "set" THEN contents ELSE ToSet(contents)) THEN 1 ELSE 0)

InsertWord(w) ==
  Open({"set"}) /\ Holds(contents \cup {w}, IF w \in contents THEN 0 ELSE 1)
RemoveWord(w) ==
  Open({"set"}) /\ Holds(contents \ {w}, IF w \in contents THEN 1 ELSE 0)

InOrder(c) == \A i, j \in DOMAIN c : i < j => <<c[i], c[j]>> \in Comparator
Count(c, w) == Cardinality({i \in DOMAIN c : c[i] = w})
InsertSorted(w) ==
  /\ Open({"sorted"}) /\ Returns(0)
  /\ Len(contents') = Len(contents) + 1 /\ InOrder(contents')
  /\ \A x \in Words : Count(contents', x) = Count(contents, x) + (IF x = w THEN 1 ELSE 0)
\* The answer to a find is the index of the first such word.
First(w) ==
  IF w \in ToSet(contents) THEN Min({i \in DOMAIN contents : contents[i] = w}) - 1 ELSE -1
Find(w) == Open({"sorted"}) /\ Reads(First(w))
RemoveSorted(w) ==
  /\ Open({"sorted"})
  /\ IF w \in ToSet(contents) THEN Holds(RemoveAt(contents, First(w) + 1), 0) ELSE Reads(-1)
-----------------------------------------------------------------------------
BitNumbers(b) == 0 .. sizes[b] - 1
\* The set has no padding.
Whole(b) == sizes[b] % Byte = 0

SetBit(b, i, in) ==
  /\ Open({"bits"})
  /\ IF i \in BitNumbers(b)
     THEN Holds([contents EXCEPT ![b] = IF in THEN @ \cup {i} ELSE @ \ {i}], 0)
     ELSE Reads(-1)
Toggle(b, i) == SetBit(b, i, i \notin contents[b])
GetBit(b, i) == Open({"bits"}) /\ Reads(IF i \in contents[b] THEN 1 ELSE 0)
Complement(b) ==
  /\ Open({"bits"})
  /\ contents' = [contents EXCEPT ![b] = BitNumbers(b) \ @]
  /\ clean' = IF Whole(b) THEN clean ELSE clean \ {b}
  /\ answer' = <<0>> /\ UNCHANGED <<kind, state, sizes>>

\* Counting is exact in a clean set; in another the padding may be counted.
CountBits(b) ==
  /\ Open({"bits"}) /\ UNCHANGED <<kind, state, sizes, clean, contents>>
  /\ answer'[1] >= Cardinality(contents[b])
  /\ b \in clean => answer' = <<Cardinality(contents[b])>>

Combined(op, x, y) ==
  CASE op = "and" -> x \cap y
    [] op = "or" -> x \cup y
    [] op = "xor" -> (x \ y) \cup (y \ x)

\* The bits that both sets have are combined exactly, but for the last byte of
\* a smaller first set if the size ends inside it (see the hazards).  What the
\* first set has beyond the second may stay as it is; nothing is promised of it
\* where the second holds padding.
Excepted ==
  {i \in BitNumbers(1) :
     \/ sizes[1] < sizes[2] /\ i >= Byte * (sizes[1] \div Byte)
     \/ i \notin BitNumbers(2)}
Combine(op) ==
  /\ Open({"bits"})
  /\ \E c \in SUBSET BitNumbers(1) :
       /\ contents' = [contents EXCEPT ![1] = c]
       /\ \A i \in BitNumbers(1) :
            \/ i \in c <=> i \in Combined(op, contents[1], contents[2])
            \/ i \in Excepted /\ (i \in c <=> i \in contents[1])
            \/ 2 \notin clean /\ i \notin BitNumbers(2)
  /\ clean' = IF 2 \in clean THEN clean ELSE clean \ {1}
  /\ answer' = <<0>> /\ UNCHANGED <<kind, state, sizes>>

Next ==
  \/ New \/ Refuse \/ Free \/ Fault
  \/ \E w \in Words : PushBack(w) \/ PushFront(w) \/ HasWord(w)
  \/ \E w \in Words : InsertWord(w) \/ RemoveWord(w) \/ InsertSorted(w) \/ Find(w) \/ RemoveSorted(w)
  \/ \E s \in Strings : AppendString(s)
  \/ PopBack \/ PopFront \/ Build \/ Clear \/ Length
  \/ \E i \in Indices : Get(i) \/ RemoveIndex(i) \/ \E w \in Words : SetAt(i, w)
  \/ \E b \in {1, 2} : Complement(b) \/ CountBits(b)
  \/ \E b \in {1, 2}, i \in Indices : SetBit(b, i, TRUE) \/ SetBit(b, i, FALSE) \/ Toggle(b, i) \/ GetBit(b, i)
  \/ \E op \in {"and", "or", "xor"} : Combine(op)

Spec == Init /\ [][Next]_vars
=============================================================================
