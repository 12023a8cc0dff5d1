----------------------------- MODULE Containers -----------------------------
(***************************************************************************)
(* One container of the runtime, of any kind, and the program that uses    *)
(* it: the modules of the kinds side by side, and the abstract collection  *)
(* that they all implement.                                                *)
(***************************************************************************)
EXTENDS Integers, Sequences, FiniteSets

CONSTANTS
  Words, Strings, Indices, FirstCap, MaxCap, Garbage, Heap, Sizes, Byte,
  Comparator  \* The pairs of words that the comparator given to svec_new has in order.

\* A zero ends a string, and is what a get beyond the end answers; addresses
\* are not null.
ASSUME DataAssumption ==
  /\ Words \subseteq Int \ {0} /\ Strings \subseteq Seq(Words)
  /\ Heap \subseteq Nat \ {0}
ASSUME SizesAssumption ==
  /\ FirstCap \in Nat \ {0} /\ MaxCap \in Nat
  /\ Indices \subseteq Nat /\ Sizes \subseteq Nat /\ Byte \in Nat \ {0}

VARIABLES kind, state, answer,
          data, len, cap,                  \* an array's block
          nodes, head, tail,               \* a list
          bits, sizes, hollow, clean       \* two bitsets

block == <<data, cap>>
links == <<nodes, head, tail>>
sets == <<bits, sizes, hollow, clean>>
vars == <<kind, state, answer, len, block, links, sets>>

Array == INSTANCE GrowableArray
List == INSTANCE LinkedLists
BitPair == INSTANCE BitSets

ArrayKinds == {"vector", "builder", "set", "sorted"}

Kinds == ArrayKinds \cup {"list", "bits"}

Init == kind \in Kinds /\ Array!Init /\ List!Init /\ BitPair!Init

Next ==
  \/ kind \in ArrayKinds /\ Array!Next /\ UNCHANGED <<links, sets>>
  \/ kind = "list" /\ List!Next /\ UNCHANGED <<block, sets>>
  \/ kind = "bits" /\ BitPair!Next /\ UNCHANGED <<len, block, links>>

Spec == Init /\ [][Next]_vars
-----------------------------------------------------------------------------
\* Every container keeps its representation in order: no access beyond the
\* block, no unordered set, no broken, leaked or freed node, no stray bit.
WellFormed ==
  /\ kind \in ArrayKinds => Array!WellFormed
  /\ kind = "list" => List!WellFormed
  /\ kind = "bits" => BitPair!WellFormed

\* What the container holds.
Contents ==
  CASE kind \in ArrayKinds -> Array!Contents
    [] kind = "list" -> List!Contents
    [] OTHER -> BitPair!Contents

Abstract == INSTANCE Collection WITH contents <- Contents

\* The comparator is the order of the numbers, the only one the code knows:
\* svec_new stores any other that it is given (README.md:171, frt.c:1277) and no
\* call reads it.
ByNumber == \A x, y \in Words : <<x, y>> \in Comparator <=> x <= y

\* Every call of every container answers and leaves what the collection it
\* stands for would (README.md:159-171), whether or not a block had to grow or
\* an allocation failed; of a SortedVec only if the comparator is ByNumber.
ImplementsCollection == Abstract!Spec
=============================================================================
