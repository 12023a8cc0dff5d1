--------------------------- MODULE GrowableArray ---------------------------
(***************************************************************************)
(* The containers of frt.c that keep their elements in one block that      *)
(* doubles: Vector (642-763), StringBuilder (766-857), Set (1105-1179) and *)
(* SortedVec (1278-1367).  Each call is one step; a container has a single *)
(* owner.  The comparator that svec_new stores is read by no call, so that *)
(* it is not part of the state.                                            *)
(***************************************************************************)
EXTENDS Integers, Sequences, FiniteSetsExt

CONSTANTS
  Words,    \* The words a program stores: naturals other than 0.
  Strings,  \* The strings it appends to a builder: sequences of words.
  Indices,  \* The indices it asks for.
  FirstCap, \* The first capacity (8 words, 64 bytes for a builder).
  MaxCap,   \* Bound: realloc provides no larger block.
  Garbage   \* What memory holds before it is written.

VARIABLES
  kind,   \* "vector", "builder", "set" or "sorted"
  state,  \* "null": no container; "fault": it wrote through a null block.
  data,   \* The block: a function on 0 .. cap-1.
  len,
  cap,
  answer  \* What the last call returned: a string, or <<the number>>, where a
          \* null pointer is the number 0.

block == <<data, len, cap>>
vars == <<kind, state, block, answer>>

Terminator == 0

Malloc(n) == [i \in 0 .. n-1 |-> Garbage]
Realloc(n) == [i \in 0 .. n-1 |-> IF i < cap THEN data[i] ELSE Garbage]

Open(k) == state = "open" /\ kind = k
Answers(a) == answer' = a /\ UNCHANGED <<kind, state, block>>
Reads(v) == Answers(<<v>>)
\* The call changes the block alone, and returns v.
Returns(v) == answer' = <<v>> /\ UNCHANGED <<kind, state>>
Fault == state' = "fault" /\ UNCHANGED <<kind, block, answer>>

Init ==
  /\ state = "null" /\ data = Malloc(0)
  /\ len = 0 /\ cap = 0 /\ answer = << >>

\* vec_new takes the capacity asked for, if its malloc provides it, or none;
\* svec_new writes to what calloc returned.
New ==
  /\ state = "null"
  /\ \/ /\ state' = "open" /\ UNCHANGED <<len, kind, answer>>
        /\ cap' \in IF kind = "vector" THEN 0 .. MaxCap ELSE {0}
        /\ data' = Malloc(cap')
     \/ /\ state' = (IF kind = "sorted" THEN "fault" ELSE "null")
        /\ UNCHANGED <<kind, block, answer>>

\* The calls on a null pointer; sb_build answers strdup("").
Refuse ==
  /\ state = "null"
  /\ \/ \E v \in {0, -1} : Reads(v)
     \/ kind = "builder" /\ Answers(<< >>)

Free ==
  /\ state = "open" /\ state' = "null"
  /\ data' = Malloc(0) /\ len' = 0 /\ cap' = 0
  /\ UNCHANGED <<kind, answer>>

\* cap ? cap * 2 : FirstCap
Doubled == IF cap = 0 THEN FirstCap ELSE 2 * cap

\* while (nc < need) nc *= 2;
Fitting(need) ==
  LET nc[k \in 0 .. need] == IF k = 0 THEN Doubled ELSE 2 * nc[k - 1]
  IN  nc[Min({k \in 0 .. need : nc[k] >= need})]

\* The call writes the block r, of n words, up to index l.
Writes(r, n, l) == data' = r /\ cap' = n /\ len' = l
-----------------------------------------------------------------------------
\* vec_push and sb_append return -1 and keep the block they have.
NoMemory == Reads(-1)

VecPush(w) ==
  /\ Open("vector")
  /\ LET n == IF len < cap THEN cap ELSE Doubled IN
     \/ /\ n <= MaxCap
        /\ Writes([Realloc(n) EXCEPT ![len] = w], n, len + 1) /\ Returns(0)
     \/ n # cap /\ NoMemory

VecGet(i) == Open("vector") /\ Reads(IF i < len THEN data[i] ELSE 0)

VecSet(i, w) ==
  /\ Open("vector")
  /\ \/ i < len /\ Writes([data EXCEPT ![i] = w], cap, len) /\ Returns(0)
     \/ i >= len /\ Reads(-1)

VecPop ==
  /\ Open("vector")
  /\ \/ len > 0 /\ Writes(data, cap, len - 1) /\ Returns(data[len - 1])
     \/ len = 0 /\ Reads(-1)

\* memmove of the n words from index `from` to index `to`.
Moved(d, to, from, n) ==
  [i \in DOMAIN d |-> IF i \in to .. to + n - 1 THEN d[from + i - to] ELSE d[i]]

VecRemove(i) ==
  /\ Open("vector")
  /\ \/ /\ i < len
        /\ Writes(Moved(data, i, i + 1, len - i - 1), cap, len - 1) /\ Returns(data[i])
     \/ i >= len /\ Reads(-1)

VecContains(w) ==
  Open("vector") /\ Reads(IF \E i \in 0 .. len - 1 : data[i] = w THEN 1 ELSE 0)

VecClear == Open("vector") /\ Writes(data, cap, 0) /\ Returns(0)
-----------------------------------------------------------------------------
\* sb_append, and the appends of a char, an int and a float, which format
\* into a string first.
SbAppend(s) ==
  /\ Open("builder")
  /\ LET need == len + Len(s) + 1
         n == IF need > cap THEN Fitting(need) ELSE cap
         d == [i \in 0 .. n-1 |->
                 IF i \in len .. len + Len(s) - 1 THEN s[i - len + 1]
                 ELSE IF i = len + Len(s) THEN Terminator ELSE Realloc(n)[i]]
     IN  \/ n <= MaxCap /\ Writes(d, n, len + Len(s)) /\ Returns(0)
         \/ n # cap /\ NoMemory

\* strdup stops at the first zero, or fails and answers a null pointer.
SbBuild ==
  /\ Open("builder")
  /\ \/ LET n == Min({i \in 0 .. cap : i = cap \/ data[i] = Terminator})
        IN  Answers([i \in 1 .. n |-> data[i - 1]])
     \/ Reads(0)

SbClear ==
  /\ Open("builder")
  /\ Writes([i \in DOMAIN data |-> IF i = 0 THEN Terminator ELSE data[i]], cap, 0)
  /\ Returns(0)
-----------------------------------------------------------------------------
\* The binary search of set_insert, set_contains, set_remove and svec_find.
LowerBound(w) ==
  LET search[r \in (0 .. len) \X (0 .. len)] ==
        LET mid == (r[1] + r[2]) \div 2
        IN  IF r[1] >= r[2] THEN r[1]
            ELSE IF data[mid] < w THEN search[<<mid + 1, r[2]>>] ELSE search[<<r[1], mid>>]
  IN  search[<<0, len>>]

\* Mutant: the word after the last is looked at too.
FoundAtInBlock(i, w) == i < cap /\ data[i] = w

FoundAt(i, w) == i < len /\ data[i] = w

\* Room for one more: the block after the growth that len >= cap asks for.
\* realloc's result is not checked.
Grown(n) == n = (IF len < cap THEN cap ELSE Doubled) /\ n <= MaxCap
InsertAt(i, n, w) ==
  Writes([Moved(Realloc(n), i + 1, i, len - i) EXCEPT ![i] = w], n, len + 1)

SetInsert(w) ==
  /\ Open("set")
  /\ LET i == LowerBound(w) IN
     \/ FoundAt(i, w) /\ Reads(0)
     \/ ~FoundAt(i, w) /\ \E n \in cap .. MaxCap : Grown(n) /\ InsertAt(i, n, w) /\ Returns(1)
     \/ ~FoundAt(i, w) /\ len >= cap /\ Fault

SetContains(w) == Open("set") /\ Reads(IF FoundAt(LowerBound(w), w) THEN 1 ELSE 0)

SetRemove(w) ==
  /\ Open("set")
  /\ LET i == LowerBound(w) IN
     \/ /\ FoundAt(i, w)
        /\ Writes(Moved(data, i, i + 1, len - i - 1), cap, len - 1) /\ Returns(1)
     \/ ~FoundAt(i, w) /\ Reads(0)

\* Mutant: the search for the place starts one word short.
PlaceFromBelow(w) == Max({i \in 0 .. len : i = 0 \/ (i < len /\ data[i - 1] <= w)})

\* The insertion of svec_push moves the larger words from the back.
Place(w) == Max({i \in 0 .. len : i = 0 \/ data[i - 1] <= w})

SvecPush(w) ==
  /\ Open("sorted")
  /\ \/ \E n \in cap .. MaxCap : Grown(n) /\ InsertAt(Place(w), n, w) /\ Returns(0)
     \/ len >= cap /\ Fault

SvecGet(i) == Open("sorted") /\ Reads(IF i < len THEN data[i] ELSE 0)

SvecIndex(w) == LET i == LowerBound(w) IN IF FoundAt(i, w) THEN i ELSE -1
SvecFind(w) == Open("sorted") /\ Reads(SvecIndex(w))

SvecRemove(w) ==
  /\ Open("sorted")
  /\ LET i == SvecIndex(w) IN
     \/ i >= 0 /\ Writes(Moved(data, i, i + 1, len - i - 1), cap, len - 1) /\ Returns(0)
     \/ i < 0 /\ Reads(-1)

Length == state = "open" /\ Reads(len)

Next ==
  \/ New \/ Refuse \/ Free \/ Length
  \/ \E w \in Words : VecPush(w) \/ VecContains(w)
  \/ \E i \in Indices : VecGet(i) \/ VecRemove(i) \/ \E w \in Words : VecSet(i, w)
  \/ VecPop \/ VecClear
  \/ \E s \in Strings : SbAppend(s)
  \/ SbBuild \/ SbClear
  \/ \E w \in Words : SetInsert(w) \/ SetContains(w) \/ SetRemove(w)
  \/ \E w \in Words : SvecPush(w) \/ SvecFind(w) \/ SvecRemove(w)
  \/ \E i \in Indices : SvecGet(i)
-----------------------------------------------------------------------------
Contents ==
  IF kind = "set" THEN {data[i] : i \in 0 .. len - 1} ELSE [i \in 1 .. len |-> data[i - 1]]

\* The block has cap words, those below len were written, a builder's string
\* ends with a zero inside it, and the ordered kinds are in order.
WellFormed ==
  /\ len \in 0 .. cap /\ cap \in 0 .. MaxCap
  /\ DOMAIN data = 0 .. cap - 1
  /\ \A i \in 0 .. len - 1 : data[i] \in Words
  /\ kind = "builder" /\ cap > 0 => len < cap /\ data[len] = Terminator
  /\ kind = "set" => \A i \in 1 .. len - 1 : data[i - 1] < data[i]
  /\ kind = "sorted" => \A i \in 1 .. len - 1 : data[i - 1] <= data[i]
=============================================================================
