--------------------------- MODULE HashMapProofs ---------------------------
(***************************************************************************)
(* The table of HashMap keeps its counts, its load bound and the end of    *)
(* every probe for all keys, hash functions, capacities and allocation     *)
(* failures.  For a program that removes no key and whose strdup never     *)
(* fails it implements the dictionary of KeyValueMap; and every program    *)
(* reads its own last write.                                               *)
(***************************************************************************)
EXTENDS HashMap, FiniteSetTheorems, FunctionTheorems, TLAPS

-----------------------------------------------------------------------------
(***************************************************************************)
(* Facts about slots and probes.                                           *)
(***************************************************************************)

\* A set of naturals that is not empty has a least element.
LEMMA LeastNatural ==
  ASSUME NEW T \in SUBSET Nat, T # {}
  PROVE  \E x \in T : \A y \in T : x <= y
<1>1. PICK x \in T : \A y \in T : ~(<<y, x>> \in OpToRel(<, Nat))
  BY NatLessThanWellFounded, WFMin, Zenon
<1>2. \A y \in T : ~(y < x)
  BY <1>1 DEF OpToRel
<1> QED
  BY <1>2

\* Reducing a number below 2n mod n subtracts n at most once.
LEMMA ModWrap ==
  ASSUME NEW n \in Nat \ {0}, NEW x \in 0 .. 2*n - 1
  PROVE  x % n = IF x < n THEN x ELSE x - n
  OBVIOUS

\* Every step of a probe lands in the table.
LEMMA NthInTable ==
  ASSUME NEW n \in Nat \ {0}, NEW k \in Keys, NEW d \in Nat
  PROVE  Nth(k, n, d) \in 0 .. n-1
  BY HashAssumption DEF Nth

\* The probe of a key visits every slot.
LEMMA NthReaches ==
  ASSUME NEW n \in Nat \ {0}, NEW k \in Keys, NEW i \in 0 .. n-1
  PROVE  \E d \in 0 .. n-1 : Nth(k, n, d) = i
<1> DEFINE h == Hash[k] % n
           d == IF i >= h THEN i - h ELSE i + n - h
<1>1. h \in 0 .. n-1
  BY HashAssumption
<1> HIDE DEF h
<1>2. d \in 0 .. n-1 /\ h + d \in 0 .. 2*n - 1
  BY <1>1
<1>3. (h + d) % n = i
  BY <1>1, <1>2, ModWrap
<1>4. Nth(k, n, d) = i
  BY <1>3 DEF Nth, h
<1> QED
  BY <1>2, <1>4

\* The occupied slots of an array of n are finite, at most n.
LEMMA OccupiedFinite ==
  ASSUME NEW n \in Nat, NEW t, DOMAIN t = 0 .. n-1
  PROVE  /\ IsFiniteSet(Occupied(t))
         /\ Cardinality(Occupied(t)) \in Nat
         /\ Cardinality(Occupied(t)) <= n
         /\ Occupied(t) \subseteq 0 .. n-1
<1>1. IsFiniteSet(0 .. n-1) /\ Cardinality(0 .. n-1) = n
  BY FS_Interval
<1>2. Occupied(t) \subseteq 0 .. n-1
  BY DEF Occupied
<1> QED
  BY <1>1, <1>2, FS_Subset, FS_CardinalityType

\* An array with fewer than n occupied slots has an empty one.
LEMMA EmptySlotExists ==
  ASSUME NEW n \in Nat, NEW t, DOMAIN t = 0 .. n-1,
         Cardinality(Occupied(t)) < n
  PROVE  \E i \in 0 .. n-1 : t[i] = NULL
<1> SUFFICES ASSUME \A i \in 0 .. n-1 : t[i] # NULL
             PROVE  FALSE
  OBVIOUS
<1>1. Occupied(t) = 0 .. n-1
  BY DEF Occupied
<1>2. Cardinality(0 .. n-1) = n
  BY FS_Interval
<1> QED
  BY <1>1, <1>2

\* In a table that is not full every probe reaches an empty slot.
LEMMA ProbeReachesEmpty ==
  ASSUME NEW n \in Nat, NEW t, DOMAIN t = 0 .. n-1,
         Cardinality(Occupied(t)) < n, NEW k \in Keys
  PROVE  \E d \in 0 .. n-1 : FreeAt(t, n, k, d)
<1>1. PICK i \in 0 .. n-1 : t[i] = NULL
  BY EmptySlotExists
<1>2. n \in Nat \ {0}
  BY <1>1
<1>3. PICK d \in 0 .. n-1 : Nth(k, n, d) = i
  BY <1>2, NthReaches
<1> QED
  BY <1>1, <1>3 DEF FreeAt

\* A probe that can stop does stop, at an empty slot or at its key.
LEMMA ProbeStops ==
  ASSUME NEW n \in Nat, NEW t, NEW k \in Keys,
         \E d \in 0 .. n-1 : StopsAt(t, n, k, d)
  PROVE  /\ Probe(t, n, k) \in 0 .. n-1
         /\ t[Probe(t, n, k)] \in {NULL, k}
<1> DEFINE T == {d \in 0 .. n-1 : StopsAt(t, n, k, d)}
<1>1. T \in SUBSET Nat /\ T # {}
  OBVIOUS
<1>2. PICK m \in T : \A y \in T : m <= y
  BY <1>1, LeastNatural
<1>3. /\ m \in 0 .. n-1 /\ StopsAt(t, n, k, m)
      /\ \A e \in 0 .. m-1 : ~StopsAt(t, n, k, e)
  BY <1>2
<1>4. /\ ProbeLength(t, n, k) \in 0 .. n-1
      /\ StopsAt(t, n, k, ProbeLength(t, n, k))
  BY <1>3 DEF ProbeLength
<1>5. n \in Nat \ {0}
  BY <1>3
<1> QED
  BY <1>4, <1>5, NthInTable DEF Probe, StopsAt

LEMMA FreeSlotIsEmpty ==
  ASSUME NEW n \in Nat, NEW t, NEW k \in Keys,
         \E d \in 0 .. n-1 : FreeAt(t, n, k, d)
  PROVE  /\ FreeSlot(t, n, k) \in 0 .. n-1
         /\ t[FreeSlot(t, n, k)] = NULL
<1> DEFINE T == {d \in 0 .. n-1 : FreeAt(t, n, k, d)}
<1>1. T \in SUBSET Nat /\ T # {}
  OBVIOUS
<1>2. PICK m \in T : \A y \in T : m <= y
  BY <1>1, LeastNatural
<1>3. /\ m \in 0 .. n-1 /\ FreeAt(t, n, k, m)
      /\ \A e \in 0 .. m-1 : ~FreeAt(t, n, k, e)
  BY <1>2
<1>4. /\ FreeLength(t, n, k) \in 0 .. n-1
      /\ FreeAt(t, n, k, FreeLength(t, n, k))
  BY <1>3 DEF FreeLength
<1>5. n \in Nat \ {0}
  BY <1>3
<1> QED
  BY <1>4, <1>5, NthInTable DEF FreeSlot, FreeAt

\* Filling an empty slot adds one to the occupied slots.
LEMMA FillCounts ==
  ASSUME NEW n \in Nat, NEW t, DOMAIN t = 0 .. n-1,
         NEW i \in 0 .. n-1, t[i] = NULL, NEW k \in Keys
  PROVE  Cardinality(Occupied([t EXCEPT ![i] = k]))
           = Cardinality(Occupied(t)) + 1
<1>1. Occupied([t EXCEPT ![i] = k]) = Occupied(t) \cup {i}
  BY NullAssumption DEF Occupied
<1>2. i \notin Occupied(t)
  BY DEF Occupied
<1> QED
  BY <1>1, <1>2, OccupiedFinite, FS_AddElement

\* Emptying an occupied slot takes one from them.
LEMMA EmptyCounts ==
  ASSUME NEW n \in Nat, NEW t, DOMAIN t = 0 .. n-1,
         NEW i \in 0 .. n-1, t[i] # NULL
  PROVE  Cardinality(Occupied([t EXCEPT ![i] = NULL]))
           = Cardinality(Occupied(t)) - 1
<1>1. Occupied([t EXCEPT ![i] = NULL]) = Occupied(t) \ {i}
  BY DEF Occupied
<1>2. i \in Occupied(t)
  BY DEF Occupied
<1> QED
  BY <1>1, <1>2, OccupiedFinite, FS_RemoveElement

\* A fresh array has no occupied slot.
LEMMA FreshCounts ==
  ASSUME NEW n \in Nat
  PROVE  /\ EmptySlots(n) \in [0 .. n-1 -> {NULL}]
         /\ Occupied(EmptySlots(n)) = {}
         /\ Cardinality(Occupied(EmptySlots(n))) = 0
  BY FS_EmptySet DEF EmptySlots, Occupied

-----------------------------------------------------------------------------
(***************************************************************************)
(* The inductive invariant.                                                *)
(***************************************************************************)

\* The slots of the old table that map_grow has already moved.
Moved == {i \in Occupied(keys) : i < idx}

Counts(t, u) == /\ Cardinality(Occupied(t)) <= u
                /\ "strdup" \notin AllocFails => u = Cardinality(Occupied(t))

EvenCap == \E c \in Nat : cap = 2 * c

\* map_grow's loop invariant: the new arrays hold as many entries as have
\* been moved.
RehashInv ==
  pc = "rehash" => /\ MustGrow
                   /\ Cardinality(Occupied(nk)) = Cardinality(Moved)

IInv ==
  /\ TypeOK
  /\ Counts(keys, used)
  /\ 2 * used <= cap
  /\ EvenCap
  /\ RehashInv

\* Growing gives room for at least one more entry below the load bound.
LEMMA NewCapFacts ==
  ASSUME TypeOK, EvenCap, 2 * used <= cap
  PROVE  /\ NewCap \in Nat \ {0}
         /\ NewCap >= cap
         /\ \E c \in Nat : NewCap = 2 * c
         /\ 2 * (used + 1) <= NewCap
<1>1. PICK c \in Nat : cap = 2 * c
  BY DEF EvenCap
<1>2. CASE cap = 0
  <2>1. PICK b \in Nat : InitCap = 2 * b
    BY CapAssumption
  <2> QED
    BY <1>2, <2>1, CapAssumption DEF NewCap, TypeOK
<1>3. CASE cap # 0
  <2>1. NewCap = 2 * cap /\ cap \in Nat /\ used \in Nat /\ cap >= 2
    BY <1>1, <1>3 DEF NewCap, TypeOK
  <2>2. 2 * cap \in Nat \ {0} /\ 2 * cap >= cap /\ 2 * (used + 1) <= 2 * cap
    BY <2>1
  <2> QED
    BY <2>1, <2>2
<1> QED
  BY <1>2, <1>3

\* The tail of map_set keeps the counts, whichever table it runs on.
LEMMA StoreCounts ==
  ASSUME NEW n \in Nat, NEW t \in [0 .. n-1 -> Slots],
         NEW w \in [0 .. n-1 -> Words], NEW k \in Keys, NEW v \in Vals,
         used \in Nat, Counts(t, used), used < n, Store(t, w, n, k, v), UNCHANGED client
  PROVE  /\ keys' \in [0 .. n-1 -> Slots]
         /\ vals' \in [0 .. n-1 -> Words]
         /\ used' \in Nat /\ used' <= used + 1
         /\ Counts(keys', used')
<1> DEFINE i == Probe(t, n, k)
<1>1. Cardinality(Occupied(t)) < n
  BY OccupiedFinite DEF Counts
<1>2. \E d \in 0 .. n-1 : StopsAt(t, n, k, d)
  BY <1>1, ProbeReachesEmpty DEF FreeAt, StopsAt
<1>3. i \in 0 .. n-1 /\ t[i] \in {NULL, k}
  BY <1>2, ProbeStops
<1> HIDE DEF i
<1>4. vals' \in [0 .. n-1 -> Words]
  BY DEF Store, Words, i
<1>5. CASE t[i] = NULL /\ used' = used + 1 /\ keys' = [t EXCEPT ![i] = k]
  <2>1. Cardinality(Occupied(keys')) = Cardinality(Occupied(t)) + 1
    BY <1>3, <1>5, FillCounts
  <2>2. Cardinality(Occupied(t)) \in Nat
    BY OccupiedFinite
  <2>3. keys' \in [0 .. n-1 -> Slots]
    BY <1>3, <1>5 DEF Slots
  <2> QED
    BY <1>4, <1>5, <2>1, <2>2, <2>3 DEF Counts, AllocFails
<1>6. CASE t[i] = NULL /\ used' = used + 1 /\ "strdup" \in AllocFails /\ keys' = t
  <2>1. Cardinality(Occupied(t)) \in Nat
    BY OccupiedFinite
  <2> QED
    BY <1>4, <1>6, <2>1 DEF Counts, AllocFails
<1>7. CASE t[i] = k /\ keys' = t /\ used' = used
  BY <1>4, <1>7 DEF Counts, AllocFails
<1> QED
  BY <1>5, <1>6, <1>7 DEF Store, i

LEMMA InitIInv == Init => IInv
<1> SUFFICES ASSUME Init
             PROVE  IInv
  OBVIOUS
<1>1. Cardinality(Occupied(keys)) = 0
  BY FreshCounts DEF Init
<1>2. TypeOK
  BY FreshCounts DEF Init, TypeOK, Slots, Words
<1>3. EvenCap
  BY DEF Init, EvenCap
<1> QED
  BY <1>1, <1>2, <1>3 DEF Init, IInv, Counts, RehashInv

\* A step that leaves the table and map_grow's variables alone.
LEMMA UnchangedIInv ==
  ASSUME IInv, UNCHANGED <<table, loop, client>>, pc' \in {"null", "idle"},
         pc \in {"null", "idle"}
  PROVE  IInv'
  BY DEF IInv, TypeOK, Counts, EvenCap, RehashInv, table, loop, NewCap, AllocFails

LEMMA MapSetIInv ==
  ASSUME IInv, NEW k \in Keys, NEW v \in Vals, MapSet(k, v), UNCHANGED client
  PROVE  IInv'
<1>1. /\ pc = "idle" /\ pc' = "idle" /\ cap' = cap /\ UNCHANGED loop
      /\ 2 * used < cap /\ Store(keys, vals, cap, k, v)
      /\ used \in Nat /\ cap \in Nat
  BY DEF MapSet, MustGrow, IInv, TypeOK
<1>2. /\ keys' \in [0 .. cap-1 -> Slots]
      /\ vals' \in [0 .. cap-1 -> Words]
      /\ used' \in Nat /\ used' <= used + 1
      /\ Counts(keys', used')
  BY <1>1, StoreCounts DEF IInv, TypeOK
<1>3. 2 * used' <= cap'
  <2>1. PICK c \in Nat : cap = 2 * c
    BY DEF IInv, EvenCap
  <2>2. used \in Nat /\ used + 1 <= c
    BY <1>1, <2>1
  <2>3. used' \in Nat /\ used' <= used + 1 /\ cap' = cap
    BY <1>1, <1>2
  <2>4. \A a \in Nat : a <= used + 1 => 2 * a <= 2 * c
    BY <2>2
  <2> QED
    BY <2>1, <2>3, <2>4
<1>4. TypeOK'
  BY <1>1, <1>2 DEF IInv, TypeOK, loop
<1> QED
  BY <1>1, <1>2, <1>3, <1>4 DEF IInv, Counts, EvenCap, RehashInv, AllocFails

LEMMA MapSetGrowIInv ==
  ASSUME IInv, NEW k \in Keys, NEW v \in Vals, MapSetGrow(k, v), UNCHANGED client
  PROVE  IInv'
<1>1. NewCap \in Nat \ {0} /\ NewCap' = NewCap
  BY NewCapFacts DEF IInv, MapSetGrow, table, NewCap
<1>2. TypeOK'
  BY <1>1, FreshCounts DEF IInv, TypeOK, MapSetGrow, table, Slots, Words
<1>3. Cardinality(Occupied(nk')) = 0
  BY <1>1, FreshCounts DEF MapSetGrow
<1>4. Cardinality(Moved') = 0
  <2>1. Moved' = {}
    BY DEF Moved, MapSetGrow, table, IInv, TypeOK, Occupied
  <2> QED
    BY <2>1, FS_EmptySet
<1>5. RehashInv'
  BY <1>3, <1>4 DEF RehashInv, MapSetGrow, MustGrow, table
<1> QED
  BY <1>2, <1>5 DEF IInv, MapSetGrow, Counts, EvenCap, table, AllocFails

LEMMA RehashStepIInv ==
  ASSUME IInv, RehashStep, UNCHANGED client
  PROVE  IInv'
<1>1. /\ NewCap \in Nat \ {0} /\ NewCap' = NewCap
      /\ cap <= NewCap
  BY NewCapFacts DEF IInv, RehashStep, table, NewCap
<1>2. /\ pc = "rehash" /\ pc' = "rehash" /\ UNCHANGED <<table, pending>>
      /\ idx \in 0 .. cap-1 /\ idx' = idx + 1
      /\ nk \in [0 .. NewCap-1 -> Slots] /\ nv \in [0 .. NewCap-1 -> Words]
      /\ keys \in [0 .. cap-1 -> Slots] /\ vals \in [0 .. cap-1 -> Words]
      /\ cap \in Nat
  BY DEF IInv, TypeOK, RehashStep
<1>3. IsFiniteSet(Moved) /\ Cardinality(Moved) \in Nat /\ idx \notin Moved
  <2>1. IsFiniteSet(Occupied(keys)) /\ Moved \subseteq Occupied(keys)
    BY <1>2, OccupiedFinite DEF Moved
  <2>2. idx \notin Moved
    BY <1>2 DEF Moved
  <2> QED
    BY <2>1, <2>2, FS_Subset, FS_CardinalityType
<1>4. CASE keys[idx] = NULL /\ UNCHANGED <<nk, nv>>
  <2>1. Moved' = Moved
    BY <1>2, <1>4 DEF Moved, Occupied, table
  <2>2. TypeOK'
    BY <1>1, <1>2, <1>4 DEF IInv, TypeOK, table
  <2> QED
    BY <1>2, <1>4, <2>1, <2>2 DEF IInv, RehashInv, Counts, EvenCap, MustGrow, table, AllocFails
<1> DEFINE j == FreeSlot(nk, NewCap, keys[idx])
<1>5. CASE /\ keys[idx] # NULL
           /\ nk' = [nk EXCEPT ![j] = keys[idx]]
           /\ nv' = [nv EXCEPT ![j] = vals[idx]]
  <2>1. keys[idx] \in Keys
    BY <1>2, <1>5 DEF Slots
  <2>2. Moved' = Moved \cup {idx}
    BY <1>2, <1>5 DEF Moved, Occupied, table
  <2>3. Cardinality(Moved') = Cardinality(Moved) + 1
    BY <1>3, <2>2, FS_AddElement
  <2>4. Cardinality(Occupied(nk)) < NewCap
    <3>1. /\ Moved \subseteq Occupied(keys) /\ IsFiniteSet(Occupied(keys))
          /\ Cardinality(Occupied(keys)) \in Nat
      BY <1>2, OccupiedFinite DEF Moved
    <3>2. Cardinality(Moved) <= Cardinality(Occupied(keys))
      BY <3>1, FS_Subset
    <3>3. used \in Nat /\ Cardinality(Occupied(keys)) <= used
      BY DEF IInv, Counts, TypeOK
    <3>4. 2 * (used + 1) <= NewCap
      BY NewCapFacts DEF IInv
    <3>5. Cardinality(Occupied(nk)) = Cardinality(Moved)
      BY <1>2 DEF IInv, RehashInv
    <3> QED
      BY <1>1, <1>3, <3>1, <3>2, <3>3, <3>4, <3>5
  <2>5. \E d \in 0 .. NewCap-1 : FreeAt(nk, NewCap, keys[idx], d)
    BY <1>1, <1>2, <2>1, <2>4, ProbeReachesEmpty
  <2>6. j \in 0 .. NewCap-1 /\ nk[j] = NULL
    BY <1>1, <2>1, <2>5, FreeSlotIsEmpty
  <2> HIDE DEF j
  <2>7. /\ nk' = [nk EXCEPT ![j] = keys[idx]]
        /\ nv' = [nv EXCEPT ![j] = vals[idx]]
    BY <1>5
  <2>8. Cardinality(Occupied(nk')) = Cardinality(Occupied(nk)) + 1
    BY <1>1, <1>2, <2>1, <2>6, <2>7, FillCounts
  <2>9. TypeOK'
    BY <1>1, <1>2, <2>1, <2>6, <2>7 DEF IInv, TypeOK, table, Slots, Words
  <2> QED
    BY <1>2, <2>3, <2>8, <2>9 DEF IInv, RehashInv, Counts, EvenCap, MustGrow, table, AllocFails
<1> QED
  BY <1>4, <1>5 DEF RehashStep

LEMMA RehashDoneIInv ==
  ASSUME IInv, RehashDone, UNCHANGED client
  PROVE  IInv'
<1>1. /\ NewCap \in Nat \ {0} /\ 2 * (used + 1) <= NewCap
      /\ \E c \in Nat : NewCap = 2 * c
  BY NewCapFacts DEF IInv
<1>2. /\ pc = "rehash" /\ pc' = "idle" /\ cap' = NewCap /\ idx = cap
      /\ idx' = 0 /\ nk' = EmptySlots(0) /\ nv' = EmptySlots(0)
      /\ pending' = <<NULL, NULL>>
      /\ Store(nk, nv, NewCap, pending[1], pending[2])
  BY DEF RehashDone
<1>3. /\ nk \in [0 .. NewCap-1 -> Slots] /\ nv \in [0 .. NewCap-1 -> Words]
      /\ keys \in [0 .. cap-1 -> Slots] /\ cap \in Nat /\ used \in Nat
      /\ pending[1] \in Keys /\ pending[2] \in Vals
  BY <1>2 DEF IInv, TypeOK
<1>4. Counts(nk, used)
  <2>1. Moved = Occupied(keys)
    BY <1>2, <1>3 DEF Moved, Occupied
  <2> QED
    BY <1>2, <2>1 DEF IInv, RehashInv, Counts
<1>5. used < NewCap
  BY <1>1, <1>3
<1>6. /\ keys' \in [0 .. NewCap-1 -> Slots]
      /\ vals' \in [0 .. NewCap-1 -> Words]
      /\ used' \in Nat /\ used' <= used + 1
      /\ Counts(keys', used')
  BY <1>1, <1>2, <1>3, <1>4, <1>5, StoreCounts
<1>7. 2 * used' <= cap'
  <2>1. \A a \in Nat : a <= used + 1 => 2 * a <= NewCap
    BY <1>1, <1>3
  <2> QED
    BY <1>2, <1>6, <2>1
<1>8. TypeOK'
  BY <1>1, <1>2, <1>6 DEF TypeOK, IInv
<1>9. EvenCap'
  BY <1>1, <1>2 DEF EvenCap
<1> QED
  BY <1>2, <1>6, <1>7, <1>8, <1>9 DEF IInv, Counts, RehashInv, AllocFails

LEMMA MapRemoveIInv ==
  ASSUME IInv, NEW k \in Keys, MapRemove(k), UNCHANGED client
  PROVE  IInv'
<1> DEFINE i == Probe(keys, cap, k)
<1>1. /\ pc = "idle" /\ pc' = "idle" /\ cap' = cap /\ UNCHANGED loop
      /\ used \in Nat /\ cap \in Nat
      /\ keys \in [0 .. cap-1 -> Slots] /\ vals \in [0 .. cap-1 -> Words]
  BY DEF MapRemove, IInv, TypeOK
<1>2. CASE ~Found(k) /\ UNCHANGED <<keys, vals, used>>
  BY <1>1, <1>2, UnchangedIInv DEF table
<1>3. CASE /\ Found(k) /\ used' = used - 1
           /\ keys' = [keys EXCEPT ![i] = NULL]
           /\ vals' = [vals EXCEPT ![i] = NULL]
  <2>1. /\ cap # 0 /\ Cardinality(Occupied(keys)) \in Nat
        /\ Cardinality(Occupied(keys)) <= used /\ 2 * used <= cap
    BY <1>1, <1>3, OccupiedFinite DEF Found, IInv, Counts
  <2>2. \E d \in 0 .. cap-1 : StopsAt(keys, cap, k, d)
    <3>1. Cardinality(Occupied(keys)) < cap
      BY <1>1, <2>1
    <3> QED
      BY <1>1, <3>1, ProbeReachesEmpty DEF FreeAt, StopsAt
  <2>3. i \in 0 .. cap-1 /\ keys[i] = k
    BY <1>1, <1>3, <2>2, ProbeStops DEF Found
  <2> HIDE DEF i
  <2>4. keys[i] # NULL
    BY <2>3, NullAssumption
  <2>5. Cardinality(Occupied(keys')) = Cardinality(Occupied(keys)) - 1
    BY <1>1, <1>3, <2>3, <2>4, EmptyCounts
  <2>6. Cardinality(Occupied(keys)) # 0
    <3>1. i \in Occupied(keys)
      BY <1>1, <2>3, <2>4 DEF Occupied
    <3>2. IsFiniteSet(Occupied(keys))
      BY <1>1, OccupiedFinite
    <3> QED
      BY <3>1, <3>2, FS_EmptySet
  <2>7. used' \in Nat /\ 2 * used' <= cap' /\ Counts(keys', used')
    <3>1. used \in Nat \ {0} /\ used' = used - 1 /\ cap' = cap
      BY <1>1, <1>3, <2>1, <2>6
    <3>2. used - 1 \in Nat /\ 2 * (used - 1) <= cap
      BY <1>1, <2>1, <3>1
    <3>3. Counts(keys, used)
      BY DEF IInv
    <3> QED
      BY <2>1, <2>5, <3>1, <3>2, <3>3 DEF Counts, AllocFails
  <2>8. TypeOK'
    BY <1>1, <1>3, <2>3, <2>7 DEF IInv, TypeOK, loop, Slots, Words
  <2> QED
    BY <1>1, <2>7, <2>8 DEF IInv, EvenCap, RehashInv, Counts, AllocFails
<1> QED
  BY <1>2, <1>3 DEF MapRemove

\* map_clear and map_free leave a table without entries.
LEMMA MapClearIInv ==
  ASSUME IInv, MapClear \/ MapFree, UNCHANGED client
  PROVE  IInv'
<1>1. PICK n \in {0, cap} : /\ cap' = n
                            /\ keys' = EmptySlots(n) /\ vals' = EmptySlots(n)
                            /\ used' = 0 /\ UNCHANGED loop
                            /\ pc = "idle" /\ pc' \in {"null", "idle"}
  BY DEF MapClear, MapFree
<1>2. n \in Nat /\ \E c \in Nat : n = 2 * c
  <2>1. 0 \in Nat /\ 0 = 2 * 0
    OBVIOUS
  <2> QED
    BY <2>1 DEF IInv, TypeOK, EvenCap
<1>3. /\ keys' \in [0 .. n-1 -> Slots] /\ vals' \in [0 .. n-1 -> Words]
      /\ Cardinality(Occupied(keys')) = 0
  BY <1>1, <1>2, FreshCounts DEF Slots, Words
<1>4. idx' = 0
  BY <1>1 DEF IInv, TypeOK, loop
<1>5. TypeOK'
  BY <1>1, <1>2, <1>3, <1>4 DEF IInv, TypeOK, loop
<1> QED
  BY <1>1, <1>2, <1>3, <1>5 DEF IInv, Counts, EvenCap, RehashInv, AllocFails

LEMMA NextIInv == IInv /\ [Next]_vars => IInv'
<1> SUFFICES ASSUME IInv, [Next]_vars
             PROVE  IInv'
  OBVIOUS
<1>1. CASE UNCHANGED vars
  BY <1>1 DEF vars, table, loop, IInv, TypeOK, Counts, EvenCap, RehashInv,
              NewCap, Moved, MustGrow, AllocFails
<1> SUFFICES ASSUME Call, UNCHANGED client
             PROVE  IInv'
  BY <1>1 DEF Next
<1>0. UNCHANGED client
  OBVIOUS
<1>2. CASE MapNew
  BY <1>2, <1>0, UnchangedIInv DEF MapNew
<1>3. CASE Refuse
  BY <1>3, <1>0, UnchangedIInv DEF Refuse, IInv, TypeOK
<1>4. ASSUME NEW k \in Keys, NEW v \in Vals, MapSet(k, v)
      PROVE  IInv'
  BY <1>4, <1>0, MapSetIInv
<1>5. ASSUME NEW k \in Keys, NEW v \in Vals, MapSetNoMemory(k, v)
      PROVE  IInv'
  BY <1>5, <1>0, UnchangedIInv DEF MapSetNoMemory
<1>6. ASSUME NEW k \in Keys, NEW v \in Vals, MapSetGrow(k, v)
      PROVE  IInv'
  BY <1>6, <1>0, MapSetGrowIInv
<1>7. CASE RehashStep
  BY <1>7, <1>0, RehashStepIInv
<1>8. CASE RehashDone
  BY <1>8, <1>0, RehashDoneIInv
<1>9. ASSUME NEW k \in Keys, MapGet(k)
      PROVE  IInv'
  BY <1>9, <1>0, UnchangedIInv DEF MapGet
<1>10. ASSUME NEW k \in Removable, MapRemove(k)
       PROVE  IInv'
  <2>1. k \in Keys
    BY ClientAssumption DEF IInv, TypeOK, Removable
  <2> QED
    BY <1>10, <1>0, <2>1, MapRemoveIInv
<1>11. CASE MapLen
  BY <1>11, <1>0, UnchangedIInv DEF MapLen
<1>12. CASE MapClear \/ MapFree
  BY <1>12, <1>0, MapClearIInv
<1> QED
  BY <1>2, <1>3, <1>4, <1>5, <1>6, <1>7, <1>8, <1>9, <1>10, <1>11,
     <1>12 DEF Call

LEMMA InvariantHolds == Spec => []IInv
  BY InitIInv, NextIInv, PTL DEF Spec

-----------------------------------------------------------------------------
(***************************************************************************)
(* The theorems.                                                           *)
(***************************************************************************)

\* The arrays always have cap slots of the right kind, and map_grow's locals
\* stay within theirs (frt.c:861-991).
THEOREM TypeCorrect == Spec => []TypeOK
<1>1. IInv => TypeOK
  BY DEF IInv
<1> QED
  BY <1>1, InvariantHolds, PTL

\* The growth test of map_set (frt.c:916) keeps half of every table free,
\* whatever the hash function and whichever allocations fail.
THEOREM LoadIsBounded == Spec => []LoadBound
<1>1. IInv => LoadBound
  BY DEF IInv, Counts, LoadBound
<1> QED
  BY <1>1, InvariantHolds, PTL

\* The unbounded probe loops of map_set, map_get and map_remove end, for every
\* key and every hash function (frt.c:919, 935, 955).
THEOREM ProbesEnd == Spec => []ProbesTerminate
<1>1. IInv => ProbesTerminate
  <2> SUFFICES ASSUME IInv, cap # 0, NEW k \in Keys
               PROVE  \E d \in 0 .. cap-1 : StopsAt(keys, cap, k, d)
    BY DEF ProbesTerminate
  <2>1. cap \in Nat /\ used \in Nat /\ DOMAIN keys = 0 .. cap-1
    BY DEF IInv, TypeOK
  <2>2. Cardinality(Occupied(keys)) < cap
    BY <2>1, OccupiedFinite DEF IInv, Counts
  <2> QED
    BY <2>1, <2>2, ProbeReachesEmpty DEF FreeAt, StopsAt
<1> QED
  BY <1>1, InvariantHolds, PTL

\* The loop of map_grow that looks for an empty slot ends (frt.c:899).
THEOREM RehashEnds == Spec => []RehashTerminates
<1>1. IInv => RehashTerminates
  <2> SUFFICES ASSUME IInv, pc = "rehash", NEW k \in Keys
               PROVE  \E d \in 0 .. NewCap-1 : FreeAt(nk, NewCap, k, d)
    BY DEF RehashTerminates
  <2>1. /\ NewCap \in Nat \ {0} /\ 2 * (used + 1) <= NewCap
        /\ used \in Nat /\ DOMAIN nk = 0 .. NewCap-1
    BY NewCapFacts DEF IInv, TypeOK
  <2>2. /\ Moved \subseteq Occupied(keys) /\ IsFiniteSet(Occupied(keys))
        /\ Cardinality(Occupied(keys)) \in Nat
    BY OccupiedFinite DEF Moved, IInv, TypeOK
  <2>3. Cardinality(Moved) <= Cardinality(Occupied(keys))
    BY <2>2, FS_Subset
  <2>4. Cardinality(Moved) \in Nat
    BY <2>2, FS_Subset, FS_CardinalityType
  <2>5. Cardinality(Occupied(nk)) < NewCap
    BY <2>1, <2>2, <2>3, <2>4 DEF IInv, Counts, RehashInv, AllocFails
  <2> QED
    BY <2>1, <2>5, ProbeReachesEmpty
<1> QED
  BY <1>1, InvariantHolds, PTL

\* map_len counts the occupied slots exactly when strdup never fails
\* (frt.c:921-925, 957-963).
THEOREM LengthIsExact == Spec => []LenIsExact
<1>1. IInv => LenIsExact
  BY DEF IInv, Counts, LenIsExact
<1> QED
  BY <1>1, InvariantHolds, PTL

-----------------------------------------------------------------------------
(***************************************************************************)
(* Tables without a key out of its probe's reach.                          *)
(***************************************************************************)

\* An array of n slots, one of them empty at least.
Table(t, n) ==
  /\ n \in Nat
  /\ t \in [0 .. n-1 -> Slots]
  /\ \E i \in 0 .. n-1 : t[i] = NULL

\* Every key is in the slot at which the probe for it stops: no empty slot
\* and no second copy of the key is before it on its way.
Reached(t, n) == \A i \in Occupied(t) : Probe(t, n, t[i]) = i

\* The word that map_get finds in the table t, w of n slots.
Get(t, w, n, k) ==
  IF n # 0 /\ t[Probe(t, n, k)] = k THEN w[Probe(t, n, k)] ELSE NULL

\* Every key has a word.
Worded(t, w) == \A i \in Occupied(t) : w[i] \in Vals

\* The table s, u answers as t, w does, and v for k.
Updates(s, u, t, w, n, k, v) ==
  \A q \in Keys : Get(s, u, n, q) = IF q = k THEN v ELSE Get(t, w, n, q)

\* The distance at which a probe stops is the only one of its kind.
LEMMA ProbeIs ==
  ASSUME NEW n \in Nat, NEW t, NEW k, NEW d \in 0 .. n-1, StopsAt(t, n, k, d),
         \A e \in 0 .. d-1 : ~StopsAt(t, n, k, e)
  PROVE  Probe(t, n, k) = Nth(k, n, d)
<1> DEFINE First(x) == /\ StopsAt(t, n, k, x)
                       /\ \A e \in 0 .. x-1 : ~StopsAt(t, n, k, e)
<1>1. \A x \in 0 .. n-1 : First(x) => x = d
  <2> SUFFICES ASSUME NEW x \in 0 .. n-1, First(x), x # d
               PROVE  FALSE
    OBVIOUS
  <2>1. d \in 0 .. x-1 \/ x \in 0 .. d-1
    OBVIOUS
  <2> QED
    BY <2>1
<1>2. First(d)
  OBVIOUS
<1>3. ProbeLength(t, n, k) = d
  BY <1>1, <1>2 DEF ProbeLength
<1> QED
  BY <1>3 DEF Probe

\* In a table with an empty slot each probe stops, and passes only slots that
\* hold other keys.
LEMMA ProbePath ==
  ASSUME NEW n, NEW t, Table(t, n), NEW k \in Keys
  PROVE  \E d \in 0 .. n-1 :
           /\ Probe(t, n, k) = Nth(k, n, d)
           /\ Probe(t, n, k) \in 0 .. n-1
           /\ t[Probe(t, n, k)] \in {NULL, k}
           /\ StopsAt(t, n, k, d)
           /\ \A e \in 0 .. d-1 : /\ Nth(k, n, e) \in 0 .. n-1
                                  /\ t[Nth(k, n, e)] \notin {NULL, k}
<1> DEFINE T == {d \in 0 .. n-1 : StopsAt(t, n, k, d)}
<1>1. n \in Nat \ {0}
  BY DEF Table
<1>2. PICK i \in 0 .. n-1 : t[i] = NULL
  BY DEF Table
<1>3. PICK c \in 0 .. n-1 : Nth(k, n, c) = i
  BY <1>1, NthReaches
<1>4. T \in SUBSET Nat /\ T # {}
  BY <1>1, <1>2, <1>3 DEF StopsAt
<1>5. PICK d \in T : \A y \in T : d <= y
  BY <1>4, LeastNatural
<1>6. /\ d \in 0 .. n-1 /\ StopsAt(t, n, k, d)
      /\ \A e \in 0 .. d-1 : ~StopsAt(t, n, k, e)
  BY <1>1, <1>5
<1>7. Probe(t, n, k) = Nth(k, n, d)
  BY <1>1, <1>6, ProbeIs
<1>8. \A e \in 0 .. d : Nth(k, n, e) \in 0 .. n-1
  BY <1>1, <1>6, NthInTable
<1>9. Nth(k, n, d) \in 0 .. n-1
  BY <1>6, <1>8
<1> QED
  BY <1>6, <1>7, <1>8, <1>9 DEF StopsAt

\* A key that is in the table is found, with its word.
LEMMA GetPresent ==
  ASSUME NEW n, NEW t, NEW w, Table(t, n), Reached(t, n), NEW i \in Occupied(t)
  PROVE  Get(t, w, n, t[i]) = w[i]
  BY DEF Get, Reached, Table, Occupied

\* A key that is not is not found.
LEMMA GetAbsent ==
  ASSUME NEW n, NEW t, NEW w, Table(t, n), NEW k \in Keys,
         \A i \in Occupied(t) : t[i] # k
  PROVE  Get(t, w, n, k) = NULL /\ (n # 0 => t[Probe(t, n, k)] # k)
<1>1. Probe(t, n, k) \in 0 .. n-1
  BY ProbePath
<1>2. t[Probe(t, n, k)] # k
  BY <1>1, NullAssumption DEF Occupied, Table
<1> QED
  BY <1>2 DEF Get

\* No key is in two slots.
LEMMA NoCopies ==
  ASSUME NEW n, NEW t, Reached(t, n),
         NEW i \in Occupied(t), NEW j \in Occupied(t), t[i] = t[j]
  PROVE  i = j
  BY DEF Reached

\* Writing k where its probe stopped leaves that probe, and every key that
\* is not k, where they were.
LEMMA WriteReached ==
  ASSUME NEW n, NEW t, Table(t, n), NEW k \in Keys
  PROVE  LET s == [t EXCEPT ![Probe(t, n, k)] = k] IN
         /\ Probe(s, n, k) = Probe(t, n, k)
         /\ Reached(t, n) => Reached(s, n)
<1> DEFINE j == Probe(t, n, k)
           s == [t EXCEPT ![j] = k]
<1>1. PICK d \in 0 .. n-1 :
           /\ j = Nth(k, n, d)
           /\ j \in 0 .. n-1
           /\ t[j] \in {NULL, k}
           /\ StopsAt(t, n, k, d)
           /\ \A e \in 0 .. d-1 : /\ Nth(k, n, e) \in 0 .. n-1
                                  /\ t[Nth(k, n, e)] \notin {NULL, k}
  BY ProbePath
<1> HIDE DEF j
<1>2. /\ n \in Nat /\ DOMAIN t = 0 .. n-1 /\ DOMAIN s = 0 .. n-1
      /\ s[j] = k /\ \A i \in 0 .. n-1 : i # j => s[i] = t[i]
  BY <1>1 DEF Table
<1> HIDE DEF s
<1>3. Probe(s, n, k) = j
  <2>1. StopsAt(s, n, k, d)
    BY <1>1, <1>2 DEF StopsAt
  <2>2. \A e \in 0 .. d-1 : ~StopsAt(s, n, k, e)
    BY <1>1, <1>2 DEF StopsAt
  <2> QED
    BY <1>1, <1>2, <2>1, <2>2, ProbeIs
<1>4. ASSUME Reached(t, n), NEW i \in Occupied(s)
      PROVE  Probe(s, n, s[i]) = i
  <2>1. CASE i = j
    BY <1>2, <1>3, <2>1
  <2>2. CASE i # j
    <3>1. i \in Occupied(t) /\ s[i] = t[i] /\ t[i] \in Keys
      BY <1>2, <1>4, <2>2 DEF Occupied, Table, Slots
    <3>2. Probe(t, n, t[i]) = i
      BY <1>4, <3>1 DEF Reached
    <3>3. PICK c \in 0 .. n-1 :
             /\ i = Nth(t[i], n, c)
             /\ i \in 0 .. n-1
             /\ StopsAt(t, n, t[i], c)
             /\ \A e \in 0 .. c-1 : /\ Nth(t[i], n, e) \in 0 .. n-1
                                    /\ t[Nth(t[i], n, e)] \notin {NULL, t[i]}
      BY <3>1, <3>2, ProbePath
    <3>4. t[i] # k
      BY <1>4, <2>2, <3>1, <3>2 DEF j
    <3>5. StopsAt(s, n, t[i], c)
      BY <1>2, <2>2, <3>3 DEF StopsAt
    <3>6. \A e \in 0 .. c-1 : ~StopsAt(s, n, t[i], e)
      BY <1>1, <1>2, <3>3, <3>4, NullAssumption DEF StopsAt
    <3> QED
      BY <1>2, <3>1, <3>3, <3>5, <3>6, ProbeIs
  <2> QED
    BY <2>1, <2>2
<1> QED
  BY <1>3, <1>4 DEF Reached, j, s

\* s is t after one assignment.
Assigned(s, t, j, x) == s = [t EXCEPT ![j] = x]

\* What map_set makes of the answers of map_get.
LEMMA GetAfterWrite ==
  ASSUME NEW n, NEW t, NEW w, DOMAIN w = 0 .. n-1, NEW k \in Keys, NEW v,
         Table(t, n), Reached(t, n),
         NEW s, Assigned(s, t, Probe(t, n, k), k), Table(s, n),
         NEW u, Assigned(u, w, Probe(t, n, k), v)
  PROVE  \A q \in Keys : Get(s, u, n, q) = IF q = k THEN v ELSE Get(t, w, n, q)
<1> DEFINE j == Probe(t, n, k)
<1>1. j \in 0 .. n-1 /\ t[j] \in {NULL, k}
  BY ProbePath
<1>2. Probe(s, n, k) = j /\ Reached(s, n)
  BY WriteReached DEF Assigned
<1>6. s = [t EXCEPT ![j] = k] /\ u = [w EXCEPT ![j] = v]
  BY DEF Assigned
<1> HIDE DEF j
<1>3. /\ n \in Nat /\ n # 0 /\ s[j] = k /\ u[j] = v
      /\ DOMAIN s = 0 .. n-1 /\ DOMAIN t = 0 .. n-1
      /\ \A i \in 0 .. n-1 : i # j => s[i] = t[i] /\ u[i] = w[i]
  BY <1>1, <1>6 DEF Table
<1>4. Get(s, u, n, k) = v
  BY <1>2, <1>3 DEF Get
<1>5. ASSUME NEW q \in Keys, q # k
      PROVE  Get(s, u, n, q) = Get(t, w, n, q)
  <2> DEFINE i == Probe(t, n, q)
             m == Probe(s, n, q)
  <2>1. i \in 0 .. n-1 /\ t[i] \in {NULL, q}
    BY ProbePath
  <2>2. CASE t[i] = q
    <3>1. i # j
      BY <1>1, <1>5, <2>2, NullAssumption
    <3>2. i \in Occupied(s) /\ s[i] = q
      BY <1>3, <2>1, <2>2, <3>1, NullAssumption DEF Occupied
    <3>3. m = i
      BY <1>2, <3>2 DEF Reached
    <3> QED
      BY <1>3, <2>1, <2>2, <3>1, <3>2, <3>3 DEF Get
  <2>3. CASE t[i] = NULL
    <3>1. t[i] # q
      BY <2>3, NullAssumption
    <3>2. \A x \in Occupied(s) : s[x] # q
      BY <1>3, <1>5, <3>1, NullAssumption DEF Occupied, Reached
    <3>3. Get(s, u, n, q) = NULL
      BY <3>2, GetAbsent
    <3> QED
      BY <3>1, <3>3 DEF Get
  <2> QED
    BY <2>1, <2>2, <2>3
<1> QED
  BY <1>4, <1>5

\* An array with fewer entries than slots.
LEMMA RoomMakesTable ==
  ASSUME NEW n \in Nat, NEW t \in [0 .. n-1 -> Slots], Cardinality(Occupied(t)) < n
  PROVE  Table(t, n)
  BY EmptySlotExists DEF Table

-----------------------------------------------------------------------------
(***************************************************************************)
(* The invariant of the tables of exact programs.                          *)
(***************************************************************************)

\* map_grow's new arrays hold the entries moved so far, and no others.
Rehashed ==
  /\ Reached(nk, NewCap)
  /\ \A i \in Moved : \E j \in Occupied(nk) : nk[j] = keys[i] /\ nv[j] = vals[i]
  /\ \A j \in Occupied(nk) : \E i \in Moved : keys[i] = nk[j] /\ nv[j] = vals[i]

DInv ==
  /\ pc = "null" => cap = 0
  /\ Exact => /\ Reached(keys, cap)
              /\ Worded(keys, vals)
              /\ pc = "rehash" => Rehashed

\* Every table in use has an empty slot, that of a map_grow too.
LEMMA InUse ==
  ASSUME IInv
  PROVE  /\ cap # 0 => Table(keys, cap)
         /\ pc = "rehash" => Table(nk, NewCap)
<1>1. /\ cap \in Nat /\ used \in Nat /\ keys \in [0 .. cap-1 -> Slots]
      /\ 2 * used <= cap /\ Cardinality(Occupied(keys)) <= used
      /\ IsFiniteSet(Occupied(keys)) /\ Cardinality(Occupied(keys)) \in Nat
  BY OccupiedFinite DEF IInv, TypeOK, Counts
<1>2. ASSUME cap # 0 PROVE Table(keys, cap)
  <2>1. cap \in Nat /\ Cardinality(Occupied(keys)) < cap
    BY <1>1, <1>2
  <2> QED
    BY <1>1, <2>1, RoomMakesTable
<1>3. ASSUME pc = "rehash" PROVE Table(nk, NewCap)
  <2>1. /\ NewCap \in Nat \ {0} /\ 2 * (used + 1) <= NewCap
        /\ nk \in [0 .. NewCap-1 -> Slots]
    BY <1>3, NewCapFacts DEF IInv, TypeOK
  <2>2. /\ Cardinality(Moved) <= Cardinality(Occupied(keys))
        /\ Cardinality(Moved) \in Nat
    BY <1>1, FS_Subset, FS_CardinalityType DEF Moved
  <2>3. Cardinality(Occupied(nk)) < NewCap
    BY <1>1, <1>3, <2>1, <2>2 DEF IInv, RehashInv
  <2> QED
    BY <1>1, <2>1, <2>3, RoomMakesTable
<1> QED
  BY <1>1, <1>2, <1>3

\* So has the table that a step leaves.
LEMMA InUseAfter ==
  ASSUME IInv', cap' # 0
  PROVE  Table(keys', cap')
<1>1. /\ cap' \in Nat /\ used' \in Nat /\ keys' \in [0 .. cap'-1 -> Slots]
      /\ 2 * used' <= cap' /\ Cardinality(Occupied(keys')) <= used'
  BY DEF IInv, TypeOK, Counts
<1>2. IsFiniteSet(Occupied(keys')) /\ Cardinality(Occupied(keys')) \in Nat
  BY <1>1, OccupiedFinite
<1>3. \A c, u, o \in Nat : c # 0 /\ 2 * u <= c /\ o <= u => o < c
  OBVIOUS
<1>4. Cardinality(Occupied(keys')) < cap'
  BY <1>1, <1>2, <1>3
<1> QED
  BY <1>1, <1>4, RoomMakesTable

LEMMA LookupIsGet ==
  ASSUME NEW k \in Keys
  PROVE  /\ Lookup(k) = IF pc = "null" THEN NULL ELSE Get(keys, vals, cap, k)
         /\ Lookup(k)' = IF pc' = "null" THEN NULL ELSE Get(keys', vals', cap', k)
  BY DEF Lookup, Found, Get

-----------------------------------------------------------------------------
(***************************************************************************)
(* What the steps do to the answers of map_get.                            *)
(***************************************************************************)

\* The tail of map_set puts v under k and changes nothing else.
LEMMA StoreAnswers ==
  ASSUME NEW n, NEW t, NEW w \in [0 .. n-1 -> Words], NEW k \in Keys, NEW v \in Vals,
         Table(t, n), Store(t, w, n, k, v), "strdup" \notin AllocFails
  PROVE  /\ keys'[Probe(t, n, k)] = k /\ Probe(keys', n, k) = Probe(t, n, k)
         /\ vals'[Probe(t, n, k)] = v
         /\ Reached(t, n) /\ Table(keys', n) /\ Worded(t, w) =>
              /\ Reached(keys', n)
              /\ Worded(keys', vals')
              /\ Updates(keys', vals', t, w, n, k, v)
<1> DEFINE j == Probe(t, n, k)
<1>1. j \in 0 .. n-1
  BY ProbePath
<1>2. keys' = [t EXCEPT ![j] = k] /\ vals' = [w EXCEPT ![j] = v]
  BY <1>1 DEF Store, Table
<1>3. keys'[j] = k /\ vals'[j] = v
  BY <1>1, <1>2 DEF Table
<1>4. Probe(keys', n, k) = j
  BY <1>2, WriteReached
<1>5. ASSUME Reached(t, n), Table(keys', n), Worded(t, w)
      PROVE  /\ Reached(keys', n)
             /\ Worded(keys', vals')
             /\ Updates(keys', vals', t, w, n, k, v)
  <2>1. Reached(keys', n)
    BY <1>2, <1>5, WriteReached
  <2>2. Updates(keys', vals', t, w, n, k, v)
    <3>1. DOMAIN w = 0 .. n-1
      OBVIOUS
    <3>2. /\ Table(t, n) /\ Reached(t, n) /\ Table(keys', n)
          /\ Assigned(keys', t, Probe(t, n, k), k)
          /\ Assigned(vals', w, Probe(t, n, k), v)
      BY <1>2, <1>5 DEF Assigned
    <3> QED
      BY <3>1, <3>2, GetAfterWrite DEF Updates
  <2>3. Worded(keys', vals')
    <3> HIDE DEF j
    <3> QED
      BY <1>1, <1>2, <1>3, <1>5 DEF Occupied, Table, Worded
  <2> QED
    BY <2>1, <2>2, <2>3
<1> QED
  BY <1>3, <1>4, <1>5

LEMMA MapSetAnswers ==
  ASSUME IInv, IInv', DInv, NEW k \in Keys, NEW v \in Vals, MapSet(k, v), UNCHANGED client
  PROVE  /\ "strdup" \notin AllocFails => Lookup(k)' = v
         /\ DInv'
         /\ Exact => \A q \in Keys : Lookup(q)' = IF q = k THEN v ELSE Lookup(q)
<1>1. /\ pc = "idle" /\ pc' = "idle" /\ cap' = cap
      /\ Store(keys, vals, cap, k, v) /\ vals \in [0 .. cap-1 -> Words]
  BY DEF MapSet, IInv, TypeOK
<1>2. cap # 0
  BY DEF MapSet, MustGrow, IInv, TypeOK
<1>3. Table(keys, cap) /\ Table(keys', cap)
  BY <1>1, <1>2, InUse, InUseAfter
<1>4. ASSUME "strdup" \notin AllocFails
      PROVE  Lookup(k)' = v
  <2>1. /\ keys'[Probe(keys, cap, k)] = k /\ vals'[Probe(keys, cap, k)] = v
        /\ Probe(keys', cap, k) = Probe(keys, cap, k)
    BY <1>1, <1>3, <1>4, StoreAnswers
  <2> QED
    BY <1>1, <1>2, <2>1, LookupIsGet DEF Get
<1>5. ASSUME Exact
      PROVE  /\ Reached(keys', cap)
             /\ Worded(keys', vals')
             /\ Updates(keys', vals', keys, vals, cap, k, v)
  <2>1. "strdup" \notin AllocFails /\ Reached(keys, cap) /\ Worded(keys, vals)
    BY <1>5 DEF DInv, Exact
  <2> QED
    BY <1>1, <1>3, <2>1, StoreAnswers
<1>6. DInv'
  BY <1>1, <1>5 DEF DInv, Exact, Removable, AllocFails
<1>7. Exact => \A q \in Keys : Lookup(q)' = IF q = k THEN v ELSE Lookup(q)
  BY <1>1, <1>5, LookupIsGet DEF Updates
<1> QED
  BY <1>4, <1>6, <1>7

\* Moving an entry: its slot in the new arrays is the one at which the probe
\* for it stops.
LEMMA FreeSlotIsProbe ==
  ASSUME NEW n, NEW t, Table(t, n), NEW k \in Keys, \A i \in Occupied(t) : t[i] # k
  PROVE  FreeSlot(t, n, k) = Probe(t, n, k)
<1>1. PICK d \in 0 .. n-1 :
           /\ Probe(t, n, k) = Nth(k, n, d)
           /\ Probe(t, n, k) \in 0 .. n-1
           /\ t[Probe(t, n, k)] \in {NULL, k}
           /\ StopsAt(t, n, k, d)
           /\ \A e \in 0 .. d-1 : /\ Nth(k, n, e) \in 0 .. n-1
                                  /\ t[Nth(k, n, e)] \notin {NULL, k}
  BY ProbePath
<1> DEFINE First(x) == /\ FreeAt(t, n, k, x)
                       /\ \A e \in 0 .. x-1 : ~FreeAt(t, n, k, e)
<1>2. n \in Nat /\ DOMAIN t = 0 .. n-1
  BY DEF Table
<1>3. First(d)
  BY <1>1, <1>2, NullAssumption DEF FreeAt, Occupied
<1>4. \A x \in 0 .. n-1 : First(x) => x = d
  <2> SUFFICES ASSUME NEW x \in 0 .. n-1, First(x), x # d
               PROVE  FALSE
    OBVIOUS
  <2>1. d \in 0 .. x-1 \/ x \in 0 .. d-1
    BY <1>2
  <2> QED
    BY <1>3, <2>1
<1>5. FreeLength(t, n, k) = d
  BY <1>3, <1>4 DEF FreeLength
<1> QED
  BY <1>1, <1>5 DEF FreeSlot

LEMMA RehashStepAnswers ==
  ASSUME IInv, DInv, RehashStep, UNCHANGED client
  PROVE  DInv'
<1>1. UNCHANGED <<pc, keys, vals, cap>> /\ pc = "rehash" /\ NewCap' = NewCap
  BY DEF RehashStep, table, NewCap
<1>2. ASSUME Exact
      PROVE  Rehashed'
  <2>1. /\ idx \in 0 .. cap-1 /\ idx' = idx + 1 /\ cap \in Nat
        /\ keys \in [0 .. cap-1 -> Slots] /\ DOMAIN nv = 0 .. NewCap-1
    BY <1>1 DEF RehashStep, IInv, TypeOK
  <2>2. Reached(keys, cap) /\ Worded(keys, vals) /\ Rehashed
    BY <1>1, <1>2 DEF DInv
  <2>3. CASE keys[idx] = NULL /\ UNCHANGED <<nk, nv>>
    <3>1. Moved' = Moved
      BY <1>1, <2>1, <2>3 DEF Moved, Occupied
    <3> QED
      BY <1>1, <2>2, <2>3, <3>1 DEF Rehashed
  <2>4. CASE keys[idx] # NULL
    <3> DEFINE k == keys[idx]
               p == FreeSlot(nk, NewCap, k)
    <3>1. nk' = [nk EXCEPT ![p] = k] /\ nv' = [nv EXCEPT ![p] = vals[idx]]
      BY <2>4 DEF RehashStep
    <3>2. k \in Keys /\ idx \in Occupied(keys)
      BY <2>1, <2>4 DEF Slots, Occupied
    <3>3. Moved' = Moved \cup {idx} /\ idx \notin Moved /\ Moved \subseteq Occupied(keys)
      BY <1>1, <2>1, <3>2 DEF Moved, Occupied
    <3>4. Table(nk, NewCap)
      BY <1>1, InUse
    <3>5. \A j \in Occupied(nk) : nk[j] # k
      BY <2>2, <3>2, <3>3, NoCopies DEF Rehashed
    <3>6. p = Probe(nk, NewCap, k)
      BY <3>2, <3>4, <3>5, FreeSlotIsProbe
    <3>7. p \in 0 .. NewCap-1 /\ nk[p] = NULL
      <4>1. Probe(nk, NewCap, k) \in 0 .. NewCap-1 /\ nk[Probe(nk, NewCap, k)] \in {NULL, k}
        BY <3>2, <3>4, ProbePath
      <4> HIDE DEF p
      <4>2. p \in DOMAIN nk
        BY <3>4, <3>6, <4>1 DEF Table
      <4> QED
        BY <3>2, <3>5, <3>6, <4>1, <4>2, NullAssumption DEF Occupied
    <3>8. Reached(nk', NewCap)
      BY <2>2, <3>1, <3>2, <3>4, <3>6, WriteReached DEF Rehashed
    <3> HIDE DEF p
    <3>9. /\ DOMAIN nk = 0 .. NewCap-1 /\ Occupied(nk') = Occupied(nk) \cup {p}
          /\ nk'[p] = keys[idx] /\ nv'[p] = vals[idx]
          /\ \A j \in Occupied(nk) : j # p /\ nk'[j] = nk[j] /\ nv'[j] = nv[j]
      BY <2>1, <3>1, <3>2, <3>4, <3>7, NullAssumption DEF Table, Occupied
    <3>10. \A i \in Moved' : \E j \in Occupied(nk') : nk'[j] = keys[i] /\ nv'[j] = vals[i]
      BY <2>2, <3>3, <3>9 DEF Rehashed
    <3>11. \A j \in Occupied(nk') : \E i \in Moved' : keys[i] = nk'[j] /\ nv'[j] = vals[i]
      BY <2>2, <3>3, <3>9 DEF Rehashed
    <3> QED
      BY <1>1, <3>8, <3>10, <3>11 DEF Rehashed
  <2> QED
    BY <2>3, <2>4 DEF RehashStep
<1> QED
  BY <1>1, <1>2 DEF DInv, Exact, Removable, AllocFails

\* Once every entry is moved, the new arrays answer as the old ones do.
LEMMA RehashedAnswers ==
  ASSUME IInv, DInv, Exact, pc = "rehash", idx = cap
  PROVE  /\ Reached(nk, NewCap)
         /\ Worded(nk, nv)
         /\ \A q \in Keys : Get(nk, nv, NewCap, q) = Get(keys, vals, cap, q)
<1>1. Reached(keys, cap) /\ Worded(keys, vals) /\ Rehashed
  BY DEF DInv
<1>2. Moved = Occupied(keys)
  BY DEF Moved, Occupied, IInv, TypeOK
<1>3. Table(nk, NewCap) /\ (cap # 0 => Table(keys, cap))
  BY InUse
<1>4. Worded(nk, nv)
  BY <1>1, <1>2 DEF Rehashed, Worded
<1>5. ASSUME NEW q \in Keys
      PROVE  Get(nk, nv, NewCap, q) = Get(keys, vals, cap, q)
  <2>1. CASE \E i \in Occupied(keys) : keys[i] = q
    <3>1. PICK i \in Occupied(keys) : keys[i] = q
      BY <2>1
    <3>2. PICK j \in Occupied(nk) : nk[j] = q /\ nv[j] = vals[i]
      BY <1>1, <1>2, <3>1 DEF Rehashed
    <3>3. cap # 0
      BY <3>1 DEF Occupied, IInv, TypeOK
    <3>4. Get(keys, vals, cap, q) = vals[i]
      BY <1>1, <1>3, <3>1, <3>3, GetPresent
    <3>5. Get(nk, nv, NewCap, q) = nv[j]
      BY <1>1, <1>3, <3>2, GetPresent DEF Rehashed
    <3> QED
      BY <3>2, <3>4, <3>5
  <2>2. CASE \A i \in Occupied(keys) : keys[i] # q
    <3>1. \A j \in Occupied(nk) : nk[j] # q
      BY <1>1, <1>2, <2>2 DEF Rehashed
    <3>2. Get(nk, nv, NewCap, q) = NULL
      BY <1>3, <3>1, GetAbsent
    <3>3. CASE cap = 0
      BY <3>2, <3>3 DEF Get
    <3>4. CASE cap # 0
      BY <1>3, <2>2, <3>2, <3>4, GetAbsent
    <3> QED
      BY <3>3, <3>4
  <2> QED
    BY <2>1, <2>2
<1> QED
  BY <1>1, <1>4, <1>5 DEF Rehashed

LEMMA RehashDoneAnswers ==
  ASSUME IInv, IInv', DInv, RehashDone, UNCHANGED client,
         NEW k \in Keys, NEW v \in Vals, pending = <<k, v>>
  PROVE  /\ "strdup" \notin AllocFails => Lookup(k)' = v
         /\ DInv'
         /\ Exact => \A q \in Keys : Lookup(q)' = IF q = k THEN v ELSE Lookup(q)
<1>1. /\ pc = "rehash" /\ pc' = "idle" /\ cap' = NewCap /\ idx = cap
      /\ Store(nk, nv, NewCap, k, v) /\ nv \in [0 .. NewCap-1 -> Words]
  BY DEF RehashDone, IInv, TypeOK
<1>2. NewCap # 0
  BY NewCapFacts DEF IInv
<1>3. Table(nk, NewCap) /\ Table(keys', NewCap)
  BY <1>1, <1>2, InUse, InUseAfter
<1>4. ASSUME "strdup" \notin AllocFails
      PROVE  Lookup(k)' = v
  <2>1. /\ keys'[Probe(nk, NewCap, k)] = k /\ vals'[Probe(nk, NewCap, k)] = v
        /\ Probe(keys', NewCap, k) = Probe(nk, NewCap, k)
    BY <1>1, <1>3, <1>4, StoreAnswers
  <2>2. Get(keys', vals', cap', k) = v
    BY <1>1, <1>2, <2>1 DEF Get
  <2> QED
    BY <1>1, <2>2 DEF Lookup, Found, Get
<1>5. ASSUME Exact
      PROVE  /\ Reached(keys', NewCap)
             /\ Worded(keys', vals')
             /\ Updates(keys', vals', nk, nv, NewCap, k, v)
  <2>1. "strdup" \notin AllocFails /\ Reached(nk, NewCap) /\ Worded(nk, nv)
    BY <1>1, <1>5, RehashedAnswers DEF Exact
  <2> QED
    BY <1>1, <1>3, <2>1, StoreAnswers
<1>6. DInv'
  BY <1>1, <1>5 DEF DInv, Exact, Removable, AllocFails
<1>7. Exact => \A q \in Keys : Lookup(q)' = IF q = k THEN v ELSE Lookup(q)
  <2> SUFFICES ASSUME Exact, NEW q \in Keys
               PROVE  Lookup(q)' = IF q = k THEN v ELSE Lookup(q)
    OBVIOUS
  <2>1. Lookup(q)' = IF q = k THEN v ELSE Get(nk, nv, NewCap, q)
    BY <1>1, <1>5, LookupIsGet DEF Updates
  <2>2. Get(nk, nv, NewCap, q) = Lookup(q)
    BY <1>1, RehashedAnswers, LookupIsGet
  <2> QED
    BY <2>1, <2>2
<1> QED
  BY <1>4, <1>6, <1>7

\* A table without entries answers nothing.
LEMMA EmptyAnswers ==
  ASSUME NEW n \in Nat
  PROVE  /\ Reached(EmptySlots(n), n)
         /\ \A w : Worded(EmptySlots(n), w)
         /\ \A w : \A k \in Keys : Get(EmptySlots(n), w, n, k) = NULL
<1>1. Occupied(EmptySlots(n)) = {} /\ EmptySlots(n) \in [0 .. n-1 -> {NULL}]
  BY FreshCounts
<1>2. ASSUME NEW w, NEW k \in Keys
      PROVE  Get(EmptySlots(n), w, n, k) = NULL
  <2>1. CASE n = 0
    BY <2>1 DEF Get
  <2>2. CASE n # 0
    <3>1. 0 \in 0 .. n-1 /\ EmptySlots(n) \in [0 .. n-1 -> Slots] /\ EmptySlots(n)[0] = NULL
      BY <1>1, <2>2 DEF Slots
    <3>2. Table(EmptySlots(n), n)
      BY <3>1 DEF Table
    <3> QED
      BY <1>1, <3>2, GetAbsent
  <2> QED
    BY <2>1, <2>2
<1> QED
  BY <1>1, <1>2 DEF Reached, Worded

LEMMA MapClearAnswers ==
  ASSUME IInv, DInv, MapClear \/ MapFree, UNCHANGED client
  PROVE  DInv' /\ \A q \in Keys : Lookup(q)' = NULL
<1>1. cap \in Nat
  BY DEF IInv, TypeOK
<1>2. keys' = EmptySlots(cap') /\ cap' \in Nat /\ pc' # "rehash" /\ (pc' = "null" => cap' = 0)
  BY <1>1 DEF MapClear, MapFree
<1>3. DInv'
  BY <1>2, EmptyAnswers DEF DInv
<1>4. \A q \in Keys : Lookup(q)' = NULL
  BY <1>2, EmptyAnswers, LookupIsGet
<1> QED
  BY <1>3, <1>4

\* A step that leaves the table alone.
LEMMA SameAnswers ==
  ASSUME DInv, UNCHANGED <<keys, vals, cap, client>>,
         pc' # "null" \/ cap = 0, (pc' = "null") = (pc = "null") \/ cap = 0
  PROVE  /\ pc' # "rehash" => DInv'
         /\ \A q \in Keys : Lookup(q)' = Lookup(q)
<1>1. pc' # "rehash" => DInv'
  BY DEF DInv, Exact, Removable, AllocFails
<1>2. \A q \in Keys : Lookup(q)' = Lookup(q)
  BY LookupIsGet DEF Get
<1> QED
  BY <1>1, <1>2

LEMMA MapSetGrowAnswers ==
  ASSUME IInv, DInv, NEW k \in Keys, NEW v \in Vals, MapSetGrow(k, v), UNCHANGED client
  PROVE  DInv' /\ \A q \in Keys : Lookup(q)' = Lookup(q)
<1>1. /\ pc = "idle" /\ pc' = "rehash" /\ UNCHANGED <<keys, vals, cap>>
      /\ nk' = EmptySlots(NewCap) /\ idx' = 0 /\ NewCap' = NewCap
  BY DEF MapSetGrow, table, NewCap
<1>2. NewCap \in Nat /\ DOMAIN keys = 0 .. cap-1 /\ cap \in Nat
  BY NewCapFacts DEF IInv, TypeOK
<1>3. Occupied(nk') = {} /\ Moved' = {} /\ Reached(nk', NewCap)
  <2>1. Moved' = {i \in Occupied(keys) : i < 0}
    BY <1>1 DEF Moved
  <2>2. Moved' = {}
    BY <1>2, <2>1 DEF Occupied
  <2> QED
    BY <1>1, <1>2, <2>2, FreshCounts, EmptyAnswers
<1>4. DInv'
  BY <1>1, <1>3 DEF DInv, Rehashed, Exact, Removable, AllocFails
<1> QED
  BY <1>1, <1>4, SameAnswers

\* map_remove empties the slot at which its probe stopped, so that the same
\* probe stops there again.
LEMMA MapRemoveAnswers ==
  ASSUME IInv, DInv, NEW k \in Keys, k \in Removable, MapRemove(k), UNCHANGED client
  PROVE  DInv' /\ Lookup(k)' = NULL
<1>1. pc = "idle" /\ pc' = "idle" /\ cap' = cap
  BY DEF MapRemove
<1>2. DInv'
  BY <1>1 DEF DInv, Exact, Removable
<1>3. CASE ~Found(k) /\ UNCHANGED <<keys, vals>>
  BY <1>1, <1>2, <1>3 DEF Lookup, Found
<1>4. CASE Found(k) /\ keys' = [keys EXCEPT ![Probe(keys, cap, k)] = NULL]
  <2> DEFINE i == Probe(keys, cap, k)
  <2>1. Table(keys, cap)
    BY <1>4, InUse DEF Found
  <2>2. PICK d \in 0 .. cap-1 :
             /\ i = Nth(k, cap, d)
             /\ i \in 0 .. cap-1
             /\ keys[i] \in {NULL, k}
             /\ StopsAt(keys, cap, k, d)
             /\ \A e \in 0 .. d-1 : /\ Nth(k, cap, e) \in 0 .. cap-1
                                    /\ keys[Nth(k, cap, e)] \notin {NULL, k}
    BY <2>1, ProbePath
  <2> HIDE DEF i
  <2>3. cap \in Nat /\ keys'[i] = NULL /\ \A x \in 0 .. cap-1 : x # i => keys'[x] = keys[x]
    BY <1>4, <2>1, <2>2 DEF Table, i
  <2>4. StopsAt(keys', cap, k, d)
    BY <2>2, <2>3 DEF StopsAt
  <2>5. \A e \in 0 .. d-1 : ~StopsAt(keys', cap, k, e)
    BY <2>2, <2>3 DEF StopsAt
  <2>6. Probe(keys', cap, k) = i
    BY <2>2, <2>3, <2>4, <2>5, ProbeIs
  <2> QED
    BY <1>1, <1>2, <2>3, <2>6, NullAssumption DEF Lookup, Found
<1> QED
  BY <1>2, <1>3, <1>4 DEF MapRemove

-----------------------------------------------------------------------------
(***************************************************************************)
(* The invariant holds.                                                    *)
(***************************************************************************)

LEMMA InitDInv == Init => DInv
<1> SUFFICES ASSUME Init
             PROVE  DInv
  OBVIOUS
<1>1. keys = EmptySlots(0) /\ cap = 0 /\ pc = "null"
  BY DEF Init
<1> QED
  BY <1>1, EmptyAnswers DEF DInv

\* The calls that do not touch the table.
Reads == \/ MapNew \/ Refuse \/ MapLen
         \/ \E k \in Keys : MapGet(k)
         \/ \E k \in Keys, v \in Vals : MapSetNoMemory(k, v)

LEMMA ReadsAnswer ==
  ASSUME IInv, DInv, Reads, UNCHANGED client
  PROVE  DInv' /\ \A q \in Keys : Lookup(q)' = Lookup(q)
<1>1. /\ UNCHANGED <<keys, vals, cap>> /\ pc' # "rehash" /\ pc \in {"null", "idle"}
      /\ pc' = pc \/ (pc = "null" /\ pc' = "idle")
  BY DEF Reads, MapNew, Refuse, MapLen, MapGet, MapSetNoMemory, table, IInv, TypeOK
<1>2. pc = "null" => cap = 0
  BY DEF DInv
<1> QED
  BY <1>1, <1>2, SameAnswers

LEMMA NextDInv == IInv /\ IInv' /\ DInv /\ [Next]_vars => DInv'
<1> SUFFICES ASSUME IInv, IInv', DInv, [Next]_vars
             PROVE  DInv'
  OBVIOUS
<1>1. CASE UNCHANGED vars
  BY <1>1 DEF vars, table, loop, DInv, Exact, Removable, AllocFails, Rehashed, Moved, NewCap
<1>2. CASE Reads /\ UNCHANGED client
  BY <1>2, ReadsAnswer
<1>3. ASSUME NEW k \in Keys, NEW v \in Vals, MapSet(k, v), UNCHANGED client
      PROVE  DInv'
  BY <1>3, MapSetAnswers
<1>4. ASSUME NEW k \in Keys, NEW v \in Vals, MapSetGrow(k, v), UNCHANGED client
      PROVE  DInv'
  BY <1>4, MapSetGrowAnswers
<1>5. CASE RehashStep /\ UNCHANGED client
  BY <1>5, RehashStepAnswers
<1>6. CASE RehashDone /\ UNCHANGED client
  <2>1. PICK k \in Keys, v \in Vals : pending = <<k, v>>
    BY <1>6 DEF RehashDone, IInv, TypeOK
  <2> QED
    BY <1>6, <2>1, RehashDoneAnswers
<1>7. ASSUME NEW k \in Removable, MapRemove(k), UNCHANGED client
      PROVE  DInv'
  BY <1>7, MapRemoveAnswers, ClientAssumption DEF IInv, TypeOK, Removable
<1>8. CASE (MapClear \/ MapFree) /\ UNCHANGED client
  BY <1>8, MapClearAnswers
<1> QED
  BY <1>1, <1>2, <1>3, <1>4, <1>5, <1>6, <1>7, <1>8 DEF Next, Call, Reads

LEMMA DInvHolds == Spec => []DInv
  BY InitDInv, NextDInv, InvariantHolds, PTL DEF Spec

-----------------------------------------------------------------------------
(***************************************************************************)
(* The theorems.                                                           *)
(***************************************************************************)

\* A program reads its own last write: map_set and map_remove leave their key
\* where the next probe for it stops, or in no slot of its way (frt.c:912-968),
\* whatever was removed before.
THEOREM OwnWritesAreRead == Spec => []ReadYourWrites
<1>1. Init => ReadYourWrites
  BY DEF Init, ReadYourWrites
<1>2. IInv /\ IInv' /\ DInv /\ ReadYourWrites /\ [Next]_vars => ReadYourWrites'
  <2> SUFFICES ASSUME IInv, IInv', DInv, ReadYourWrites, [Next]_vars
               PROVE  ReadYourWrites'
    OBVIOUS
  <2>1. CASE UNCHANGED vars
    BY <2>1 DEF vars, table, ReadYourWrites, Lookup, Found, AllocFails
  <2>2. CASE Reads /\ UNCHANGED client
    BY <2>2 DEF Reads, MapNew, Refuse, MapLen, MapGet, MapSetNoMemory, Answer, ReadYourWrites
  <2>3. ASSUME NEW k \in Keys, NEW v \in Vals, MapSet(k, v), UNCHANGED client
        PROVE  ReadYourWrites'
    <3>1. result' = [op |-> "set", key |-> k, code |-> 0, val |-> v]
      BY <2>3 DEF MapSet, Store, Answer
    <3>2. "strdup" \notin AllocFails => Lookup(k)' = v
      BY <2>3, MapSetAnswers
    <3> QED
      BY <2>3, <3>1, <3>2 DEF ReadYourWrites, AllocFails
  <2>4. CASE RehashStep \/ \E k \in Keys, v \in Vals : MapSetGrow(k, v)
    BY <2>4 DEF RehashStep, MapSetGrow, ReadYourWrites
  <2>5. CASE RehashDone /\ UNCHANGED client
    <3>1. PICK k \in Keys, v \in Vals : pending = <<k, v>>
      BY <2>5 DEF RehashDone, IInv, TypeOK
    <3>2. result' = [op |-> "set", key |-> k, code |-> 0, val |-> v]
      BY <2>5, <3>1 DEF RehashDone, Store, Answer
    <3>3. "strdup" \notin AllocFails => Lookup(k)' = v
      BY <2>5, <3>1, RehashDoneAnswers
    <3> QED
      BY <2>5, <3>2, <3>3 DEF ReadYourWrites, AllocFails
  <2>6. ASSUME NEW k \in Removable, MapRemove(k), UNCHANGED client
        PROVE  ReadYourWrites'
    <3>1. k \in Keys
      BY ClientAssumption DEF IInv, TypeOK, Removable
    <3>2. result'.op = "remove" /\ result'.key = k
      BY <2>6 DEF MapRemove, Answer
    <3>3. Lookup(k)' = NULL
      BY <2>6, <3>1, MapRemoveAnswers
    <3> QED
      BY <3>2, <3>3 DEF ReadYourWrites
  <2>7. CASE MapClear \/ MapFree
    BY <2>7 DEF MapClear, MapFree, Answer, ReadYourWrites
  <2> QED
    BY <2>1, <2>2, <2>3, <2>4, <2>5, <2>6, <2>7 DEF Next, Call, Reads
<1> QED
  BY <1>1, <1>2, InvariantHolds, DInvHolds, PTL DEF Spec

\* The count of an exact program is the number of keys that it finds.
LEMMA PresentCount ==
  ASSUME IInv, DInv, Exact, pc = "idle"
  PROVE  Cardinality({k \in Keys : Lookup(k) # NULL}) = used
<1> DEFINE P == {k \in Keys : Lookup(k) # NULL}
           f == [i \in Occupied(keys) |-> keys[i]]
<1>1. /\ keys \in [0 .. cap-1 -> Slots] /\ cap \in Nat
      /\ Reached(keys, cap) /\ Worded(keys, vals)
      /\ IsFiniteSet(Occupied(keys)) /\ used = Cardinality(Occupied(keys))
  BY OccupiedFinite DEF IInv, TypeOK, DInv, Counts, Exact
<1>2. ASSUME NEW i \in Occupied(keys)
      PROVE  keys[i] \in P
  <2>1. cap # 0 /\ keys[i] \in Keys
    BY <1>1 DEF Occupied, Slots
  <2>2. Get(keys, vals, cap, keys[i]) = vals[i]
    BY <1>1, <2>1, InUse, GetPresent
  <2> QED
    BY <1>1, <2>1, <2>2, LookupIsGet, WordAssumption DEF Worded
<1>3. ASSUME NEW k \in P
      PROVE  \E i \in Occupied(keys) : keys[i] = k
  <2>1. cap # 0 /\ keys[Probe(keys, cap, k)] = k
    BY DEF Lookup, Found
  <2>2. Probe(keys, cap, k) \in 0 .. cap-1
    BY <2>1, InUse, ProbePath
  <2> QED
    BY <1>1, <2>1, <2>2, NullAssumption DEF Occupied
<1> HIDE DEF P
<1>4. f \in [Occupied(keys) -> P]
  BY <1>2
<1>5. f \in Injection(Occupied(keys), P)
  BY <1>1, <1>4, NoCopies DEF Injection, IsInjective
<1>6. f \in Surjection(Occupied(keys), P)
  BY <1>3, <1>4 DEF Surjection
<1>7. ExistsBijection(Occupied(keys), P)
  BY <1>5, <1>6 DEF ExistsBijection, Bijection
<1> QED
  BY <1>1, <1>7, FS_Bijection DEF P

-----------------------------------------------------------------------------
(***************************************************************************)
(* The refinement.                                                         *)
(***************************************************************************)

\* A step of HashMap is a step of the dictionary or leaves it alone.
StepRefines == [Next]_vars => [Dictionary!Next]_(Dictionary!vars)

LEMMA SameDictionary ==
  ASSUME \A q \in Keys : Lookup(q)' = Lookup(q)
  PROVE  [q \in Keys |-> Lookup(q)]' = [q \in Keys |-> Lookup(q)]
  OBVIOUS

LEMMA ReadsRefine ==
  ASSUME IInv, DInv, Exact, Reads, UNCHANGED client
  PROVE  Dictionary!Call
<1> DEFINE dict == [q \in Keys |-> Lookup(q)]
<1>1. dict' = dict
  BY ReadsAnswer
<1>2. CASE MapNew
  <2>1. Dictionary!New
    BY <1>1, <1>2 DEF Dictionary!New, Dictionary!Answer, MapNew, Answer
  <2> QED
    BY <2>1 DEF Dictionary!Call
<1>3. CASE Refuse
  <2>1. (pc' # "null") = (pc # "null")
    BY <1>3 DEF Refuse
  <2>2. CASE Answer("set", NULL, -1, NULL)
    BY <1>1, <2>1, <2>2
       DEF Dictionary!Refuse, Dictionary!Answer, Answer, Dictionary!Call
  <2>3. ASSUME NEW op \in {"get", "remove", "len", "clear", "free"},
               Answer(op, NULL, 0, NULL)
        PROVE  Dictionary!Call
    BY <1>1, <2>1, <2>3
       DEF Dictionary!Refuse, Dictionary!Answer, Answer, Dictionary!Call
  <2> QED
    BY <1>3, <2>2, <2>3 DEF Refuse
<1>4. CASE MapLen
  <2>1. pc = "idle" /\ pc' = pc /\ Answer("len", NULL, used, NULL)
    BY <1>4 DEF MapLen
  <2>2. Dictionary!Present = {k \in Keys : Lookup(k) # NULL}
    BY DEF Dictionary!Present
  <2>3. Dictionary!Cardinality(Dictionary!Present) = used
    <3>1. Cardinality({k \in Keys : Lookup(k) # NULL}) = used
      BY <2>1, PresentCount
    <3> DEFINE P == {k \in Keys : Lookup(k) # NULL}
    <3> HIDE DEF P
    <3>2. Dictionary!Cardinality(P) = Cardinality(P)
      BY DEF Dictionary!Cardinality, Cardinality
    <3> QED
      BY <2>2, <3>1, <3>2 DEF P
  <2>4. Dictionary!Length
    BY <1>1, <2>1, <2>3 DEF Dictionary!Length, Dictionary!Answer, Answer
  <2> QED
    BY <2>4 DEF Dictionary!Call
<1>5. ASSUME NEW k \in Keys, MapGet(k)
      PROVE  Dictionary!Call
  <2>1. pc = "idle" /\ pc' = pc
        /\ Answer("get", k, IF Found(k) THEN 1 ELSE 0, Lookup(k))
    BY <1>5 DEF MapGet
  <2>2. Found(k) <=> Lookup(k) # NULL
    <3>1. CASE Found(k)
      <4>1. cap # 0 /\ keys[Probe(keys, cap, k)] = k
        BY <3>1 DEF Found
      <4>2. Probe(keys, cap, k) \in 0 .. cap-1
        BY <4>1, InUse, ProbePath
      <4>3. Probe(keys, cap, k) \in Occupied(keys)
        BY <4>1, <4>2, NullAssumption DEF Occupied, IInv, TypeOK
      <4>4. vals[Probe(keys, cap, k)] \in Vals
        BY <4>3 DEF DInv, Worded
      <4> QED
        BY <3>1, <4>4, WordAssumption DEF Lookup
    <3> QED
      BY <3>1 DEF Lookup
  <2>3. dict[k] = Lookup(k) /\ (k \in Dictionary!Present <=> Found(k))
    BY <2>2 DEF Dictionary!Present
  <2>4. Dictionary!Get(k)
    BY <1>1, <2>1, <2>3 DEF Dictionary!Get, Dictionary!Answer, Answer
  <2> QED
    BY <2>4 DEF Dictionary!Call
<1>6. ASSUME NEW k \in Keys, NEW v \in Vals, MapSetNoMemory(k, v)
      PROVE  Dictionary!Call
  <2>1. Dictionary!Set(k, v)
    BY <1>1, <1>6 DEF MapSetNoMemory, Dictionary!Set, Dictionary!Answer, Answer
  <2> QED
    BY <2>1 DEF Dictionary!Call
<1> QED
  BY <1>2, <1>3, <1>4, <1>5, <1>6 DEF Reads

\* A call that answers 0 to map_set has put v under k.
LEMMA SetRefines ==
  ASSUME NEW k \in Keys, NEW v \in Vals, pc # "null", pc' # "null",
         Answer("set", k, 0, v),
         \A q \in Keys : Lookup(q)' = IF q = k THEN v ELSE Lookup(q)
  PROVE  Dictionary!Call
<1> DEFINE dict == [q \in Keys |-> Lookup(q)]
<1>1. dict' = [dict EXCEPT ![k] = v]
  OBVIOUS
<1>2. Dictionary!Set(k, v)
  BY <1>1 DEF Dictionary!Set, Dictionary!Answer, Answer
<1> QED
  BY <1>2 DEF Dictionary!Call

LEMMA EmptyRefines ==
  ASSUME \A q \in Keys : Lookup(q)' = NULL, MapClear \/ MapFree
  PROVE  Dictionary!Call
<1> DEFINE dict == [q \in Keys |-> Lookup(q)]
<1>1. dict' = Dictionary!EmptyDict
  BY DEF Dictionary!EmptyDict
<1>2. CASE MapClear
  <2>1. Dictionary!Clear
    BY <1>1, <1>2 DEF MapClear, Dictionary!Clear, Dictionary!Answer, Answer
  <2> QED
    BY <2>1 DEF Dictionary!Call
<1>3. CASE MapFree
  <2>1. Dictionary!Free
    BY <1>1, <1>3 DEF MapFree, Dictionary!Free, Dictionary!Answer, Answer
  <2> QED
    BY <2>1 DEF Dictionary!Call
<1> QED
  BY <1>2, <1>3

LEMMA NextRefines == IInv /\ IInv' /\ DInv => StepRefines
<1> SUFFICES ASSUME IInv, IInv', DInv, [Next]_vars
             PROVE  [Dictionary!Next]_(Dictionary!vars)
  BY DEF StepRefines
<1> DEFINE dict == [q \in Keys |-> Lookup(q)]
<1>1. CASE UNCHANGED vars
  <2>1. dict' = dict
    BY <1>1 DEF vars, table, Lookup, Found
  <2> QED
    BY <1>1, <2>1 DEF vars, table, Dictionary!vars, Exact, Removable, AllocFails
<1>2. CASE Next
  <2>1. UNCHANGED client /\ Call /\ Exact' = Exact
    BY <1>2 DEF Next, Exact, Removable, AllocFails
  <2>2. CASE ~Exact
    BY <2>1, <2>2 DEF Dictionary!Next
  <2>3. CASE Exact /\ (RehashStep \/ \E k \in Keys, v \in Vals : MapSetGrow(k, v))
    <3>1. UNCHANGED <<keys, vals, cap, result>> /\ pc' # "null" /\ pc # "null"
      BY <2>3 DEF RehashStep, MapSetGrow, table
    <3>2. dict' = dict
      BY <2>1, <3>1, SameAnswers
    <3> QED
      BY <2>1, <3>1, <3>2 DEF Dictionary!vars
  <2>4. CASE Exact /\ Reads
    BY <2>1, <2>4, ReadsRefine DEF Dictionary!Next
  <2>5. ASSUME Exact, NEW k \in Keys, NEW v \in Vals, MapSet(k, v)
        PROVE  Dictionary!Call
    <3>1. pc # "null" /\ pc' # "null" /\ Answer("set", k, 0, v)
      BY <2>5 DEF MapSet, Store
    <3>2. \A q \in Keys : Lookup(q)' = IF q = k THEN v ELSE Lookup(q)
      BY <2>1, <2>5, MapSetAnswers
    <3> QED
      BY <3>1, <3>2, SetRefines
  <2>6. ASSUME Exact, RehashDone
        PROVE  Dictionary!Call
    <3>1. PICK k \in Keys, v \in Vals : pending = <<k, v>>
      BY <2>6 DEF RehashDone, IInv, TypeOK
    <3>2. pc # "null" /\ pc' # "null" /\ Answer("set", k, 0, v)
      BY <2>6, <3>1 DEF RehashDone, Store
    <3>3. \A q \in Keys : Lookup(q)' = IF q = k THEN v ELSE Lookup(q)
      BY <2>1, <2>6, <3>1, RehashDoneAnswers
    <3> QED
      BY <3>2, <3>3, SetRefines
  <2>7. ASSUME Exact, MapClear \/ MapFree
        PROVE  Dictionary!Call
    BY <2>1, <2>7, MapClearAnswers, EmptyRefines
  <2>8. Exact => ~\E k \in Removable : MapRemove(k)
    BY DEF Exact
  <2> QED
    BY <2>1, <2>2, <2>3, <2>4, <2>5, <2>6, <2>7, <2>8
       DEF Call, Reads, Dictionary!Next
<1> QED
  BY <1>1, <1>2

\* For a program that removes no key and whose strdup does not fail, every
\* call on the table (frt.c:861-991) answers what a dictionary would, also
\* across map_grow: the probe for a key meets the key's only slot before an
\* empty one.
THEOREM TableImplementsDictionary == Spec => ImplementsDictionary
<1>1. Init => Dictionary!Init
  <2> SUFFICES ASSUME Init
               PROVE  Dictionary!Init
    OBVIOUS
  <2>1. [k \in Keys |-> Lookup(k)] = Dictionary!EmptyDict
    BY DEF Init, Lookup, Found, Dictionary!EmptyDict
  <2>2. Exact \in BOOLEAN
    BY DEF Exact
  <2> QED
    BY <2>1, <2>2 DEF Init, Dictionary!Init
<1>2. IInv /\ IInv' /\ DInv => ([Next]_vars => [Dictionary!Next]_(Dictionary!vars))
  BY NextRefines DEF StepRefines
<1> QED
  BY <1>1, <1>2, InvariantHolds, DInvHolds, PTL
     DEF Spec, ImplementsDictionary, Dictionary!Spec
=============================================================================
