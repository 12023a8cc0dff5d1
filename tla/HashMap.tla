------------------------------ MODULE HashMap ------------------------------
(***************************************************************************)
(* The string-keyed map of the runtime (frt.c:861-991): an open-addressing *)
(* table with linear probing that doubles when it is half full.            *)
(*                                                                         *)
(* A call is one step, except a map_set that must grow first: the loop     *)
(* that moves the entries to the new arrays is one step per old slot, so   *)
(* that its loop invariant can be stated and proved.  A table has a single *)
(* owner, so nothing else runs between those steps.                        *)
(***************************************************************************)
EXTENDS Integers, FiniteSets

CONSTANTS
  Keys,       \* The strings a program uses as keys.
  Vals,       \* The 64-bit words it stores.
  NULL,       \* The null pointer; also the zeroed word of an empty slot.
  Hash,       \* The FNV hash of each key, before it is reduced mod cap.
  InitCap,    \* Slots of the first table (16 in the code).
  MaxCap,     \* Bound: calloc provides no larger table.
  Clients     \* The programs: the keys each ever passes to map_remove, and
              \* the allocations that may fail in it.

ASSUME NullAssumption == NULL \notin Keys
ASSUME WordAssumption == NULL \notin Vals  \* The zeroed word of an empty slot is never read.
ASSUME HashAssumption == Hash \in [Keys -> Nat]
ASSUME CapAssumption == /\ InitCap \in Nat \ {0}
                        /\ InitCap % 2 = 0
                        /\ MaxCap \in Nat
ASSUME ClientAssumption ==
  Clients \subseteq [removable : SUBSET Keys, fails : SUBSET {"calloc", "strdup"}]

VARIABLES
  pc,      \* "null": no table; "idle": between calls; "rehash": in map_grow.
  keys,    \* m->keys, a function on 0 .. cap-1.
  vals,    \* m->vals
  used,    \* m->used
  cap,     \* m->cap
  idx,     \* map_grow's i
  nk,      \* map_grow's nk
  nv,      \* map_grow's nv
  pending, \* <<key, val>> of the map_set that is growing the table.
  result,  \* The answer of the last call that returned.
  client   \* The program that uses the map; it does not change.

Removable  == client.removable
AllocFails == client.fails

table == <<keys, vals, used, cap>>
loop  == <<idx, nk, nv, pending>>
vars  == <<pc, table, loop, result, client>>

\* Mutant: malloc where the code has calloc.
EmptySlotsUncleared(n) == [i \in 0 .. n-1 |-> CHOOSE k \in Keys : TRUE]

EmptySlots(n) == [i \in 0 .. n-1 |-> NULL]

Occupied(t) == {i \in DOMAIN t : t[i] # NULL}

\* The slot that d steps of `i = (i + 1) % cap` reach from map_hash(key, cap).
Nth(k, n, d) == ((Hash[k] % n) + d) % n

\* The slot at which a probe for k stops: the first that is empty or holds k.
StopsAt(t, n, k, d) == t[Nth(k, n, d)] \in {NULL, k}
ProbeLength(t, n, k) ==
  CHOOSE d \in 0 .. n-1 : /\ StopsAt(t, n, k, d)
                          /\ \A e \in 0 .. d-1 : ~StopsAt(t, n, k, e)
Probe(t, n, k) == Nth(k, n, ProbeLength(t, n, k))

\* map_grow's probe stops at empty slots only.
FreeAt(t, n, k, d) == t[Nth(k, n, d)] = NULL
FreeLength(t, n, k) ==
  CHOOSE d \in 0 .. n-1 : /\ FreeAt(t, n, k, d)
                          /\ \A e \in 0 .. d-1 : ~FreeAt(t, n, k, e)

\* Mutant: the rehash overwrites instead of probing on.
FreeSlotNoProbe(t, n, k) == Nth(k, n, 0)

FreeSlot(t, n, k) == Nth(k, n, FreeLength(t, n, k))

Found(k) == pc # "null" /\ cap # 0 /\ keys[Probe(keys, cap, k)] = k

Lookup(k) == IF Found(k) THEN vals[Probe(keys, cap, k)] ELSE NULL

NewCap == IF cap = 0 THEN InitCap ELSE 2 * cap

Answer(op, k, code, v) ==
  result' = [op |-> op, key |-> k, code |-> code, val |-> v]

Init ==
  /\ pc = "null"
  /\ keys = EmptySlots(0) /\ vals = EmptySlots(0)
  /\ used = 0 /\ cap = 0
  /\ idx = 0 /\ nk = EmptySlots(0) /\ nv = EmptySlots(0)
  /\ pending = <<NULL, NULL>>
  /\ result = [op |-> "none", key |-> NULL, code |-> 0, val |-> NULL]
  /\ client \in Clients

-----------------------------------------------------------------------------
MapNew ==
  /\ pc = "null"
  /\ \/ /\ pc' = "idle"
        /\ Answer("new", NULL, 1, NULL)
     \/ /\ "calloc" \in AllocFails
        /\ pc' = "null"
        /\ Answer("new", NULL, 0, NULL)
  /\ UNCHANGED <<table, loop>>

\* The early returns on a null map (any call) or a null key (set, get, remove).
Refuse ==
  /\ pc # "rehash"
  /\ \/ Answer("set", NULL, -1, NULL)
     \/ \E op \in {"get", "remove"} : Answer(op, NULL, 0, NULL)
     \/ \E op \in {"len", "clear", "free"} : /\ pc = "null"
                                             /\ Answer(op, NULL, 0, NULL)
  /\ UNCHANGED <<pc, table, loop>>

\* The rest of map_set once the table t, w of n slots has room.  strdup's
\* result is stored unchecked.
Store(t, w, n, k, v) ==
  LET i == Probe(t, n, k) IN
  /\ vals' = [w EXCEPT ![i] = v]
  /\ \/ /\ t[i] = NULL
        /\ used' = used + 1
        /\ \/ keys' = [t EXCEPT ![i] = k]
           \/ "strdup" \in AllocFails /\ keys' = t
     \/ /\ t[i] = k
        /\ keys' = t
        /\ UNCHANGED used
  /\ Answer("set", k, 0, v)

\* Mutant: grow only when every slot is counted.
MustGrowWhenFull == used >= cap

MustGrow == used * 2 >= cap

MapSet(k, v) ==
  /\ pc = "idle"
  /\ ~MustGrow
  /\ Store(keys, vals, cap, k, v)
  /\ UNCHANGED <<pc, cap, loop>>

MapSetNoMemory(k, v) ==
  /\ pc = "idle"
  /\ MustGrow
  /\ "calloc" \in AllocFails \/ NewCap > MaxCap
  /\ Answer("set", k, -1, v)
  /\ UNCHANGED <<pc, table, loop>>

MapSetGrow(k, v) ==
  /\ pc = "idle"
  /\ MustGrow
  /\ NewCap <= MaxCap
  /\ pc' = "rehash"
  /\ idx' = 0
  /\ nk' = EmptySlots(NewCap)
  /\ nv' = EmptySlots(NewCap)
  /\ pending' = <<k, v>>
  /\ UNCHANGED <<table, result>>

\* One turn of map_grow's loop over the old slots.
RehashStep ==
  /\ pc = "rehash"
  /\ idx < cap
  /\ idx' = idx + 1
  /\ \/ /\ keys[idx] = NULL
        /\ UNCHANGED <<nk, nv>>
     \/ /\ keys[idx] # NULL
        /\ LET j == FreeSlot(nk, NewCap, keys[idx]) IN
           /\ nk' = [nk EXCEPT ![j] = keys[idx]]
           /\ nv' = [nv EXCEPT ![j] = vals[idx]]
  /\ UNCHANGED <<pc, table, pending, result>>

\* map_grow installs the new arrays and returns; map_set then stores.
RehashDone ==
  /\ pc = "rehash"
  /\ idx = cap
  /\ pc' = "idle"
  /\ cap' = NewCap
  /\ Store(nk, nv, NewCap, pending[1], pending[2])
  /\ idx' = 0
  /\ nk' = EmptySlots(0)
  /\ nv' = EmptySlots(0)
  /\ pending' = <<NULL, NULL>>

\* map_get, and map_has, which is map_get without an out pointer.
MapGet(k) ==
  /\ pc = "idle"
  /\ Answer("get", k, IF Found(k) THEN 1 ELSE 0, Lookup(k))
  /\ UNCHANGED <<pc, table, loop>>

\* Mutant: the count goes down whether or not the key was found.
MapRemoveUnderflows(k) ==
  /\ pc = "idle"
  /\ used' = used - 1
  /\ Answer("remove", k, 0, NULL)
  /\ UNCHANGED <<pc, keys, vals, cap, loop>>

\* Mutant: the entry is uncounted and stays in its slot.
MapRemoveKeepsEntry(k) ==
  /\ pc = "idle"
  /\ Found(k)
  /\ used' = used - 1
  /\ Answer("remove", k, 1, NULL)
  /\ UNCHANGED <<pc, keys, vals, cap, loop>>

MapRemove(k) ==
  /\ pc = "idle"
  /\ \/ /\ Found(k)
        /\ LET i == Probe(keys, cap, k) IN
           /\ keys' = [keys EXCEPT ![i] = NULL]
           /\ vals' = [vals EXCEPT ![i] = NULL]
        /\ used' = used - 1
        /\ Answer("remove", k, 1, NULL)
     \/ /\ ~Found(k)
        /\ Answer("remove", k, 0, NULL)
        /\ UNCHANGED <<keys, vals, used>>
  /\ UNCHANGED <<pc, cap, loop>>

MapLen ==
  /\ pc = "idle"
  /\ Answer("len", NULL, used, NULL)
  /\ UNCHANGED <<pc, table, loop>>

\* Mutant: used is not reset.
MapClearKeepsUsed ==
  /\ pc = "idle"
  /\ keys' = EmptySlots(cap) /\ vals' = EmptySlots(cap)
  /\ Answer("clear", NULL, 0, NULL)
  /\ UNCHANGED <<pc, used, cap, loop>>

MapClear ==
  /\ pc = "idle"
  /\ keys' = EmptySlots(cap)
  /\ vals' = EmptySlots(cap)
  /\ used' = 0
  /\ Answer("clear", NULL, 0, NULL)
  /\ UNCHANGED <<pc, cap, loop>>

\* The program drops the pointer it freed: a later call sees a null map.
MapFree ==
  /\ pc = "idle"
  /\ pc' = "null"
  /\ keys' = EmptySlots(0) /\ vals' = EmptySlots(0)
  /\ used' = 0 /\ cap' = 0
  /\ Answer("free", NULL, 0, NULL)
  /\ UNCHANGED loop

Call ==
  \/ MapNew
  \/ Refuse
  \/ \E k \in Keys, v \in Vals : \/ MapSet(k, v)
                                 \/ MapSetNoMemory(k, v)
                                 \/ MapSetGrow(k, v)
  \/ RehashStep
  \/ RehashDone
  \/ \E k \in Keys : MapGet(k)
  \/ \E k \in Removable : MapRemove(k)
  \/ MapLen
  \/ MapClear
  \/ MapFree

Next == Call /\ UNCHANGED client

Spec == Init /\ [][Next]_vars

-----------------------------------------------------------------------------
Words == Vals \cup {NULL}
Slots == Keys \cup {NULL}

\* Type invariant: the arrays have cap slots each, and while map_grow runs
\* its arrays have NewCap slots and its index stays within the old table.
TypeOK ==
  /\ pc \in {"null", "idle", "rehash"}
  /\ cap \in Nat /\ used \in Nat
  /\ keys \in [0 .. cap-1 -> Slots]
  /\ vals \in [0 .. cap-1 -> Words]
  /\ idx \in 0 .. cap
  /\ client \in Clients
  /\ IF pc = "rehash"
     THEN /\ nk \in [0 .. NewCap-1 -> Slots]
          /\ nv \in [0 .. NewCap-1 -> Words]
          /\ pending \in Keys \X Vals
     ELSE /\ idx = 0
          /\ nk = EmptySlots(0)
          /\ nv = EmptySlots(0)
          /\ pending = <<NULL, NULL>>

\* The load factor: `used` counts at least the occupied slots, whatever
\* strdup and map_remove did, and at least half of a table is free after
\* every call (the growth test of map_set, frt.c:916).
LoadBound ==
  /\ Cardinality(Occupied(keys)) <= used
  /\ 2 * used <= cap

\* The `while` loops of map_set, map_get and map_remove (frt.c:919, 935, 955)
\* have no other exit than an empty slot or the key: one is always reached.
ProbesTerminate ==
  cap # 0 => \A k \in Keys : \E d \in 0 .. cap-1 : StopsAt(keys, cap, k, d)

\* So does the loop of map_grow that looks for an empty slot (frt.c:899).
RehashTerminates ==
  pc = "rehash" =>
    \A k \in Keys : \E d \in 0 .. NewCap-1 : FreeAt(nk, NewCap, k, d)

\* map_len is the number of occupied slots as long as strdup never fails: no
\* call counts an entry twice or forgets to uncount one.
LenIsExact == "strdup" \notin AllocFails => used = Cardinality(Occupied(keys))

\* A program reads its own last write: after map_set answered 0 the key holds
\* the word, and after map_remove answered the key is absent, even when
\* earlier removals left the key in two slots of its probe chain.  A key whose
\* strdup fails is stored nowhere.
ReadYourWrites ==
  pc = "idle" /\ "strdup" \notin AllocFails =>
    /\ result.op = "set" /\ result.code = 0 =>
         Lookup(result.key) = result.val
    /\ result.op = "remove" /\ result.key # NULL =>
         Lookup(result.key) = NULL

\* The programs that the promise is made to: nothing is removed, and strdup
\* does not fail.
Exact == Removable = {} /\ "strdup" \notin AllocFails

\* As long as the program removes nothing and strdup does not fail, the table
\* implements the dictionary of KeyValueMap (README.md:159): every call
\* answers what a dictionary would, and growing is invisible.
Dictionary == INSTANCE KeyValueMap WITH
  open <- (pc # "null"),
  dict <- [k \in Keys |-> Lookup(k)],
  exact <- Exact

ImplementsDictionary == Dictionary!Spec
=============================================================================
