---------------------------- MODULE KeyValueMap ----------------------------
(***************************************************************************)
(* What the runtime's map promises a C<< program: a dictionary from keys   *)
(* to 64-bit words.  HashMap.tla is the table that frt.c implements it     *)
(* with.  result is the answer of the last call that returned.             *)
(***************************************************************************)
EXTENDS Integers, FiniteSets

CONSTANTS
  Keys,   \* The strings a program uses as keys.
  Vals,   \* The 64-bit words it stores.
  NULL    \* The null pointer, and "no word".

VARIABLES
  open,   \* TRUE from a successful map_new to map_free.
  dict,   \* dict[k] is the word stored under k, or NULL.
  result, \* [op, key, code, val] of the last call that returned.
  exact   \* Whether the program is one to which the promise is made.

vars == <<open, dict, result, exact>>

EmptyDict == [k \in Keys |-> NULL]

Present == {k \in Keys : dict[k] # NULL}

Answer(op, k, code, v) ==
  result' = [op |-> op, key |-> k, code |-> code, val |-> v]

Init ==
  /\ exact \in BOOLEAN
  /\ open = FALSE
  /\ dict = EmptyDict
  /\ result = [op |-> "none", key |-> NULL, code |-> 0, val |-> NULL]

New ==
  /\ ~open
  /\ open' \in BOOLEAN
  /\ Answer("new", NULL, IF open' THEN 1 ELSE 0, NULL)
  /\ UNCHANGED dict

\* A call on a null map or with a null key is refused.
Refuse(op, code) ==
  /\ Answer(op, NULL, code, NULL)
  /\ UNCHANGED <<open, dict>>

\* Storing either takes effect and answers 0, or answers -1 and changes
\* nothing.
Set(k, v) ==
  /\ open
  /\ \/ /\ dict' = [dict EXCEPT ![k] = v]
        /\ Answer("set", k, 0, v)
     \/ /\ Answer("set", k, -1, v)
        /\ UNCHANGED dict
  /\ UNCHANGED open

Get(k) ==
  /\ open
  /\ Answer("get", k, IF k \in Present THEN 1 ELSE 0, dict[k])
  /\ UNCHANGED <<open, dict>>

Remove(k) ==
  /\ open
  /\ dict' = [dict EXCEPT ![k] = NULL]
  /\ Answer("remove", k, IF k \in Present THEN 1 ELSE 0, NULL)
  /\ UNCHANGED open

Length ==
  /\ open
  /\ Answer("len", NULL, Cardinality(Present), NULL)
  /\ UNCHANGED <<open, dict>>

Clear ==
  /\ open
  /\ dict' = EmptyDict
  /\ Answer("clear", NULL, 0, NULL)
  /\ UNCHANGED open

Free ==
  /\ open
  /\ open' = FALSE
  /\ dict' = EmptyDict
  /\ Answer("free", NULL, 0, NULL)

Call ==
  \/ New
  \/ Refuse("set", -1)
  \/ \E op \in {"get", "remove", "len", "clear", "free"} : Refuse(op, 0)
  \/ \E k \in Keys, v \in Vals : Set(k, v)
  \/ \E k \in Keys : Get(k) \/ Remove(k)
  \/ Length
  \/ Clear
  \/ Free

\* Nothing is promised to the other programs.
Next == UNCHANGED exact /\ (exact => Call)

Spec == Init /\ [][Next]_vars
=============================================================================
