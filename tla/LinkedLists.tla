---------------------------- MODULE LinkedLists ----------------------------
(***************************************************************************)
(* LinkedList (frt.c:994-1102): nodes on the heap, linked both ways.       *)
(***************************************************************************)
EXTENDS Integers, FiniteSetsExt, Functions

CONSTANTS
  Words,   \* The words a program stores: naturals other than 0.
  Indices, \* The indices it asks for.
  Heap     \* Bound: the addresses calloc may return, naturals other than 0.

VARIABLES
  kind,   \* "list"
  state,  \* "null": no list; "fault": a node was written through null.
  nodes,  \* The allocated nodes, by address.
  head,
  tail,
  len,
  answer

list == <<nodes, head, tail, len>>
vars == <<kind, state, list, answer>>

NullPtr == 0
Fresh == Min(Heap \ DOMAIN nodes)
Exhausted == Heap \subseteq DOMAIN nodes

Open == kind = "list" /\ state = "open"
Reads(v) == answer' = <<v>> /\ UNCHANGED <<kind, state, list>>
Returns(v) == answer' = <<v>> /\ UNCHANGED <<kind, state>>

Init ==
  /\ state = "null" /\ nodes = << >>
  /\ head = NullPtr /\ tail = NullPtr /\ len = 0 /\ answer = << >>

New ==
  /\ kind = "list" /\ state = "null"
  /\ state' \in {"null", "open"}
  /\ UNCHANGED <<kind, list, answer>>

Refuse == kind = "list" /\ state = "null" /\ \E v \in {0, -1} : Reads(v)

\* calloc's result is not checked.
NodeFault == Open /\ state' = "fault" /\ UNCHANGED <<kind, list, answer>>

\* nodes, where the field of a node changes if there is one.
Linked(ns, n, field, to) ==
  IF n = NullPtr THEN ns ELSE [ns EXCEPT ![n] = [@ EXCEPT ![field] = to]]

\* ns with a node where there was none.
With(ns, n, node) == [m \in DOMAIN ns \cup {n} |-> IF m = n THEN node ELSE ns[m]]

PushBack(w) ==
  /\ Open /\ ~Exhausted
  /\ nodes' = With(Linked(nodes, tail, "next", Fresh), Fresh,
                   [next |-> NullPtr, prev |-> tail, word |-> w])
  /\ head' = IF tail = NullPtr THEN Fresh ELSE head
  /\ tail' = Fresh
  /\ len' = len + 1
  /\ Returns(0)

\* list_push is list_push_front.
PushFront(w) ==
  /\ Open /\ ~Exhausted
  /\ nodes' = With(Linked(nodes, head, "prev", Fresh), Fresh,
                   [next |-> head, prev |-> NullPtr, word |-> w])
  /\ tail' = IF head = NullPtr THEN Fresh ELSE tail
  /\ head' = Fresh
  /\ len' = len + 1
  /\ Returns(0)

Freed(ns, n) == Restrict(ns, DOMAIN ns \ {n})

\* list_pop is list_pop_front.
PopFront ==
  /\ Open
  /\ \/ /\ head # NullPtr
        /\ LET first == nodes[head].next IN
           /\ head' = first
           /\ tail' = IF first = NullPtr THEN NullPtr ELSE tail
           /\ nodes' = Linked(Freed(nodes, head), first, "prev", NullPtr)
        /\ len' = len - 1
        /\ Returns(nodes[head].word)
     \/ head = NullPtr /\ Reads(-1)

PopBack ==
  /\ Open
  /\ \/ /\ tail # NullPtr
        /\ LET last == nodes[tail].prev IN
           /\ tail' = last
           /\ head' = IF last = NullPtr THEN NullPtr ELSE head
           /\ nodes' = Linked(Freed(nodes, tail), last, "next", NullPtr)
        /\ len' = len - 1
        /\ Returns(nodes[tail].word)
     \/ tail = NullPtr /\ Reads(-1)

\* The node that i steps along `field` reach from n.
Walk(n, field, i) ==
  LET at[j \in 0 .. i] == IF j = 0 THEN n
                          ELSE IF at[j - 1] \notin DOMAIN nodes THEN NullPtr
                          ELSE nodes[at[j - 1]][field]
  IN  at[i]

Get(i) ==
  LET n == Walk(head, "next", i)
  IN  Open /\ Reads(IF n = NullPtr THEN 0 ELSE nodes[n].word)

Length == Open /\ Reads(len)

\* The nodes that list_clear frees on its way.
Reached == {Walk(head, "next", i) : i \in 0 .. Cardinality(DOMAIN nodes)} \ {NullPtr}

Clear ==
  /\ Open
  /\ nodes' = Restrict(nodes, DOMAIN nodes \ Reached)
  /\ head' = NullPtr /\ tail' = NullPtr /\ len' = 0
  /\ Returns(0)

\* list_free clears first.
Free ==
  /\ Open /\ state' = "null"
  /\ nodes' = Restrict(nodes, DOMAIN nodes \ Reached)
  /\ head' = NullPtr /\ tail' = NullPtr /\ len' = 0
  /\ UNCHANGED <<kind, answer>>

Next ==
  \/ New \/ Refuse \/ Free \/ NodeFault
  \/ \E w \in Words : PushBack(w) \/ PushFront(w)
  \/ PopFront \/ PopBack \/ Clear \/ Length
  \/ \E i \in Indices : Get(i)
-----------------------------------------------------------------------------
Forward == [i \in 1 .. len |-> Walk(head, "next", i - 1)]
Backward == [i \in 1 .. len |-> Walk(tail, "prev", i - 1)]

Contents == [i \in 1 .. len |-> nodes[Forward[i]].word]

\* Both ways along the list visit the same nodes, in opposite orders, and these
\* are all the nodes there are: none is leaked and none is used after free.
WellFormed ==
  /\ len = Cardinality(DOMAIN nodes)
  /\ {Forward[i] : i \in 1 .. len} = DOMAIN nodes
  /\ \A i \in 1 .. len : Backward[i] = Forward[len + 1 - i]
  /\ Walk(head, "next", len) = NullPtr /\ Walk(tail, "prev", len) = NullPtr
=============================================================================
