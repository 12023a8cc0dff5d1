------------------------------- MODULE Arena -------------------------------
(***************************************************************************)
(* The arena of the runtime (frt.c:30-35, 517-584): the list of the heap   *)
(* blocks one scope of the program owns.  An arena is the sequence of its  *)
(* ptrs; the spare capacity of that list is not kept.  These operators     *)
(* have no state: ScopeArenas.tla runs them on the heap.                   *)
(***************************************************************************)
LOCAL INSTANCE Integers
LOCAL INSTANCE Sequences

CONSTANT NULL

\* __cshift_arena_init
EmptyArena == << >>

\* Mutant: the NULL check is dropped.
ArenaPushUnchecked(a, p) == Append(a, p)

\* __cshift_arena_push
ArenaPush(a, p) == IF p = NULL THEN a ELSE Append(a, p)

\* Mutant: every growth pushes a new entry and leaves the old one behind.
ArenaReallocPushes(a, old, new) == ArenaPush(a, new)

\* __cshift_arena_realloc_track: the last entry that is old becomes new; a
\* block that was not tracked is pushed.
ArenaReallocTrack(a, old, new) ==
  IF new = NULL THEN a
  ELSE IF \E i \in DOMAIN a : a[i] = old
       THEN LET last == CHOOSE i \in DOMAIN a :
                          /\ a[i] = old
                          /\ \A j \in DOMAIN a : a[j] = old => j <= i
            IN [a EXCEPT ![last] = new]
       ELSE ArenaPush(a, new)

\* The blocks that __cshift_arena_free_all and __cshift_arena_reset free.
Tracked(a) == {a[i] : i \in DOMAIN a}

\* Freeing them is safe when every one is live and listed once.
SafeToFree(a, live) ==
  /\ Tracked(a) \subseteq live
  /\ \A i, j \in DOMAIN a : a[i] = a[j] => i = j
=============================================================================
