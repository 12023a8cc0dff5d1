---------------------------- MODULE ScopeArenas ----------------------------
(***************************************************************************)
(* The memory of one C<< function: the arena code that codegen.hh emits    *)
(* for its scopes, run on the arenas of frt.c.                             *)
(*                                                                         *)
(* A program is a sequence of statements, each a record with an op:        *)
(*   "decl"    T[] x;               "append"  x << e;                     *)
(*   "list"    a container whose constructor allocates one header          *)
(*   "vector"  a container whose header owns a buffer (vec_new, map_new)   *)
(*   "reset"  "break"  "continue"  "tunnel"                                *)
(*   "if"  "while"                   open a block, "end" closes it.        *)
(* A "for" is a while and an "else" another if, as far as arenas go.       *)
(* Which way a condition goes is open.                                     *)
(*                                                                         *)
(* The emitter decides in text order which scope's arena a statement uses  *)
(* and where the arena is initialised; the operators on programs below are *)
(* that pass.  The actions are the emitted code.                           *)
(***************************************************************************)
EXTENDS Integers, Sequences, Blocks

CONSTANTS
  Programs,     \* The functions to run.
  Addr,         \* Addresses malloc and realloc hand out.
  NULL,         \* The null pointer.
  UNINIT,       \* The contents of an arena struct before arena_init.
  FirstCap,     \* Capacity of a T[] grown from empty (8 in the code).
  MaxTrips,     \* Bound: loop iterations of one execution.
  AllocMayFail  \* Whether malloc and realloc may return NULL.

ASSUME AddrAssumption == NULL \notin Addr
ASSUME BoundAssumption == FirstCap \in Nat \ {0} /\ MaxTrips \in Nat
ASSUME FailAssumption == AllocMayFail \in BOOLEAN
ASSUME UninitAssumption == UNINIT \notin Seq(Addr)

\* The functions that are emitted: their blocks are closed (and have one arm
\* each, see above), and break and continue are in a loop (check_break,
\* check_continue).  An append to a name that is no array in scope is not a
\* statement: emit_array_append returns before it emits anything.
WellFormed(p) ==
  /\ Balanced(p) /\ Arms(p) = {}
  /\ \A s \in DOMAIN p :
       /\ p[s].op = "append" => Visible(p, s, p[s].x) # {}
       /\ p[s].op \in {"break", "continue"} => LoopsAround(p, s) # {}

ASSUME ProgramsAssumption == \A p \in Programs : WellFormed(p)

INSTANCE Arena

VARIABLES
  prog,   \* The function that runs.
  pc,     \* The statement to run next.
  trips,  \* Loop iterations so far.
  arena,  \* arena[0] of the function's scope, arena[i] of the block at i.
  arr,    \* The len, cap and data slots of the T[] declared at i.
  live,   \* The addresses malloc has handed out and nobody freed.
  state   \* "running", "returned", or the fault that stopped the program.

vars == <<prog, pc, trips, arena, arr, live, state>>

-----------------------------------------------------------------------------
(***************************************************************************)
(* The emitter's pass over a program p; s and t are statements of p.       *)
(***************************************************************************)
\* loop_stack.back(): the innermost loop around s.
LoopOf(p, s) == LastOf(LoopsAround(p, s))

\* arena_array_decl_depth is keyed by the name alone: it holds the depth of
\* the last declaration emitted, visible or not.
RecordedDepth(p, s) == Depth(p, LastOf(Decls(p, s, p[s].x)))

\* Mutant: growth is tracked by the innermost scope.
TargetScopeInnermost(p, s) ==
  IF p[s].op \in {"append", "list", "vector", "reset"} THEN ScopeOf(p, s) ELSE NoScope

\* The scope whose arena the code of statement s uses.
TargetScope(p, s) ==
  CASE p[s].op = "append" -> ScopeAtDepth(p, s, RecordedDepth(p, s))
    [] p[s].op \in {"list", "vector", "reset"} -> ScopeOf(p, s)
    [] OTHER -> NoScope

\* get_or_create_arena_at_depth: an arena gets its slot, and its only
\* arena_init call, at the first statement that uses it.
Users(p, sc) == {s \in DOMAIN p : TargetScope(p, s) = sc}
HasArena(p, sc) == Users(p, sc) # {}
InitSite(p, sc) == FirstOf(Users(p, sc))

-----------------------------------------------------------------------------
NewArray == [len |-> 0, cap |-> 0, data |-> NULL]

Init ==
  /\ prog \in Programs
  /\ pc = 1
  /\ trips = 0
  /\ arena = [sc \in Openers(prog) \cup {0} |-> UNINIT]
  /\ arr = [t \in {i \in DOMAIN prog : prog[i].op = "decl"} |-> NewArray]
  /\ live = {}
  /\ state = "running"

At(op) == state = "running" /\ pc \in DOMAIN prog /\ prog[pc].op = op

Goto(s) == pc' = s /\ UNCHANGED <<prog, state>>

Fault(kind) == state' = kind /\ UNCHANGED <<prog, pc, trips, arena, arr, live>>

\* Mutant: arena_init is never called.
ReadyUninitialised(sc) == arena[sc]

\* The arena of scope sc once this statement's arena_init, if any, has run.
Ready(sc) == IF InitSite(prog, sc) = pc THEN EmptyArena ELSE arena[sc]

MayFail == IF AllocMayFail THEN {NULL} ELSE {}

\* T[] x;  The slots are reset each time the declaration runs.
DeclareArray ==
  /\ At("decl")
  /\ arr' = [arr EXCEPT ![pc] = NewArray]
  /\ Goto(pc + 1)
  /\ UNCHANGED <<trips, arena, live>>

\* A container: its header is tracked; nothing tracks the buffer, if any,
\* that its constructor also allocates.
NewContainer ==
  LET sc == ScopeOf(prog, pc)
      buffers(p) == {{}} \cup IF prog[pc].op = "vector" /\ p # NULL
                              THEN {{b} : b \in Addr \ (live \cup {p})}
                              ELSE {}
  IN
  /\ At("list") \/ At("vector")
  /\ \/ /\ Ready(sc) = UNINIT
        /\ Fault("uninitialised arena")
     \/ /\ \E p \in (Addr \ live) \cup MayFail : \E buf \in buffers(p) :
             /\ Ready(sc) = UNINIT => p = NULL
             /\ arena' = [arena EXCEPT ![sc] = ArenaPush(Ready(sc), p)]
             /\ live' = (live \cup {p} \cup buf) \ {NULL}
        /\ Goto(pc + 1)
        /\ UNCHANGED <<trips, arr>>

\* x << e;  with room in the buffer.
AppendInPlace ==
  LET x == VarAt(prog, pc) IN
  /\ At("append")
  /\ arr[x].len < arr[x].cap
  /\ \/ /\ arr[x].data \notin live
        /\ Fault("use after free")
     \/ /\ arr[x].data \in live
        /\ arr' = [arr EXCEPT ![x].len = @ + 1]
        /\ Goto(pc + 1)
        /\ UNCHANGED <<trips, arena, live>>

\* realloc of the full buffer old: another block or the same one.
Reallocs(old) == ((Addr \ live) \cup {old}) \ {NULL}

\* x << e;  through the arr.grow block: realloc, re-track, store.
AppendGrow ==
  LET x   == VarAt(prog, pc)
      a   == arr[x]
      sc  == TargetScope(prog, pc)
  IN
  /\ At("append")
  /\ a.len >= a.cap
  /\ \/ /\ a.data # NULL /\ a.data \notin live
        /\ Fault("use after free")
     \/ /\ a.data \in live \cup {NULL}
        /\ sc # NoScope /\ Ready(sc) = UNINIT
        /\ Fault("uninitialised arena")
     \/ /\ a.data \in live \cup {NULL}
        /\ AllocMayFail
        /\ Fault("store through NULL")
     \/ /\ a.data \in live \cup {NULL}
        /\ sc # NoScope => Ready(sc) # UNINIT
        /\ \E new \in Reallocs(a.data) :
             /\ arena' = IF sc = NoScope THEN arena
                         ELSE [arena EXCEPT ![sc] = ArenaReallocTrack(Ready(sc), a.data, new)]
             /\ live' = (live \ {a.data}) \cup {new}
             /\ arr' = [arr EXCEPT ![x] =
                  [len |-> a.len + 1,
                   cap |-> IF a.cap = 0 THEN FirstCap ELSE 2 * a.cap,
                   data |-> new]]
        /\ Goto(pc + 1)
        /\ UNCHANGED trips

\* What goes wrong when the arena contents a are freed.
FreeFault(a) ==
  CASE a = UNINIT -> "uninitialised arena"
    [] a # UNINIT /\ ~SafeToFree(a, live) -> "double free"
    [] OTHER -> "none"

\* Mutant: the blocks are freed and stay listed.
ReleaseKeepsEntries(sc, a) ==
  FreeFault(a) = "none" /\ live' = live \ Tracked(a) /\ arena' = [arena EXCEPT ![sc] = a]

\* Mutant: the list is cleared and the blocks are not freed.
ReleaseFreesNothing(sc, a) ==
  FreeFault(a) = "none" /\ live' = live /\ arena' = [arena EXCEPT ![sc] = EmptyArena]

\* arena_free_all and arena_reset.
Release(sc, a) ==
  /\ FreeFault(a) = "none"
  /\ live' = live \ Tracked(a)
  /\ arena' = [arena EXCEPT ![sc] = EmptyArena]

\* reset;  The T[] slots keep their len, cap and data.
ResetStmt ==
  LET sc == ScopeOf(prog, pc) IN
  /\ At("reset")
  /\ \/ /\ FreeFault(Ready(sc)) # "none"
        /\ Fault(FreeFault(Ready(sc)))
     \/ /\ Release(sc, Ready(sc))
        /\ Goto(pc + 1)
        /\ UNCHANGED <<trips, arr>>

\* A true condition: into the block.  Entering allocates nothing.
EnterBlock ==
  /\ At("if") \/ (At("while") /\ trips < MaxTrips)
  /\ trips' = IF At("while") THEN trips + 1 ELSE trips
  /\ Goto(pc + 1)
  /\ UNCHANGED <<arena, arr, live>>

\* A false condition: past the block.
SkipBlock ==
  /\ At("if") \/ At("while")
  /\ Goto(EndOf(prog, pc) + 1)
  /\ UNCHANGED <<trips, arena, arr, live>>

\* Where the closing brace of block sc leads.
AfterBlock(sc) == IF prog[sc].op = "while" THEN sc ELSE pc + 1

\* pop_scope: one arena_free_all, if the scope has an arena.
EndBlock ==
  LET sc == ScopeOf(prog, pc) IN
  /\ At("end")
  /\ \/ /\ HasArena(prog, sc) /\ FreeFault(arena[sc]) # "none"
        /\ Fault(FreeFault(arena[sc]))
     \/ /\ HasArena(prog, sc)
        /\ Release(sc, arena[sc])
        /\ Goto(AfterBlock(sc))
        /\ UNCHANGED <<trips, arr>>
     \/ /\ ~HasArena(prog, sc)
        /\ Goto(AfterBlock(sc))
        /\ UNCHANGED <<trips, arena, arr, live>>

\* break and continue branch out of the scopes between them and the loop;
\* the arena_free_all of those scopes is emitted behind the branch.
Jump ==
  /\ \/ /\ At("break")
        /\ Goto(EndOf(prog, LoopOf(prog, pc)) + 1)
     \/ /\ At("continue")
        /\ Goto(LoopOf(prog, pc))
  /\ UNCHANGED <<trips, arena, arr, live>>

\* tunnel e -> x;  returns at once, before the arena_free_all of any scope.
Tunnel ==
  /\ At("tunnel")
  /\ state' = "returned"
  /\ UNCHANGED <<prog, pc, trips, arena, arr, live>>

\* The end of the function.
FunctionEnd ==
  /\ state = "running" /\ pc = Len(prog) + 1
  /\ \/ /\ HasArena(prog, 0) /\ FreeFault(arena[0]) # "none"
        /\ Fault(FreeFault(arena[0]))
     \/ /\ HasArena(prog, 0)
        /\ Release(0, arena[0])
        /\ state' = "returned"
        /\ UNCHANGED <<prog, pc, trips, arr>>
     \/ /\ ~HasArena(prog, 0)
        /\ state' = "returned"
        /\ UNCHANGED <<prog, pc, trips, arena, arr, live>>

Stopped == state # "running" /\ UNCHANGED vars

Next ==
  \/ DeclareArray \/ NewContainer \/ AppendInPlace \/ AppendGrow \/ ResetStmt
  \/ EnterBlock \/ SkipBlock \/ EndBlock \/ Jump \/ Tunnel \/ FunctionEnd
  \/ Stopped

Spec == Init /\ [][Next]_vars

-----------------------------------------------------------------------------
(***************************************************************************)
(* Properties.                                                             *)
(***************************************************************************)
MemoryFaults == {"uninitialised arena", "use after free", "double free"}

\* The arena struct, the array slots and the heap have their shapes; only a
\* free address can be handed out, so live is a set of addresses.
TypeOK ==
  /\ pc \in 1 .. Len(prog) + 1
  /\ trips \in 0 .. MaxTrips
  /\ \A sc \in DOMAIN arena : arena[sc] = UNINIT \/ arena[sc] \in Seq(Addr)
  /\ \A t \in DOMAIN arr : arr[t].len \in 0 .. arr[t].cap /\ arr[t].data \in Addr \cup {NULL}
  /\ live \subseteq Addr
  /\ state \in {"running", "returned", "store through NULL"} \cup MemoryFaults

\* Every arena of p is initialised by a statement of its own scope, so on
\* every path that uses it.
InitDominates(p) ==
  \A sc \in Openers(p) \cup {0} : HasArena(p, sc) => ScopeOf(p, InitSite(p, sc)) = sc

\* The depth recorded for an array's name is that of the array meant.
NamesUnambiguous(p) ==
  \A s \in DOMAIN p : p[s].op = "append" => RecordedDepth(p, s) = Depth(p, VarAt(p, s))

\* No T[] has its buffer in the arena of a scope that resets it.
ResetsNoArray(p) ==
  \A s, t \in DOMAIN p :
    p[s].op = "reset" /\ p[t].op = "append" => TargetScope(p, t) # ScopeOf(p, s)

Disciplined(p) == InitDominates(p) /\ NamesUnambiguous(p) /\ ResetsNoArray(p)

\* Memory safety: a program of the three disciplines never frees a block
\* twice, uses a freed one or reads an arena before its arena_init, whatever
\* malloc returns, whichever way its loops and jumps go.
DisciplinedIsSafe == state \in MemoryFaults => ~Disciplined(prog)

\* Where reset meets no array, the only fault there can be is the read of an
\* arena whose arena_init was jumped over: arena_realloc_track never leaves
\* a stale or a second entry behind.
OnlyResetDangles ==
  state \in {"use after free", "double free"} =>
    ~(ResetsNoArray(prog) /\ NamesUnambiguous(prog))

\* Between two statements of such a program a live block is in at most one
\* arena of the scopes the statement is in, once, and no such arena holds a
\* freed block.
OwnedOnce ==
  state = "running" /\ Disciplined(prog) =>
    LET open == {sc \in OpenScopes(prog, pc) : arena[sc] # UNINIT} IN
    /\ \A sc \in open : SafeToFree(arena[sc], live)
    /\ \A sc1, sc2 \in open : sc1 # sc2 => Tracked(arena[sc1]) \cap Tracked(arena[sc2]) = {}

\* The buffer of every array in scope is live and in the arena of the scope
\* that declares the array.
TrackedAtHome ==
  \A t \in DOMAIN arr :
    t < pc /\ ScopeOf(prog, t) \in OpenScopes(prog, pc) /\ arr[t].data # NULL =>
      /\ arr[t].data \in live
      /\ arena[ScopeOf(prog, t)] # UNINIT
      /\ arr[t].data \in Tracked(arena[ScopeOf(prog, t)])

\* An array grown at any depth and in any iteration stays with its scope (the
\* comments at codegen.hh:135-142 and 1627-1631).
GrowthStaysWithTheArray == state = "running" /\ Disciplined(prog) => TrackedAtHome

\* A program whose scopes all end at their closing brace and whose
\* containers are one block each.
Structured(p) ==
  \A s \in DOMAIN p : p[s].op \notin {"break", "continue", "tunnel", "vector"}

\* Such a program holds, at every statement, exactly the blocks that the
\* scopes it is in still track: a loop does not accumulate memory.
NothingLeaks ==
  state = "running" /\ Structured(prog) /\ Disciplined(prog) =>
    live = UNION {Tracked(arena[sc]) :
                    sc \in {o \in OpenScopes(prog, pc) : arena[o] # UNINIT}}

\* No program the checker accepts corrupts its memory.
MemorySafe == state \notin MemoryFaults
=============================================================================
