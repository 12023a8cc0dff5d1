------------------------- MODULE ScopeArenasProofs -------------------------
(***************************************************************************)
(* What the arenas of a function guarantee, for every program of the       *)
(* emitter, every heap and every way that the program can run.             *)
(***************************************************************************)
EXTENDS ScopeArenas, BlocksProofs, TLAPS

(***************************************************************************)
(* The inductive invariant.                                                *)
(***************************************************************************)
\* The T[] declarations of p.
Arrays(p) == {t \in DOMAIN p : p[t].op = "decl"}

\* The slots of a T[]: without a buffer there is no room in it.
Slots ==
  {a \in [len : Nat, cap : Nat, data : Addr \cup {NULL}] :
     a.len <= a.cap /\ (a.data = NULL => a.cap = 0)}

\* The shapes of the variables.
Shapes ==
  /\ prog \in Programs
  /\ pc \in 1 .. Len(prog) + 1
  /\ trips \in 0 .. MaxTrips
  /\ arena \in [Openers(prog) \cup {0} -> Seq(Addr) \cup {UNINIT}]
  /\ arr \in [Arrays(prog) -> Slots]
  /\ live \subseteq Addr
  /\ state \in {"running", "returned", "store through NULL"} \cup MemoryFaults

\* The blocks that the arena contents a hold.
Held(a) == IF a = UNINIT THEN {} ELSE Tracked(a)

\* No block is listed twice in a.
Once(a) == \A i, j \in DOMAIN a : a[i] = a[j] => i = j

\* The array t is in scope at pc.
InScope(t) == t < pc /\ ScopeOf(prog, t) \in OpenScopes(prog, pc)

\* Some append gives its buffer to the arena of scope sc.
HoldsArrays(p, sc) == \E s \in DOMAIN p : p[s].op = "append" /\ TargetScope(p, s) = sc

\* Arenas list live blocks, once, and no block of another arena.
ArenasAreApart ==
  /\ \A sc \in DOMAIN arena :
       Held(arena[sc]) \subseteq live /\ (arena[sc] # UNINIT => Once(arena[sc]))
  /\ \A sc1, sc2 \in DOMAIN arena :
       sc1 # sc2 => Held(arena[sc1]) \cap Held(arena[sc2]) = {}

\* The buffer of an array in scope is live, belongs to no other array in scope
\* and to no arena but that of the array's scope.
BuffersAreApart ==
  \A t \in DOMAIN arr :
    InScope(t) /\ arr[t].data # NULL =>
      /\ arr[t].data \in live
      /\ \A sc \in DOMAIN arena : sc # ScopeOf(prog, t) => arr[t].data \notin Held(arena[sc])
      /\ HoldsArrays(prog, ScopeOf(prog, t))
      /\ \A u \in DOMAIN arr : InScope(u) /\ u # t => arr[u].data # arr[t].data

\* The arena of an open scope is initialised once its first user has run.
UsedArenasAreReady ==
  \A sc \in OpenScopes(prog, pc) :
    HasArena(prog, sc) /\ InitSite(prog, sc) < pc => arena[sc] # UNINIT

\* The buffer of an array in scope is in the arena of the array's scope, which
\* has been initialised before.
BuffersAreOwned ==
  \A t \in DOMAIN arr :
    InScope(t) /\ arr[t].data # NULL =>
      /\ HasArena(prog, ScopeOf(prog, t)) /\ InitSite(prog, ScopeOf(prog, t)) < pc
      /\ arr[t].data \in Held(arena[ScopeOf(prog, t)])

\* All live blocks are in arenas, and in those of open scopes.
BlocksAreOwned ==
  /\ live = UNION {Held(arena[sc]) : sc \in DOMAIN arena}
  /\ \A sc \in DOMAIN arena :
       Held(arena[sc]) # {} =>
         sc \in OpenScopes(prog, pc) /\ HasArena(prog, sc) /\ InitSite(prog, sc) < pc

\* No append names an array ambiguously and no reset frees one.
KeepsArrays(p) == ResetsNoArray(p) /\ NamesUnambiguous(p)

Apart == state = "running" /\ KeepsArrays(prog) => ArenasAreApart /\ BuffersAreApart

Owned == state = "running" /\ Disciplined(prog) => UsedArenasAreReady /\ BuffersAreOwned

Complete ==
  state = "running" /\ Structured(prog) /\ Disciplined(prog) => BlocksAreOwned

AInv == Shapes /\ Apart /\ Owned /\ Complete /\ OnlyResetDangles /\ DisciplinedIsSafe

-----------------------------------------------------------------------------
(***************************************************************************)
(* The operators of the arena.                                             *)
(***************************************************************************)
LEMMA EmptyIs ==
  /\ EmptyArena \in Seq(Addr) /\ EmptyArena # UNINIT
  /\ Tracked(EmptyArena) = {} /\ Held(EmptyArena) = {} /\ Once(EmptyArena)
<1>1. EmptyArena \in Seq(Addr) /\ DOMAIN EmptyArena = {}
  BY DEF EmptyArena
<1> QED
  BY <1>1, UninitAssumption DEF Tracked, Held, Once

\* An arena that is initialised holds what it lists.
LEMMA HeldIs ==
  /\ \A a \in Seq(Addr) : a # UNINIT /\ Held(a) = Tracked(a) /\ Tracked(a) \subseteq Addr
  /\ Held(UNINIT) = {}
<1>1. ASSUME NEW a \in Seq(Addr)
      PROVE  a # UNINIT /\ Held(a) = Tracked(a) /\ Tracked(a) \subseteq Addr
  BY UninitAssumption DEF Held, Tracked
<1> QED
  BY <1>1 DEF Held

LEMMA PushIs ==
  ASSUME NEW a \in Seq(Addr), NEW p \in Addr, Once(a), p \notin Tracked(a)
  PROVE  /\ ArenaPush(a, p) \in Seq(Addr)
         /\ Tracked(ArenaPush(a, p)) = Tracked(a) \cup {p}
         /\ Once(ArenaPush(a, p))
<1> DEFINE b == Append(a, p)
           n == Len(a)
<1>1. ArenaPush(a, p) = b
  BY AddrAssumption DEF ArenaPush
<1>2. /\ b \in Seq(Addr) /\ n \in Nat /\ DOMAIN a = 1 .. n /\ DOMAIN b = 1 .. n + 1
      /\ b[n + 1] = p /\ \A i \in 1 .. n : b[i] = a[i]
  OBVIOUS
<1> HIDE DEF b, n
<1>3. \A i : i \in 1 .. n + 1 <=> i \in 1 .. n \/ i = n + 1
  BY <1>2
<1>4. Tracked(b) = Tracked(a) \cup {p}
  BY <1>2, <1>3 DEF Tracked
<1>5. \A i \in 1 .. n : a[i] # p
  BY <1>2 DEF Tracked
<1>6. Once(b)
  BY <1>2, <1>3, <1>5 DEF Once
<1> QED
  BY <1>1, <1>2, <1>4, <1>6

LEMMA TrackIs ==
  ASSUME NEW a \in Seq(Addr), NEW old, NEW new \in Addr, Once(a),
         new = old \/ new \notin Tracked(a)
  PROVE  /\ ArenaReallocTrack(a, old, new) \in Seq(Addr)
         /\ Tracked(ArenaReallocTrack(a, old, new)) = (Tracked(a) \ {old}) \cup {new}
         /\ Once(ArenaReallocTrack(a, old, new))
<1>1. new # NULL
  BY AddrAssumption
<1>2. CASE old \notin Tracked(a)
  <2>1. ArenaReallocTrack(a, old, new) = ArenaPush(a, new)
    BY <1>1, <1>2 DEF ArenaReallocTrack, Tracked
  <2>2. new \notin Tracked(a)
    BY <1>2
  <2>3. (Tracked(a) \ {old}) \cup {new} = Tracked(a) \cup {new}
    BY <1>2
  <2> QED
    BY <2>1, <2>2, <2>3, PushIs
<1>3. CASE old \in Tracked(a)
  <2>1. PICK k \in DOMAIN a : a[k] = old
    BY <1>3 DEF Tracked
  <2>2. \A i \in DOMAIN a : a[i] = old => i = k
    BY <2>1 DEF Once
  <2>3. k \in Int /\ k <= k
    BY <2>1
  <2> DEFINE P(i) == a[i] = old /\ \A j \in DOMAIN a : a[j] = old => j <= i
  <2>4. P(k) /\ \A i \in DOMAIN a : P(i) => i = k
    BY <2>1, <2>2, <2>3
  <2>5. ArenaReallocTrack(a, old, new) = [a EXCEPT ![CHOOSE i \in DOMAIN a : P(i)] = new]
    BY <1>1, <2>1 DEF ArenaReallocTrack
  <2> DEFINE b == [a EXCEPT ![k] = new]
  <2>6. ArenaReallocTrack(a, old, new) = b
    <3> HIDE DEF P
    <3>1. (CHOOSE i \in DOMAIN a : P(i)) = k
      BY <2>1, <2>4
    <3> QED
      BY <2>5, <3>1
  <2>7. /\ b \in Seq(Addr) /\ DOMAIN b = DOMAIN a /\ b[k] = new
        /\ \A i \in DOMAIN a : i # k => b[i] = a[i]
    BY <2>1
  <2> HIDE DEF b
  <2>8. \A i \in DOMAIN a : i # k => a[i] # old /\ a[i] # new
    BY <2>2 DEF Tracked
  <2>9. Tracked(b) = (Tracked(a) \ {old}) \cup {new}
    <3>1. \A x \in Tracked(b) : x = new \/ (x \in Tracked(a) /\ x # old)
      BY <2>7, <2>8 DEF Tracked
    <3>2. \A x \in Tracked(a) : x # old => x \in Tracked(b)
      BY <2>1, <2>7 DEF Tracked
    <3>3. new \in Tracked(b)
      BY <2>1, <2>7 DEF Tracked
    <3> QED
      BY <3>1, <3>2, <3>3
  <2>10. Once(b)
    BY <2>7, <2>8 DEF Once
  <2> QED
    BY <2>6, <2>7, <2>9, <2>10
<1> QED
  BY <1>2, <1>3

-----------------------------------------------------------------------------
(***************************************************************************)
(* The emitter's pass.                                                     *)
(***************************************************************************)
LEMMA ProgramFacts ==
  ASSUME NEW p \in Programs
  PROVE  /\ Plain(p) /\ Len(p) \in Nat /\ DOMAIN p = 1 .. Len(p)
         /\ Openers(p) \subseteq 1 .. Len(p)
         /\ \A s \in 1 .. Len(p) : s \in 1 .. Len(p) + 1 /\ s + 1 \in 1 .. Len(p) + 1
<1>1. Plain(p)
  BY ProgramsAssumption DEF WellFormed, Plain
<1>2. Len(p) \in Nat /\ DOMAIN p = 1 .. Len(p) /\ Openers(p) \subseteq 1 .. Len(p)
  BY <1>1, DepthFacts
<1> QED
  BY <1>1, <1>2

\* The arena of a scope is initialised by its first user.
LEMMA InitSiteIs ==
  ASSUME NEW p \in Programs, NEW sc, HasArena(p, sc)
  PROVE  /\ InitSite(p, sc) \in 1 .. Len(p)
         /\ TargetScope(p, InitSite(p, sc)) = sc
         /\ \A s \in 1 .. Len(p) : TargetScope(p, s) = sc => InitSite(p, sc) <= s
<1> DEFINE S == Users(p, sc)
<1>1. /\ S \subseteq 1 .. Len(p) /\ S # {} /\ Len(p) \in Nat
      /\ \A s \in 1 .. Len(p) : s \in S <=> TargetScope(p, s) = sc
  BY ProgramFacts DEF HasArena, Users
<1>2. InitSite(p, sc) = FirstOf(S)
  BY DEF InitSite
<1> HIDE DEF S
<1>3. PICK i \in S : \A j \in S : i <= j
  <2>1. S \subseteq Nat
    BY <1>1
  <2> QED
    BY <1>1, <2>1, LeastNumber
<1>4. FirstOf(S) = i
  <2>1. S \subseteq Int
    BY <1>1
  <2> QED
    BY <1>3, <2>1, FirstIs
<1> QED
  BY <1>1, <1>2, <1>3, <1>4

\* An append is to an array in scope, and when names are unambiguous its
\* buffer goes to the arena of the array's scope.
LEMMA AppendIs ==
  ASSUME NEW p \in Programs, NEW s \in 1 .. Len(p), p[s].op = "append"
  PROVE  /\ VarAt(p, s) \in Arrays(p) /\ VarAt(p, s) < s
         /\ ScopeOf(p, VarAt(p, s)) \in OpenScopes(p, s)
         /\ NamesUnambiguous(p) => TargetScope(p, s) = ScopeOf(p, VarAt(p, s))
<1> DEFINE S == Visible(p, s, p[s].x)
           x == VarAt(p, s)
<1>1. /\ Plain(p) /\ DOMAIN p = 1 .. Len(p) /\ Len(p) \in Nat /\ s \in 1 .. Len(p) + 1
      /\ S # {}
  BY ProgramFacts, ProgramsAssumption DEF WellFormed
<1>2. /\ S \subseteq 1 .. Len(p)
      /\ \A t \in S : t \in Arrays(p) /\ t < s /\ ScopeOf(p, t) \in OpenScopes(p, s)
  BY <1>1 DEF Visible, Decls, Arrays
<1>3. x = LastOf(S)
  BY DEF VarAt
<1> HIDE DEF S, x
<1>4. PICK l \in S : \A j \in S : j <= l
  BY <1>1, <1>2, GreatestNumber
<1>5. x = l
  <2>1. S \subseteq Int
    BY <1>2
  <2> QED
    BY <1>3, <1>4, <2>1, LastIs
<1>6. /\ x \in Arrays(p) /\ x < s /\ x \in 1 .. Len(p)
      /\ ScopeOf(p, x) \in OpenScopes(p, s)
  BY <1>2, <1>4, <1>5
<1>7. ASSUME NamesUnambiguous(p)
      PROVE  TargetScope(p, s) = ScopeOf(p, x)
  <2>1. RecordedDepth(p, s) = Depth(p, x)
    BY <1>1, <1>7 DEF NamesUnambiguous, x
  <2>2. TargetScope(p, s) = ScopeAtDepth(p, s, Depth(p, x))
    BY <2>1 DEF TargetScope
  <2> QED
    BY <1>1, <1>6, <2>2, ScopeByDepth
<1> QED
  BY <1>6, <1>7 DEF x

\* Statements of the other kinds use the arena of the scope that they are in,
\* or none.
LEMMA TargetIs ==
  ASSUME NEW p \in Programs, NEW s \in 1 .. Len(p)
  PROVE  /\ p[s].op \in {"list", "vector", "reset"} => TargetScope(p, s) = ScopeOf(p, s)
         /\ p[s].op \notin {"append", "list", "vector", "reset"} => TargetScope(p, s) = NoScope
BY DEF TargetScope

LEMMA ScopeFacts ==
  ASSUME NEW p \in Programs, NEW s \in 1 .. Len(p) + 1
  PROVE  /\ ScopeOf(p, s) \in OpenScopes(p, s)
         /\ 0 \in OpenScopes(p, s)
         /\ OpenScopes(p, s) \subseteq Openers(p) \cup {0}
         /\ NoScope \notin Openers(p) \cup {0}
         /\ \A sc \in OpenScopes(p, s) : sc \in Nat /\ sc < s
<1>1. /\ Plain(p) /\ Len(p) \in Nat /\ Openers(p) \subseteq 1 .. Len(p)
  BY ProgramFacts
<1>2. ScopeOf(p, s) \in OpenScopes(p, s) /\ 0 \in OpenScopes(p, s)
  BY <1>1, OpenIs
<1>3. \A sc \in OpenScopes(p, s) : sc \in Openers(p) \cup {0} /\ sc \in 0 .. s - 1
  BY <1>1, ScopeIsInnermost
<1>4. NoScope \notin Openers(p) \cup {0}
  BY <1>1 DEF NoScope
<1> QED
  BY <1>2, <1>3, <1>4

-----------------------------------------------------------------------------
(***************************************************************************)
(* Steps of the program.                                                   *)
(***************************************************************************)
\* Wherever control goes, it finds in scope what was in scope before, and the
\* first users of the open arenas on the side of pc where they were.
LEMMA Control ==
  ASSUME prog \in Programs, pc \in 1 .. Len(prog), prog' = prog, Successor(prog, pc, pc')
  PROVE  /\ pc' \in 1 .. Len(prog) + 1
         /\ OpenScopes(prog, pc') \subseteq OpenScopes(prog, pc) \cup {pc}
         /\ \A t \in 1 .. Len(prog) : InScope(t)' => t = pc \/ InScope(t)
         /\ InitDominates(prog) =>
              \A sc \in OpenScopes(prog, pc') :
                HasArena(prog, sc) =>
                  /\ InitSite(prog, sc) < pc' =>
                       \/ InitSite(prog, sc) = pc
                       \/ InitSite(prog, sc) < pc /\ sc \in OpenScopes(prog, pc)
                  /\ InitSite(prog, sc) < pc => InitSite(prog, sc) < pc'
<1>1. /\ Plain(prog) /\ DOMAIN prog = 1 .. Len(prog)
  BY ProgramFacts
<1>2. /\ pc' \in 1 .. Len(prog) + 1
      /\ OpenScopes(prog, pc') \subseteq OpenScopes(prog, pc) \cup {pc}
      /\ \A t \in 1 .. Len(prog) :
           ScopeOf(prog, t) \in OpenScopes(prog, pc') =>
             /\ t < pc' => t = pc \/ (t < pc /\ ScopeOf(prog, t) \in OpenScopes(prog, pc))
             /\ t < pc /\ t \notin Openers(prog) => t < pc'
  BY <1>1, Flow
<1>3. \A t \in 1 .. Len(prog) : InScope(t)' => t = pc \/ InScope(t)
  BY <1>2 DEF InScope
<1>4. ASSUME InitDominates(prog), NEW sc \in OpenScopes(prog, pc'), HasArena(prog, sc)
      PROVE  /\ InitSite(prog, sc) \in 1 .. Len(prog)
             /\ ScopeOf(prog, InitSite(prog, sc)) \in OpenScopes(prog, pc')
             /\ ScopeOf(prog, InitSite(prog, sc)) = sc
             /\ InitSite(prog, sc) \notin Openers(prog)
  <2>1. sc \in Openers(prog) \cup {0} /\ sc # NoScope
    BY <1>2, ScopeFacts
  <2>2. ScopeOf(prog, InitSite(prog, sc)) = sc
    BY <1>4, <2>1 DEF InitDominates
  <2>3. InitSite(prog, sc) \in 1 .. Len(prog) /\ TargetScope(prog, InitSite(prog, sc)) # NoScope
    BY <1>4, <2>1, InitSiteIs
  <2>4. InitSite(prog, sc) \notin Openers(prog)
    BY <2>3, TargetIs DEF Openers
  <2> QED
    BY <1>4, <2>2, <2>3, <2>4
<1> QED
  BY <1>2, <1>3, <1>4

\* A step that changes no arena, and no buffer but to forget it.
LEMMA QuietStep ==
  ASSUME Shapes, pc \in 1 .. Len(prog), prog' = prog, Successor(prog, pc, pc'),
         UNCHANGED <<arena, live>>, DOMAIN arr' = DOMAIN arr,
         \A t \in DOMAIN arr : arr'[t].data = arr[t].data \/ arr'[t].data = NULL,
         pc \in DOMAIN arr => arr'[pc].data = NULL
  PROVE  /\ ArenasAreApart => ArenasAreApart'
         /\ BuffersAreApart => BuffersAreApart'
         /\ InitDominates(prog) =>
              /\ UsedArenasAreReady
                 /\ (\A sc \in OpenScopes(prog, pc') : HasArena(prog, sc) => InitSite(prog, sc) # pc)
                   => UsedArenasAreReady'
              /\ BuffersAreOwned => BuffersAreOwned'
              /\ BlocksAreOwned
                 /\ (\A sc \in DOMAIN arena : Held(arena[sc]) # {} => sc \in OpenScopes(prog, pc'))
                   => BlocksAreOwned'
<1>1. prog \in Programs /\ DOMAIN arr \subseteq 1 .. Len(prog)
  BY ProgramFacts DEF Shapes, Arrays
<1>2. ASSUME NEW t \in DOMAIN arr, InScope(t)', arr'[t].data # NULL
      PROVE  InScope(t) /\ arr'[t].data = arr[t].data /\ ScopeOf(prog, t) \in OpenScopes(prog, pc')
  BY <1>1, <1>2, Control DEF InScope
<1>3. ASSUME ArenasAreApart
      PROVE  ArenasAreApart'
  BY <1>3 DEF ArenasAreApart
<1>4. ASSUME BuffersAreApart
      PROVE  BuffersAreApart'
  <2> SUFFICES ASSUME NEW t \in DOMAIN arr, InScope(t)', arr'[t].data # NULL
               PROVE  /\ arr[t].data \in live
                      /\ \A sc \in DOMAIN arena :
                           sc # ScopeOf(prog, t) => arr[t].data \notin Held(arena[sc])
                      /\ HoldsArrays(prog, ScopeOf(prog, t))
                      /\ \A u \in DOMAIN arr : InScope(u)' /\ u # t => arr'[u].data # arr[t].data
    BY <1>2 DEF BuffersAreApart
  <2>1. InScope(t) /\ arr'[t].data = arr[t].data
    BY <1>2
  <2>2. \A u \in DOMAIN arr : InScope(u)' /\ u # t => arr'[u].data # arr[t].data
    <3> SUFFICES ASSUME NEW u \in DOMAIN arr, InScope(u)', u # t, arr'[u].data = arr[t].data
                 PROVE  FALSE
      OBVIOUS
    <3>1. InScope(u) /\ arr[u].data = arr[t].data
      BY <1>2, <2>1
    <3> QED
      BY <1>4, <2>1, <3>1 DEF BuffersAreApart
  <2> QED
    BY <1>4, <2>1, <2>2 DEF BuffersAreApart
<1>5. ASSUME InitDominates(prog), UsedArenasAreReady,
             \A sc \in OpenScopes(prog, pc') : HasArena(prog, sc) => InitSite(prog, sc) # pc
      PROVE  UsedArenasAreReady'
  BY <1>1, <1>5, Control DEF UsedArenasAreReady
<1>6. ASSUME InitDominates(prog), BuffersAreOwned
      PROVE  BuffersAreOwned'
  <2> SUFFICES ASSUME NEW t \in DOMAIN arr, InScope(t)', arr'[t].data # NULL
               PROVE  /\ HasArena(prog, ScopeOf(prog, t)) /\ InitSite(prog, ScopeOf(prog, t)) < pc'
                      /\ arr'[t].data \in Held(arena[ScopeOf(prog, t)])
    BY DEF BuffersAreOwned
  <2>1. /\ HasArena(prog, ScopeOf(prog, t)) /\ InitSite(prog, ScopeOf(prog, t)) < pc
        /\ arr[t].data \in Held(arena[ScopeOf(prog, t)])
    BY <1>2, <1>6 DEF BuffersAreOwned
  <2> QED
    BY <1>1, <1>2, <1>6, <2>1, Control
<1>7. ASSUME InitDominates(prog), BlocksAreOwned,
             \A sc \in DOMAIN arena : Held(arena[sc]) # {} => sc \in OpenScopes(prog, pc')
      PROVE  BlocksAreOwned'
  BY <1>1, <1>7, Control DEF BlocksAreOwned
<1> QED
  BY <1>3, <1>4, <1>5, <1>6, <1>7

\* A step that frees what an arena holds, of which no array in scope is left.
LEMMA ReleaseStep ==
  ASSUME Shapes, pc \in 1 .. Len(prog), prog' = prog, Successor(prog, pc, pc'),
         NEW sc \in DOMAIN arena, NEW a, a = Ready(sc) \/ a = arena[sc],
         Release(sc, a), arr' = arr, pc \notin DOMAIN arr
  PROVE  /\ ArenasAreApart => ArenasAreApart'
         /\ ArenasAreApart /\ BuffersAreApart
            /\ (\A t \in DOMAIN arr : InScope(t)' /\ arr[t].data # NULL => ScopeOf(prog, t) # sc)
              => BuffersAreApart'
         /\ InitDominates(prog) =>
              /\ UsedArenasAreReady
                 /\ (\A o \in OpenScopes(prog, pc') \ {sc} : HasArena(prog, o) => InitSite(prog, o) # pc)
                   => UsedArenasAreReady'
              /\ BuffersAreOwned
                 /\ (\A t \in DOMAIN arr : InScope(t)' /\ arr[t].data # NULL => ScopeOf(prog, t) # sc)
                   => BuffersAreOwned'
              /\ ArenasAreApart /\ BlocksAreOwned
                 /\ (\A o \in DOMAIN arena \ {sc} :
                       Held(arena[o]) # {} => o \in OpenScopes(prog, pc'))
                   => BlocksAreOwned'
<1>1. prog \in Programs /\ DOMAIN arr \subseteq 1 .. Len(prog)
  BY ProgramFacts DEF Shapes, Arrays
<1>2. /\ live' = live \ Tracked(a) /\ DOMAIN arena' = DOMAIN arena
      /\ arena'[sc] = EmptyArena
      /\ \A o \in DOMAIN arena : o # sc => arena'[o] = arena[o]
      /\ a # UNINIT
  BY DEF Release, FreeFault, Shapes
<1>3. a = EmptyArena \/ a = arena[sc]
  BY DEF Ready
<1>4. /\ arena[sc] \in Seq(Addr) \cup {UNINIT} /\ Tracked(a) = Held(a)
      /\ Tracked(a) \subseteq Held(arena[sc]) /\ Held(EmptyArena) = {}
      /\ Once(EmptyArena) /\ EmptyArena # UNINIT
  <2>1. arena[sc] \in Seq(Addr) \cup {UNINIT}
    BY DEF Shapes
  <2> QED
    BY <1>2, <1>3, <2>1, EmptyIs, HeldIs
<1>5. ASSUME NEW t \in DOMAIN arr, InScope(t)'
      PROVE  InScope(t) /\ ScopeOf(prog, t) \in OpenScopes(prog, pc')
  BY <1>1, <1>5, Control DEF InScope
<1>6. ASSUME ArenasAreApart
      PROVE  ArenasAreApart'
  <2>1. ASSUME NEW o \in DOMAIN arena
        PROVE  Held(arena'[o]) \subseteq live' /\ (arena'[o] # UNINIT => Once(arena'[o]))
               /\ Held(arena'[o]) \subseteq Held(arena[o])
    <3>1. CASE o = sc
      BY <1>2, <1>4, <3>1
    <3>2. CASE o # sc
      <4>1. Held(arena[o]) \cap Held(arena[sc]) = {} /\ Held(arena[o]) \subseteq live
        BY <1>6, <3>2 DEF ArenasAreApart
      <4> QED
        BY <1>2, <1>4, <1>6, <3>2, <4>1 DEF ArenasAreApart
    <3> QED
      BY <3>1, <3>2
  <2>2. ASSUME NEW sc1 \in DOMAIN arena, NEW sc2 \in DOMAIN arena, sc1 # sc2
        PROVE  Held(arena'[sc1]) \cap Held(arena'[sc2]) = {}
    <3>1. Held(arena[sc1]) \cap Held(arena[sc2]) = {}
      BY <1>6, <2>2 DEF ArenasAreApart
    <3> QED
      BY <2>1, <3>1
  <2> QED
    BY <1>2, <2>1, <2>2 DEF ArenasAreApart
<1>7. ASSUME ArenasAreApart, BuffersAreApart,
             \A t \in DOMAIN arr : InScope(t)' /\ arr[t].data # NULL => ScopeOf(prog, t) # sc
      PROVE  BuffersAreApart'
  <2> SUFFICES ASSUME NEW t \in DOMAIN arr, InScope(t)', arr[t].data # NULL
               PROVE  /\ arr[t].data \in live'
                      /\ \A o \in DOMAIN arena :
                           o # ScopeOf(prog, t) => arr[t].data \notin Held(arena'[o])
                      /\ HoldsArrays(prog, ScopeOf(prog, t))
                      /\ \A u \in DOMAIN arr : InScope(u)' /\ u # t => arr[u].data # arr[t].data
    BY <1>2 DEF BuffersAreApart
  <2>1. InScope(t) /\ ScopeOf(prog, t) # sc
    BY <1>5, <1>7
  <2>2. /\ arr[t].data \in live /\ arr[t].data \notin Held(arena[sc])
        /\ HoldsArrays(prog, ScopeOf(prog, t))
        /\ \A o \in DOMAIN arena :
             o # ScopeOf(prog, t) => arr[t].data \notin Held(arena[o])
        /\ \A u \in DOMAIN arr : InScope(u) /\ u # t => arr[u].data # arr[t].data
    BY <1>7, <2>1 DEF BuffersAreApart
  <2>3. \A o \in DOMAIN arena : Held(arena'[o]) \subseteq Held(arena[o])
    BY <1>2, <1>4
  <2>4. \A u \in DOMAIN arr : InScope(u)' /\ u # t => arr[u].data # arr[t].data
    BY <1>5, <2>2
  <2> QED
    BY <1>2, <1>4, <2>2, <2>3, <2>4
<1>8. ASSUME InitDominates(prog), UsedArenasAreReady,
             \A o \in OpenScopes(prog, pc') \ {sc} : HasArena(prog, o) => InitSite(prog, o) # pc
      PROVE  UsedArenasAreReady'
  <2> SUFFICES ASSUME NEW o \in OpenScopes(prog, pc'), HasArena(prog, o), InitSite(prog, o) < pc'
               PROVE  arena'[o] # UNINIT
    BY DEF UsedArenasAreReady
  <2>1. CASE o = sc
    BY <1>2, <1>4, <2>1
  <2>2. CASE o # sc
    <3>1. InitSite(prog, o) < pc /\ o \in OpenScopes(prog, pc)
      BY <1>1, <1>8, <2>2, Control
    <3>2. o \in DOMAIN arena
      <4>1. pc \in 1 .. Len(prog) + 1
        BY <1>1, ProgramFacts
      <4> QED
        BY <1>1, <3>1, <4>1, ScopeFacts DEF Shapes
    <3>3. arena[o] # UNINIT
      BY <1>8, <3>1 DEF UsedArenasAreReady
    <3> QED
      BY <1>2, <2>2, <3>2, <3>3
  <2> QED
    BY <2>1, <2>2
<1>9. ASSUME InitDominates(prog), BuffersAreOwned,
             \A t \in DOMAIN arr : InScope(t)' /\ arr[t].data # NULL => ScopeOf(prog, t) # sc
      PROVE  BuffersAreOwned'
  <2> SUFFICES ASSUME NEW t \in DOMAIN arr, InScope(t)', arr[t].data # NULL
               PROVE  /\ HasArena(prog, ScopeOf(prog, t)) /\ InitSite(prog, ScopeOf(prog, t)) < pc'
                      /\ arr[t].data \in Held(arena'[ScopeOf(prog, t)])
    BY DEF BuffersAreOwned
  <2>1. /\ HasArena(prog, ScopeOf(prog, t)) /\ InitSite(prog, ScopeOf(prog, t)) < pc
        /\ arr[t].data \in Held(arena[ScopeOf(prog, t)])
        /\ ScopeOf(prog, t) # sc
    BY <1>5, <1>9 DEF BuffersAreOwned
  <2>2. ScopeOf(prog, t) \in DOMAIN arena
    BY <1>1, <1>5, Control, ScopeFacts DEF Shapes
  <2> QED
    BY <1>1, <1>2, <1>5, <1>9, <2>1, <2>2, Control
<1>10. ASSUME InitDominates(prog), ArenasAreApart, BlocksAreOwned,
              \A o \in DOMAIN arena \ {sc} : Held(arena[o]) # {} => o \in OpenScopes(prog, pc')
       PROVE  BlocksAreOwned'
  <2>1. Tracked(a) = Held(arena[sc])
    <3>1. CASE Held(arena[sc]) = {}
      BY <1>4, <3>1
    <3>2. CASE Held(arena[sc]) # {}
      <4>1. HasArena(prog, sc) /\ InitSite(prog, sc) < pc
        BY <1>10, <3>2 DEF BlocksAreOwned
      <4>2. InitSite(prog, sc) \in Int /\ pc \in Int
        BY <1>1, <4>1, InitSiteIs, ProgramFacts
      <4>3. Ready(sc) = arena[sc]
        BY <4>1, <4>2 DEF Ready
      <4> QED
        BY <1>4, <4>3
    <3> QED
      BY <3>1, <3>2
  <2>2. \A o \in DOMAIN arena : Held(arena'[o]) = IF o = sc THEN {} ELSE Held(arena[o])
    BY <1>2, <1>4
  <2>3. ASSUME NEW b
        PROVE  b \in live' <=> \E o \in DOMAIN arena : b \in Held(arena'[o])
    <3>1. b \in live <=> \E o \in DOMAIN arena : b \in Held(arena[o])
      BY <1>10 DEF BlocksAreOwned
    <3>2. \A o \in DOMAIN arena : o # sc /\ b \in Held(arena[o]) => b \notin Held(arena[sc])
      BY <1>10 DEF ArenasAreApart
    <3> QED
      BY <1>2, <2>1, <2>2, <3>1, <3>2
  <2>4. live' = UNION {Held(arena'[o]) : o \in DOMAIN arena}
    BY <2>3
  <2>5. ASSUME NEW o \in DOMAIN arena, Held(arena'[o]) # {}
        PROVE  o \in OpenScopes(prog, pc') /\ HasArena(prog, o) /\ InitSite(prog, o) < pc'
    <3>1. o # sc /\ Held(arena[o]) # {}
      BY <2>2, <2>5
    <3>2. o \in OpenScopes(prog, pc') /\ HasArena(prog, o) /\ InitSite(prog, o) < pc
      BY <1>10, <3>1 DEF BlocksAreOwned
    <3> QED
      BY <1>1, <1>10, <3>2, Control
  <2> QED
    BY <1>2, <2>4, <2>5 DEF BlocksAreOwned
<1> QED
  BY <1>6, <1>7, <1>8, <1>9, <1>10

\* A step that stores fresh blocks in the arena of scope sc, in the place of
\* the block old if that was there.
LEMMA StoreStep ==
  ASSUME Shapes, pc \in 1 .. Len(prog), prog' = prog, pc' = pc + 1,
         OpenScopes(prog, pc') = OpenScopes(prog, pc),
         NEW sc \in OpenScopes(prog, pc), TargetScope(prog, pc) = sc,
         NEW b \in Seq(Addr), NEW old, NEW fresh, NEW buffer,
         Ready(sc) \in Seq(Addr), Once(b),
         Tracked(b) = (Tracked(Ready(sc)) \ {old}) \cup fresh,
         arena' = [arena EXCEPT ![sc] = b],
         live' = (live \ {old}) \cup fresh \cup buffer,
         (fresh \cup buffer) \cap (live \ {old}) = {},
         \A o \in DOMAIN arena \ {sc} : old \notin Held(arena[o]),
         DOMAIN arr' = DOMAIN arr,
         \A t \in DOMAIN arr :
           InScope(t)' /\ arr'[t].data # NULL =>
             \/ InScope(t) /\ arr'[t].data = arr[t].data /\ arr[t].data # old
             \/ arr'[t].data \in fresh /\ ScopeOf(prog, t) = sc /\ HoldsArrays(prog, sc),
         \A t, u \in DOMAIN arr :
           InScope(t)' /\ InScope(u)' /\ arr'[t].data \in fresh /\ arr'[u].data \in fresh => t = u
  PROVE  /\ ArenasAreApart => ArenasAreApart'
         /\ ArenasAreApart /\ BuffersAreApart => BuffersAreApart'
         /\ InitDominates(prog) =>
              /\ UsedArenasAreReady => UsedArenasAreReady'
              /\ BuffersAreOwned => BuffersAreOwned'
              /\ BlocksAreOwned /\ buffer = {} => BlocksAreOwned'
<1>1. prog \in Programs /\ DOMAIN arr \subseteq 1 .. Len(prog)
  BY ProgramFacts DEF Shapes, Arrays
<1>2. /\ Successor(prog, pc, pc') /\ pc \in 1 .. Len(prog) + 1
      /\ pc \in Int /\ pc' \in Int /\ pc < pc'
  BY <1>1, ProgramFacts DEF Successor
<1>3. OpenScopes(prog, pc) \subseteq DOMAIN arena /\ DOMAIN arena' = DOMAIN arena
  BY <1>1, <1>2, ScopeFacts DEF Shapes
<1>4. arena'[sc] = b /\ \A o \in DOMAIN arena : o # sc => arena'[o] = arena[o]
  BY <1>3 DEF Shapes
<1>5. /\ b # UNINIT /\ Held(b) = (Tracked(Ready(sc)) \ {old}) \cup fresh
      /\ Tracked(Ready(sc)) \subseteq Held(arena[sc])
  <2>1. b # UNINIT /\ Held(b) = Tracked(b)
    BY HeldIs
  <2>2. Ready(sc) = EmptyArena \/ Ready(sc) = arena[sc]
    BY DEF Ready
  <2>3. Tracked(Ready(sc)) = Held(Ready(sc))
    BY HeldIs
  <2>4. Held(EmptyArena) = {}
    BY EmptyIs
  <2> QED
    BY <2>1, <2>2, <2>3, <2>4
\* The arena of sc is used at pc: it is initialised there or before.
<1>6. HasArena(prog, sc) /\ InitSite(prog, sc) < pc' /\ InitSite(prog, sc) \in Int
  <2>1. HasArena(prog, sc)
    BY <1>1, ProgramFacts DEF HasArena, Users
  <2>2. InitSite(prog, sc) <= pc /\ InitSite(prog, sc) \in 1 .. Len(prog)
    BY <1>1, <2>1, InitSiteIs
  <2> QED
    BY <1>2, <2>1, <2>2
<1>7. InitSite(prog, sc) < pc => Ready(sc) = arena[sc]
  BY <1>2, <1>6 DEF Ready
<1>8. ASSUME ArenasAreApart, NEW o \in DOMAIN arena, o # sc
      PROVE  /\ Held(arena'[o]) = Held(arena[o]) /\ Held(arena[o]) \subseteq live \ {old}
             /\ Held(arena[o]) \cap Held(b) = {}
  <2>1. Held(arena[o]) \subseteq live /\ Held(arena[o]) \cap Held(arena[sc]) = {}
    BY <1>3, <1>8 DEF ArenasAreApart
  <2> QED
    BY <1>4, <1>5, <1>8, <2>1
<1>9. ASSUME ArenasAreApart
      PROVE  ArenasAreApart'
  <2>1. ASSUME NEW o \in DOMAIN arena
        PROVE  Held(arena'[o]) \subseteq live' /\ (arena'[o] # UNINIT => Once(arena'[o]))
    <3>1. CASE o = sc
      <4>1. Held(arena[sc]) \subseteq live
        BY <1>3, <1>9 DEF ArenasAreApart
      <4> QED
        BY <1>4, <1>5, <3>1, <4>1
    <3>2. CASE o # sc
      BY <1>4, <1>8, <1>9, <3>2 DEF ArenasAreApart
    <3> QED
      BY <3>1, <3>2
  <2>2. ASSUME NEW sc1 \in DOMAIN arena, NEW sc2 \in DOMAIN arena, sc1 # sc2
        PROVE  Held(arena'[sc1]) \cap Held(arena'[sc2]) = {}
    <3>1. Held(arena[sc1]) \cap Held(arena[sc2]) = {}
      BY <1>9, <2>2 DEF ArenasAreApart
    <3> QED
      BY <1>4, <1>8, <1>9, <2>2, <3>1
  <2> QED
    BY <1>3, <2>1, <2>2 DEF ArenasAreApart
<1>10. ASSUME ArenasAreApart, BuffersAreApart
       PROVE  BuffersAreApart'
  <2> DEFINE Kept(t) == InScope(t) /\ arr'[t].data = arr[t].data /\ arr[t].data # old
             New(t) == arr'[t].data \in fresh /\ ScopeOf(prog, t) = sc /\ HoldsArrays(prog, sc)
  <2>1. \A t \in DOMAIN arr : InScope(t)' /\ arr'[t].data # NULL => Kept(t) \/ New(t)
    OBVIOUS
  <2>2. \A t \in DOMAIN arr : Kept(t) /\ arr'[t].data # NULL => arr'[t].data \in live \ {old}
    BY <1>10 DEF BuffersAreApart
  <2>3. ASSUME NEW t \in DOMAIN arr, NEW u \in DOMAIN arr, InScope(t)', InScope(u)', u # t,
               arr'[t].data # NULL, arr'[u].data = arr'[t].data
        PROVE  FALSE
    <3>1. (Kept(t) \/ New(t)) /\ (Kept(u) \/ New(u))
      BY <2>1, <2>3
    <3>2. CASE Kept(t) /\ Kept(u)
      BY <1>10, <2>3, <3>2 DEF BuffersAreApart
    <3>3. CASE Kept(t) /\ New(u)
      BY <2>2, <2>3, <3>3
    <3>4. CASE New(t) /\ Kept(u)
      BY <2>2, <2>3, <3>4
    <3>5. CASE New(t) /\ New(u)
      BY <2>3, <3>5
    <3> QED
      BY <3>1, <3>2, <3>3, <3>4, <3>5
  <2>4. ASSUME NEW t \in DOMAIN arr, InScope(t)', arr'[t].data # NULL
        PROVE  /\ arr'[t].data \in live'
               /\ \A o \in DOMAIN arena :
                    o # ScopeOf(prog, t) => arr'[t].data \notin Held(arena'[o])
               /\ HoldsArrays(prog, ScopeOf(prog, t))
    <3>1. CASE Kept(t)
      <4>1. /\ arr'[t].data \in live \ {old}
            /\ HoldsArrays(prog, ScopeOf(prog, t))
            /\ \A o \in DOMAIN arena :
                 o # ScopeOf(prog, t) => arr'[t].data \notin Held(arena[o])
        BY <1>10, <2>2, <2>4, <3>1 DEF BuffersAreApart
      <4>2. arr'[t].data \notin fresh
        BY <4>1
      <4>3. sc # ScopeOf(prog, t) => arr'[t].data \notin Held(b)
        BY <1>3, <1>5, <4>1, <4>2
      <4> QED
        BY <1>4, <4>1, <4>3
    <3>2. CASE New(t)
      <4>1. \A o \in DOMAIN arena : o # sc => Held(arena'[o]) \subseteq live \ {old}
        BY <1>8, <1>10
      <4> QED
        BY <3>2, <4>1
    <3> QED
      BY <2>1, <2>4, <3>1, <3>2
  <2> HIDE DEF Kept, New
  <2> QED
    BY <1>3, <2>3, <2>4 DEF BuffersAreApart
<1>11. ASSUME InitDominates(prog), UsedArenasAreReady
       PROVE  UsedArenasAreReady'
  <2> SUFFICES ASSUME NEW o \in OpenScopes(prog, pc'), HasArena(prog, o), InitSite(prog, o) < pc'
               PROVE  arena'[o] # UNINIT
    BY DEF UsedArenasAreReady
  <2>1. CASE o = sc
    BY <1>4, <1>5, <2>1
  <2>2. CASE o # sc
    <3>1. InitSite(prog, o) # pc
      BY <1>1, <2>2, InitSiteIs
    <3>2. InitSite(prog, o) < pc
      BY <1>1, <1>2, <1>11, <3>1, Control
    <3> QED
      BY <1>3, <1>4, <1>11, <2>2, <3>2 DEF UsedArenasAreReady
  <2> QED
    BY <2>1, <2>2
<1>12. ASSUME InitDominates(prog), BuffersAreOwned
       PROVE  BuffersAreOwned'
  <2> SUFFICES ASSUME NEW t \in DOMAIN arr, InScope(t)', arr'[t].data # NULL
               PROVE  /\ HasArena(prog, ScopeOf(prog, t)) /\ InitSite(prog, ScopeOf(prog, t)) < pc'
                      /\ arr'[t].data \in Held(arena'[ScopeOf(prog, t)])
    BY DEF BuffersAreOwned
  <2>1. CASE InScope(t) /\ arr'[t].data = arr[t].data /\ arr[t].data # old
    <3> DEFINE o == ScopeOf(prog, t)
    <3>1. /\ HasArena(prog, o) /\ InitSite(prog, o) < pc
          /\ arr[t].data \in Held(arena[o])
      BY <1>12, <2>1 DEF BuffersAreOwned
    <3>2. o \in OpenScopes(prog, pc')
      BY <2>1 DEF InScope
    <3>3. InitSite(prog, o) < pc'
      BY <1>1, <1>2, <1>12, <3>1, <3>2, Control
    <3>4. arr[t].data \in Held(arena'[o])
      <4>1. CASE o = sc
        <5>1. Tracked(Ready(sc)) = Held(arena[sc])
          BY <1>7, <3>1, <4>1, HeldIs
        <5> QED
          BY <1>4, <1>5, <2>1, <3>1, <4>1, <5>1
      <4>2. CASE o # sc
        BY <1>3, <1>4, <3>1, <3>2, <4>2
      <4> QED
        BY <4>1, <4>2
    <3> QED
      BY <2>1, <3>1, <3>3, <3>4
  <2>2. CASE arr'[t].data \in fresh /\ ScopeOf(prog, t) = sc /\ HoldsArrays(prog, sc)
    BY <1>4, <1>5, <1>6, <2>2
  <2> QED
    BY <2>1, <2>2
<1>13. ASSUME InitDominates(prog), BlocksAreOwned, buffer = {}
       PROVE  BlocksAreOwned'
  <2>1. Tracked(Ready(sc)) = Held(arena[sc])
    <3>1. CASE Held(arena[sc]) = {}
      BY <1>5, <3>1
    <3>2. CASE Held(arena[sc]) # {}
      <4>1. InitSite(prog, sc) < pc
        BY <1>3, <1>13, <3>2 DEF BlocksAreOwned
      <4> QED
        BY <1>7, <4>1, HeldIs
    <3> QED
      BY <3>1, <3>2
  <2>2. /\ Held(arena'[sc]) = (Held(arena[sc]) \ {old}) \cup fresh
        /\ \A o \in DOMAIN arena : o # sc =>
             Held(arena'[o]) = Held(arena[o]) /\ old \notin Held(arena[o])
    BY <1>4, <1>5, <2>1
  <2>3. ASSUME NEW x
        PROVE  x \in live' <=> \E o \in DOMAIN arena : x \in Held(arena'[o])
    <3>1. x \in live <=> \E o \in DOMAIN arena : x \in Held(arena[o])
      BY <1>13 DEF BlocksAreOwned
    <3>2. x \in live' <=> (x \in live /\ x # old) \/ x \in fresh
      BY <1>13
    <3>3. ASSUME NEW o \in DOMAIN arena, x \in Held(arena[o]), x # old
          PROVE  x \in Held(arena'[o])
      BY <2>2, <3>3
    <3>4. ASSUME NEW o \in DOMAIN arena, x \in Held(arena'[o])
          PROVE  (x \in Held(arena[o]) /\ x # old) \/ x \in fresh
      BY <2>2, <3>4
    <3>5. x \in fresh => x \in Held(arena'[sc])
      BY <2>2
    <3> QED
      BY <1>3, <3>1, <3>2, <3>3, <3>4, <3>5
  <2>4. live' = UNION {Held(arena'[o]) : o \in DOMAIN arena}
    BY <2>3
  <2>5. ASSUME NEW o \in DOMAIN arena, Held(arena'[o]) # {}
        PROVE  o \in OpenScopes(prog, pc') /\ HasArena(prog, o) /\ InitSite(prog, o) < pc'
    <3>1. CASE o = sc
      BY <1>6, <3>1
    <3>2. CASE o # sc
      <4>1. o \in OpenScopes(prog, pc') /\ HasArena(prog, o) /\ InitSite(prog, o) < pc
        BY <1>13, <2>2, <2>5, <3>2 DEF BlocksAreOwned
      <4> QED
        BY <1>1, <1>2, <1>13, <4>1, Control
    <3> QED
      BY <3>1, <3>2
  <2> QED
    BY <1>3, <2>4, <2>5 DEF BlocksAreOwned
<1> QED
  BY <1>9, <1>10, <1>11, <1>12, <1>13

-----------------------------------------------------------------------------
(***************************************************************************)
(* The actions.                                                            *)
(***************************************************************************)
LEMMA DisciplineIs ==
  /\ KeepsArrays(prog) <=> ResetsNoArray(prog) /\ NamesUnambiguous(prog)
  /\ Disciplined(prog) <=> InitDominates(prog) /\ KeepsArrays(prog)
BY DEF Disciplined, KeepsArrays

\* The program goes on.
LEMMA GoesOn ==
  ASSUME AInv, state = "running", prog' = prog, state' = state, Shapes',
         ArenasAreApart /\ BuffersAreApart /\ KeepsArrays(prog) =>
           ArenasAreApart' /\ BuffersAreApart',
         ArenasAreApart /\ BuffersAreApart /\ UsedArenasAreReady /\ BuffersAreOwned
         /\ Disciplined(prog) => UsedArenasAreReady' /\ BuffersAreOwned',
         ArenasAreApart /\ BuffersAreApart /\ UsedArenasAreReady /\ BuffersAreOwned
         /\ BlocksAreOwned /\ Disciplined(prog) /\ Structured(prog) => BlocksAreOwned'
  PROVE  AInv'
<1>1. KeepsArrays(prog) => ArenasAreApart /\ BuffersAreApart
  BY DEF AInv, Apart
<1>2. Disciplined(prog) => UsedArenasAreReady /\ BuffersAreOwned
  BY DEF AInv, Owned
<1>3. Disciplined(prog) /\ Structured(prog) => BlocksAreOwned
  BY DEF AInv, Complete
<1>4. Apart'
  BY <1>1 DEF Apart
<1>5. Owned'
  BY <1>1, <1>2, DisciplineIs DEF Owned
<1>6. Complete'
  BY <1>1, <1>2, <1>3, DisciplineIs DEF Complete
<1>7. OnlyResetDangles' /\ DisciplinedIsSafe'
  BY DEF OnlyResetDangles, DisciplinedIsSafe, MemoryFaults
<1> QED
  BY <1>4, <1>5, <1>6, <1>7 DEF AInv

\* The program stops.
LEMMA Stops ==
  ASSUME AInv, prog' = prog, Shapes', state' # "running",
         KeepsArrays(prog) => state' \notin {"use after free", "double free"},
         Disciplined(prog) => state' \notin MemoryFaults
  PROVE  AInv'
<1>1. Apart' /\ Owned' /\ Complete'
  BY DEF Apart, Owned, Complete
<1>2. OnlyResetDangles' /\ DisciplinedIsSafe'
  BY DisciplineIs DEF OnlyResetDangles, DisciplinedIsSafe
<1> QED
  BY <1>1, <1>2 DEF AInv

LEMMA FaultStops ==
  ASSUME AInv, NEW kind \in {"store through NULL"} \cup MemoryFaults, Fault(kind),
         KeepsArrays(prog) => kind \notin {"use after free", "double free"},
         Disciplined(prog) => kind \notin MemoryFaults
  PROVE  AInv'
<1>1. /\ state' = kind /\ prog' = prog /\ pc' = pc /\ trips' = trips /\ arena' = arena
      /\ arr' = arr /\ live' = live
  BY DEF Fault
<1>2. state' # "running"
  BY <1>1 DEF MemoryFaults
<1>3. Shapes'
  BY <1>1 DEF AInv, Shapes
<1> QED
  BY <1>1, <1>2, <1>3, Stops

\* A statement that is no user of an arena is not where one is initialised.
LEMMA NoInitSite ==
  ASSUME NEW p \in Programs, NEW s \in 1 .. Len(p), NEW sc, HasArena(p, sc),
         TargetScope(p, s) # sc
  PROVE  InitSite(p, sc) # s
BY InitSiteIs

\* What is known where a statement runs.
LEMMA AtFacts ==
  ASSUME Shapes, NEW op, At(op)
  PROVE  /\ state = "running" /\ prog \in Programs /\ Plain(prog)
         /\ pc \in 1 .. Len(prog) /\ pc \in 1 .. Len(prog) + 1 /\ prog[pc].op = op
         /\ pc + 1 \in 1 .. Len(prog) + 1
         /\ DOMAIN arena = Openers(prog) \cup {0}
         /\ DOMAIN arr = Arrays(prog) /\ (pc \in DOMAIN arr <=> op = "decl")
         /\ op \notin {"if", "while", "for", "switch", "end"} =>
              OpenScopes(prog, pc + 1) = OpenScopes(prog, pc)
         /\ op = "end" <=> pc \in Ends(prog)
         /\ op \in {"if", "while"} => pc \in Openers(prog)
<1>1. /\ state = "running" /\ prog \in Programs /\ pc \in DOMAIN prog /\ prog[pc].op = op
      /\ DOMAIN arena = Openers(prog) \cup {0} /\ DOMAIN arr = Arrays(prog)
  BY DEF At, Shapes
<1>2. /\ Plain(prog) /\ pc \in 1 .. Len(prog) /\ pc \in 1 .. Len(prog) + 1
      /\ pc + 1 \in 1 .. Len(prog) + 1
  BY <1>1, ProgramFacts
<1>3. pc \in Arrays(prog) <=> op = "decl"
  BY <1>1 DEF Arrays
<1>4. /\ op \notin {"if", "while", "for", "switch", "end"} => pc \notin Openers(prog) \cup Ends(prog)
      /\ op = "end" <=> pc \in Ends(prog)
      /\ op \in {"if", "while"} => pc \in Openers(prog)
  BY <1>1 DEF Openers, Ends
<1> QED
  BY <1>1, <1>2, <1>3, <1>4, OpenNext

LEMMA DeclareArrayAInv ==
  ASSUME AInv, DeclareArray
  PROVE  AInv'
<1>1. Shapes /\ At("decl")
  BY DEF AInv, DeclareArray
<1>2. /\ state = "running" /\ prog \in Programs /\ pc \in 1 .. Len(prog) /\ prog[pc].op = "decl"
      /\ pc + 1 \in 1 .. Len(prog) + 1
      /\ pc \in DOMAIN arr /\ OpenScopes(prog, pc + 1) = OpenScopes(prog, pc)
  BY <1>1, AtFacts
<1>3. /\ prog' = prog /\ pc' = pc + 1 /\ state' = state /\ trips' = trips
      /\ arena' = arena /\ live' = live /\ arr' = [arr EXCEPT ![pc] = NewArray]
  BY DEF DeclareArray, Goto
<1>4. NewArray \in Slots /\ NewArray.data = NULL
  BY DEF NewArray, Slots
<1>5. /\ DOMAIN arr' = DOMAIN arr /\ arr'[pc].data = NULL
      /\ \A t \in DOMAIN arr : t # pc => arr'[t] = arr[t]
  BY <1>1, <1>2, <1>3, <1>4 DEF Shapes
<1>6. Shapes'
  <2>1. arr' \in [Arrays(prog) -> Slots]
    BY <1>1, <1>3, <1>4 DEF Shapes
  <2> QED
    BY <1>1, <1>2, <1>3, <2>1 DEF Shapes
<1>7. Successor(prog, pc, pc')
  BY <1>3 DEF Successor
<1>8. \A sc \in OpenScopes(prog, pc') : HasArena(prog, sc) => InitSite(prog, sc) # pc
  <2>1. TargetScope(prog, pc) = NoScope
    BY <1>2, TargetIs
  <2>2. NoScope \notin OpenScopes(prog, pc')
    BY <1>2, <1>3, ScopeFacts
  <2> QED
    BY <1>2, <2>1, <2>2, NoInitSite
<1>9. BlocksAreOwned =>
        \A sc \in DOMAIN arena : Held(arena[sc]) # {} => sc \in OpenScopes(prog, pc')
  BY <1>2, <1>3 DEF BlocksAreOwned
<1>10. \A t \in DOMAIN arr : arr'[t].data = arr[t].data \/ arr'[t].data = NULL
  BY <1>5
<1>11. /\ ArenasAreApart => ArenasAreApart'
       /\ BuffersAreApart => BuffersAreApart'
       /\ InitDominates(prog) =>
            /\ UsedArenasAreReady => UsedArenasAreReady'
            /\ BuffersAreOwned => BuffersAreOwned'
            /\ BlocksAreOwned => BlocksAreOwned'
  BY <1>1, <1>2, <1>3, <1>5, <1>7, <1>8, <1>9, <1>10, QuietStep
<1> QED
  BY <1>2, <1>3, <1>6, <1>11, DisciplineIs, GoesOn

\* A step that only moves control.
LEMMA ControlStep ==
  ASSUME AInv, NEW op \in {"if", "while", "end", "break", "continue"}, At(op),
         prog' = prog, Successor(prog, pc, pc'),
         UNCHANGED <<arena, arr, live, state>>, trips' \in 0 .. MaxTrips,
         Structured(prog) /\ BlocksAreOwned =>
           \A sc \in DOMAIN arena : Held(arena[sc]) # {} => sc \in OpenScopes(prog, pc')
  PROVE  AInv'
<1>1. Shapes
  BY DEF AInv
<1>2. /\ state = "running" /\ prog \in Programs /\ pc \in 1 .. Len(prog) /\ prog[pc].op = op
      /\ pc \notin DOMAIN arr
  BY <1>1, AtFacts
<1>3. pc' \in 1 .. Len(prog) + 1
  BY <1>2, Control
<1>4. Shapes'
  BY <1>1, <1>3 DEF Shapes
<1>5. \A sc \in OpenScopes(prog, pc') : HasArena(prog, sc) => InitSite(prog, sc) # pc
  <2>1. TargetScope(prog, pc) = NoScope
    BY <1>2, TargetIs
  <2>2. NoScope \notin OpenScopes(prog, pc')
    BY <1>2, <1>3, ScopeFacts
  <2> QED
    BY <1>2, <2>1, <2>2, NoInitSite
<1>6. /\ ArenasAreApart => ArenasAreApart'
      /\ BuffersAreApart => BuffersAreApart'
      /\ InitDominates(prog) =>
           /\ UsedArenasAreReady => UsedArenasAreReady'
           /\ BuffersAreOwned => BuffersAreOwned'
           /\ BlocksAreOwned /\ Structured(prog) => BlocksAreOwned'
  BY <1>1, <1>2, <1>5, QuietStep
<1> QED
  BY <1>2, <1>4, <1>6, DisciplineIs, GoesOn

LEMMA EnterBlockAInv ==
  ASSUME AInv, EnterBlock
  PROVE  AInv'
<1>1. PICK op \in {"if", "while"} : At(op)
  BY DEF EnterBlock
<1>2. Shapes
  BY DEF AInv
<1>3. pc \in 1 .. Len(prog) /\ pc \in Openers(prog) /\ Plain(prog)
  BY <1>1, <1>2, AtFacts
<1>4. /\ prog' = prog /\ pc' = pc + 1 /\ UNCHANGED <<arena, arr, live, state>>
  BY DEF EnterBlock, Goto
<1>5. trips' \in 0 .. MaxTrips
  <2>1. trips \in 0 .. MaxTrips /\ MaxTrips \in Nat
    BY <1>2, BoundAssumption DEF Shapes
  <2>2. At("while") => trips < MaxTrips
    BY DEF EnterBlock, At
  <2> QED
    BY <2>1, <2>2 DEF EnterBlock
<1>6. OpenScopes(prog, pc') = OpenScopes(prog, pc) \cup {pc}
  BY <1>3, <1>4, OpenNext
<1>7. Successor(prog, pc, pc')
  BY <1>4 DEF Successor
<1>8. BlocksAreOwned =>
        \A sc \in DOMAIN arena : Held(arena[sc]) # {} => sc \in OpenScopes(prog, pc')
  BY <1>6 DEF BlocksAreOwned
<1> QED
  BY <1>1, <1>4, <1>5, <1>7, <1>8, ControlStep

LEMMA SkipBlockAInv ==
  ASSUME AInv, SkipBlock
  PROVE  AInv'
<1>1. PICK op \in {"if", "while"} : At(op)
  BY DEF SkipBlock
<1>2. Shapes
  BY DEF AInv
<1>3. pc \in Openers(prog) /\ Plain(prog)
  BY <1>1, <1>2, AtFacts
<1>4. /\ prog' = prog /\ pc' = EndOf(prog, pc) + 1
      /\ UNCHANGED <<arena, arr, live, state>> /\ trips' = trips
  BY DEF SkipBlock, Goto
<1>5. trips' \in 0 .. MaxTrips
  BY <1>2, <1>4 DEF Shapes
<1>6. OpenScopes(prog, pc') = OpenScopes(prog, pc)
  BY <1>3, <1>4, EndScope
<1>7. Successor(prog, pc, pc')
  BY <1>3, <1>4 DEF Successor
<1>8. BlocksAreOwned =>
        \A sc \in DOMAIN arena : Held(arena[sc]) # {} => sc \in OpenScopes(prog, pc')
  BY <1>6 DEF BlocksAreOwned
<1> QED
  BY <1>1, <1>4, <1>5, <1>7, <1>8, ControlStep

LEMMA JumpAInv ==
  ASSUME AInv, Jump
  PROVE  AInv'
<1>1. PICK op \in {"break", "continue"} : At(op)
  BY DEF Jump
<1>2. Shapes
  BY DEF AInv
<1>3. /\ pc \in 1 .. Len(prog) /\ pc \in DOMAIN prog /\ prog[pc].op = op
      /\ prog \in Programs /\ Plain(prog)
  BY <1>1, <1>2, AtFacts DEF At
<1>4. Inside(prog, LoopOf(prog, pc), pc)
  <2>1. LoopsAround(prog, pc) # {}
    BY <1>3, ProgramsAssumption DEF WellFormed
  <2> QED
    BY <1>3, <2>1, LoopIs DEF LoopOf
<1>5. /\ prog' = prog /\ UNCHANGED <<arena, arr, live, state>> /\ trips' = trips
      /\ pc' = EndOf(prog, LoopOf(prog, pc)) + 1 \/ pc' = LoopOf(prog, pc)
  BY DEF Jump, Goto
<1>6. trips' \in 0 .. MaxTrips
  BY <1>2, <1>5 DEF Shapes
<1>7. Successor(prog, pc, pc')
  BY <1>4, <1>5 DEF Successor
<1>8. ~Structured(prog)
  BY <1>3 DEF Structured
<1> QED
  BY <1>1, <1>5, <1>6, <1>7, <1>8, ControlStep

\* What a free can go wrong with.
LEMMA FreeFaultIs ==
  ASSUME NEW a
  PROVE  /\ FreeFault(a) \in {"none", "uninitialised arena", "double free"}
         /\ FreeFault(a) = "uninitialised arena" => a = UNINIT
         /\ FreeFault(a) = "double free" => a # UNINIT /\ ~SafeToFree(a, live)
BY DEF FreeFault

\* An arena of ArenasAreApart frees without a fault, once it is initialised.
LEMMA ApartIsSafe ==
  ASSUME ArenasAreApart, NEW sc \in DOMAIN arena, arena[sc] # UNINIT
  PROVE  SafeToFree(arena[sc], live)
<1>1. Held(arena[sc]) \subseteq live /\ Once(arena[sc])
  BY DEF ArenasAreApart
<1> QED
  BY <1>1 DEF SafeToFree, Once, Held

\* The arena that the statement at pc uses, where its arena_init has run.
LEMMA ReadyIs ==
  ASSUME Shapes, pc \in 1 .. Len(prog), NEW sc \in OpenScopes(prog, pc),
         TargetScope(prog, pc) = sc
  PROVE  /\ sc \in DOMAIN arena
         /\ Ready(sc) \in Seq(Addr) \cup {UNINIT}
         /\ UsedArenasAreReady => Ready(sc) # UNINIT
         /\ ArenasAreApart /\ Ready(sc) # UNINIT =>
              /\ SafeToFree(Ready(sc), live)
              /\ Once(Ready(sc)) /\ Tracked(Ready(sc)) \subseteq live
<1>1. prog \in Programs /\ pc \in 1 .. Len(prog) + 1 /\ pc \in DOMAIN prog
  BY ProgramFacts DEF Shapes
<1>2. sc \in DOMAIN arena /\ arena[sc] \in Seq(Addr) \cup {UNINIT}
  BY <1>1, ScopeFacts DEF Shapes
<1>3. Ready(sc) = EmptyArena \/ Ready(sc) = arena[sc]
  BY DEF Ready
<1>4. HasArena(prog, sc) /\ InitSite(prog, sc) \in 1 .. Len(prog) /\ InitSite(prog, sc) <= pc
  <2>1. HasArena(prog, sc)
    BY <1>1 DEF HasArena, Users
  <2> QED
    BY <1>1, <2>1, InitSiteIs
<1>5. ASSUME UsedArenasAreReady
      PROVE  Ready(sc) # UNINIT
  <2>1. CASE InitSite(prog, sc) = pc
    BY <2>1, EmptyIs DEF Ready
  <2>2. CASE InitSite(prog, sc) # pc
    <3>1. InitSite(prog, sc) < pc
      BY <1>4, <2>2
    <3> QED
      BY <1>4, <1>5, <2>2, <3>1 DEF UsedArenasAreReady, Ready
  <2> QED
    BY <2>1, <2>2
<1>6. ASSUME ArenasAreApart, Ready(sc) # UNINIT
      PROVE  SafeToFree(Ready(sc), live) /\ Once(Ready(sc)) /\ Tracked(Ready(sc)) \subseteq live
  <2>1. Once(Ready(sc)) /\ Tracked(Ready(sc)) \subseteq live
    <3>1. CASE Ready(sc) = EmptyArena
      BY <3>1, EmptyIs
    <3>2. CASE Ready(sc) = arena[sc]
      BY <1>2, <1>6, <3>2 DEF ArenasAreApart, Held
    <3> QED
      BY <1>3, <3>1, <3>2
  <2> QED
    BY <2>1 DEF SafeToFree, Once
<1> QED
  BY <1>2, <1>3, <1>5, <1>6, EmptyIs

\* What is known at the closing brace of the block of sc.
LEMMA EndFacts ==
  ASSUME Shapes, At("end"), NEW sc, sc = ScopeOf(prog, pc)
  PROVE  /\ sc \in Openers(prog) /\ sc \in DOMAIN arena /\ sc \in OpenScopes(prog, pc)
         /\ Successor(prog, pc, AfterBlock(sc))
         /\ OpenScopes(prog, AfterBlock(sc)) = OpenScopes(prog, pc) \ {sc}
         /\ InitDominates(prog) /\ HasArena(prog, sc) => InitSite(prog, sc) < pc
<1>1. /\ prog \in Programs /\ Plain(prog) /\ pc \in 1 .. Len(prog) /\ pc \in 1 .. Len(prog) + 1
      /\ prog[pc].op = "end" /\ pc \in Ends(prog) /\ DOMAIN arena = Openers(prog) \cup {0}
  BY AtFacts
<1>2. /\ sc \in Openers(prog) /\ sc < pc /\ EndOf(prog, sc) = pc
      /\ OpenScopes(prog, pc+1) = OpenScopes(prog, pc) \ {sc}
      /\ OpenScopes(prog, sc) = OpenScopes(prog, pc) \ {sc}
  BY <1>1, OpenNext
<1>3. Inside(prog, sc, pc)
  <2>1. pc <= EndOf(prog, sc)
    BY <1>1, <1>2
  <2> QED
    BY <1>1, <1>2, <2>1, InsideIsBeforeEnd
<1>4. AfterBlock(sc) = sc \/ AfterBlock(sc) = pc + 1
  BY DEF AfterBlock
<1>5. Successor(prog, pc, AfterBlock(sc))
  BY <1>3, <1>4 DEF Successor
<1>6. ASSUME InitDominates(prog), HasArena(prog, sc)
      PROVE  InitSite(prog, sc) < pc
  <2> DEFINE i == InitSite(prog, sc)
  <2>1. i \in 1 .. Len(prog) /\ ScopeOf(prog, i) = sc /\ i # pc
    <3>1. TargetScope(prog, pc) # sc
      BY <1>1, <1>2, TargetIs, ScopeFacts
    <3> QED
      BY <1>1, <1>2, <1>6, <3>1, InitSiteIs, NoInitSite DEF InitDominates
  <2> HIDE DEF i
  <2>2. i \in 1 .. Len(prog) + 1 /\ sc # 0 /\ sc \in OpenScopes(prog, i)
    <3>1. i \in 1 .. Len(prog) + 1 /\ sc # 0
      BY <1>1, <1>2, <2>1, ProgramFacts
    <3> QED
      BY <1>1, <2>1, <3>1, ScopeFacts
  <2>3. Inside(prog, sc, i)
    BY <1>1, <2>2, OpenIs
  <2>4. i <= pc
    BY <1>1, <1>2, <2>2, <2>3, InsideIsBeforeEnd
  <2> QED
    BY <1>1, <2>1, <2>4 DEF i
<1>7. sc \in OpenScopes(prog, pc)
  BY <1>1, ScopeFacts
<1> QED
  BY <1>1, <1>2, <1>4, <1>5, <1>6, <1>7

LEMMA ReleaseShapes ==
  ASSUME Shapes, NEW sc \in DOMAIN arena, NEW a, Release(sc, a), prog' = prog,
         pc' \in 1 .. Len(prog) + 1, UNCHANGED <<trips, arr>>,
         state' \in {"running", "returned"}
  PROVE  Shapes'
<1>1. /\ live' = live \ Tracked(a) /\ arena' = [arena EXCEPT ![sc] = EmptyArena]
      /\ EmptyArena \in Seq(Addr)
  BY EmptyIs DEF Release
<1>2. arena' \in [Openers(prog) \cup {0} -> Seq(Addr) \cup {UNINIT}]
  BY <1>1 DEF Shapes
<1> QED
  BY <1>1, <1>2 DEF Shapes

LEMMA EndBlockAInv ==
  ASSUME AInv, EndBlock
  PROVE  AInv'
<1> DEFINE sc == ScopeOf(prog, pc)
<1>1. Shapes /\ At("end") /\ state = "running"
  BY DEF AInv, EndBlock, At
<1>2. /\ sc \in Openers(prog) /\ sc \in DOMAIN arena /\ sc \in OpenScopes(prog, pc)
      /\ Successor(prog, pc, AfterBlock(sc))
      /\ OpenScopes(prog, AfterBlock(sc)) = OpenScopes(prog, pc) \ {sc}
      /\ InitDominates(prog) /\ HasArena(prog, sc) => InitSite(prog, sc) < pc
  BY <1>1, EndFacts
<1>3. /\ \/ HasArena(prog, sc) /\ FreeFault(arena[sc]) # "none" /\ Fault(FreeFault(arena[sc]))
         \/ /\ HasArena(prog, sc) /\ Release(sc, arena[sc]) /\ Goto(AfterBlock(sc))
            /\ UNCHANGED <<trips, arr>>
         \/ ~HasArena(prog, sc) /\ Goto(AfterBlock(sc)) /\ UNCHANGED <<trips, arena, arr, live>>
  BY DEF EndBlock
<1>4. /\ prog \in Programs /\ pc \in 1 .. Len(prog) /\ pc \in 1 .. Len(prog) + 1
      /\ pc \notin DOMAIN arr /\ prog[pc].op = "end"
  BY <1>1, AtFacts
<1> HIDE DEF sc
<1>5. CASE HasArena(prog, sc) /\ FreeFault(arena[sc]) # "none" /\ Fault(FreeFault(arena[sc]))
  <2>1. FreeFault(arena[sc]) \in MemoryFaults
    BY <1>5, FreeFaultIs DEF MemoryFaults
  <2>2. ASSUME KeepsArrays(prog)
        PROVE  FreeFault(arena[sc]) = "uninitialised arena"
    <3>1. ArenasAreApart
      BY <1>1, <2>2 DEF AInv, Apart
    <3> QED
      BY <1>2, <1>5, <3>1, ApartIsSafe, FreeFaultIs
  <2>3. ASSUME Disciplined(prog)
        PROVE  FALSE
    <3>1. UsedArenasAreReady
      BY <1>1, <2>3 DEF AInv, Owned
    <3>2. InitSite(prog, sc) < pc
      BY <1>2, <1>5, <2>3, DisciplineIs
    <3>3. arena[sc] # UNINIT
      BY <1>2, <1>5, <3>1, <3>2 DEF UsedArenasAreReady
    <3> QED
      BY <2>2, <2>3, <3>3, FreeFaultIs, DisciplineIs
  <2> QED
    BY <1>5, <2>1, <2>2, <2>3, FaultStops
<1>6. CASE /\ HasArena(prog, sc) /\ Release(sc, arena[sc]) /\ Goto(AfterBlock(sc))
           /\ UNCHANGED <<trips, arr>>
  <2>1. prog' = prog /\ pc' = AfterBlock(sc) /\ state' = state
    BY <1>6 DEF Goto
  <2>2. Successor(prog, pc, pc') /\ OpenScopes(prog, pc') = OpenScopes(prog, pc) \ {sc}
    BY <1>2, <2>1
  <2>3. pc' \in 1 .. Len(prog) + 1
    BY <1>4, <2>1, <2>2, Control
  <2>4. Shapes'
    BY <1>1, <1>2, <1>6, <2>1, <2>3, ReleaseShapes
  <2>5. \A t \in DOMAIN arr : InScope(t)' => ScopeOf(prog, t) # sc
    BY <2>1, <2>2 DEF InScope
  <2>6. \A o \in OpenScopes(prog, pc') : HasArena(prog, o) => InitSite(prog, o) # pc
    <3>1. TargetScope(prog, pc) = NoScope /\ NoScope \notin OpenScopes(prog, pc')
      BY <1>4, <2>3, TargetIs, ScopeFacts
    <3> QED
      BY <1>4, <3>1, NoInitSite
  <2>7. BlocksAreOwned =>
          \A o \in DOMAIN arena \ {sc} : Held(arena[o]) # {} => o \in OpenScopes(prog, pc')
    BY <2>2 DEF BlocksAreOwned
  <2>8. /\ ArenasAreApart => ArenasAreApart'
        /\ ArenasAreApart /\ BuffersAreApart => BuffersAreApart'
        /\ InitDominates(prog) =>
             /\ UsedArenasAreReady => UsedArenasAreReady'
             /\ BuffersAreOwned => BuffersAreOwned'
             /\ ArenasAreApart /\ BlocksAreOwned => BlocksAreOwned'
    BY <1>1, <1>2, <1>4, <1>6, <2>1, <2>2, <2>5, <2>6, <2>7, ReleaseStep
  <2> QED
    BY <1>1, <2>1, <2>4, <2>8, DisciplineIs, GoesOn
<1>7. CASE ~HasArena(prog, sc) /\ Goto(AfterBlock(sc)) /\ UNCHANGED <<trips, arena, arr, live>>
  <2>1. prog' = prog /\ pc' = AfterBlock(sc) /\ state' = state
    BY <1>7 DEF Goto
  <2>2. Successor(prog, pc, pc') /\ OpenScopes(prog, pc') = OpenScopes(prog, pc) \ {sc}
    BY <1>2, <2>1
  <2>3. BlocksAreOwned =>
          \A o \in DOMAIN arena : Held(arena[o]) # {} => o \in OpenScopes(prog, pc')
    BY <1>7, <2>2 DEF BlocksAreOwned
  <2>4. trips' \in 0 .. MaxTrips
    BY <1>1, <1>7 DEF Shapes
  <2> QED
    BY <1>1, <1>7, <2>1, <2>2, <2>3, <2>4, ControlStep
<1> QED
  BY <1>3, <1>5, <1>6, <1>7

LEMMA ResetStmtAInv ==
  ASSUME AInv, ResetStmt
  PROVE  AInv'
<1> DEFINE sc == ScopeOf(prog, pc)
           a == Ready(sc)
<1>1. Shapes /\ At("reset") /\ state = "running"
  BY DEF AInv, ResetStmt, At
<1>2. /\ prog \in Programs /\ pc \in 1 .. Len(prog) /\ pc \in 1 .. Len(prog) + 1
      /\ pc \in DOMAIN prog /\ prog[pc].op = "reset" /\ pc \notin DOMAIN arr
      /\ pc + 1 \in 1 .. Len(prog) + 1
      /\ OpenScopes(prog, pc + 1) = OpenScopes(prog, pc)
  BY <1>1, AtFacts DEF At
<1>3. sc \in OpenScopes(prog, pc) /\ TargetScope(prog, pc) = sc
  BY <1>2, TargetIs, ScopeFacts
<1>4. \/ FreeFault(a) # "none" /\ Fault(FreeFault(a))
      \/ Release(sc, a) /\ Goto(pc + 1) /\ UNCHANGED <<trips, arr>>
  BY DEF ResetStmt
<1> HIDE DEF a
<1>5. /\ sc \in DOMAIN arena
      /\ UsedArenasAreReady => a # UNINIT
      /\ ArenasAreApart /\ a # UNINIT => SafeToFree(a, live)
  BY <1>1, <1>2, <1>3, ReadyIs DEF a
<1>6. CASE FreeFault(a) # "none" /\ Fault(FreeFault(a))
  <2>1. FreeFault(a) \in MemoryFaults
    BY <1>6, FreeFaultIs DEF MemoryFaults
  <2>2. ASSUME KeepsArrays(prog)
        PROVE  FreeFault(a) = "uninitialised arena"
    <3>1. ArenasAreApart
      BY <1>1, <2>2 DEF AInv, Apart
    <3> QED
      BY <1>5, <1>6, <3>1, FreeFaultIs
  <2>3. ASSUME Disciplined(prog)
        PROVE  FALSE
    <3>1. UsedArenasAreReady
      BY <1>1, <2>3 DEF AInv, Owned
    <3> QED
      BY <1>5, <2>2, <2>3, <3>1, FreeFaultIs, DisciplineIs
  <2> QED
    BY <1>6, <2>1, <2>2, <2>3, FaultStops
<1>7. CASE Release(sc, a) /\ Goto(pc + 1) /\ UNCHANGED <<trips, arr>>
  <2>1. prog' = prog /\ pc' = pc + 1 /\ state' = state
    BY <1>7 DEF Goto
  <2>2. Successor(prog, pc, pc')
    BY <2>1 DEF Successor
  <2>3. Shapes'
    BY <1>1, <1>2, <1>5, <1>7, <2>1, ReleaseShapes
  <2>4. ASSUME KeepsArrays(prog), BuffersAreApart
        PROVE  \A t \in DOMAIN arr : InScope(t)' /\ arr[t].data # NULL => ScopeOf(prog, t) # sc
    <3> SUFFICES ASSUME NEW t \in DOMAIN arr, InScope(t)', arr[t].data # NULL
                 PROVE  ScopeOf(prog, t) # sc
      OBVIOUS
    <3>1. t \in 1 .. Len(prog)
      BY <1>1, <1>2, ProgramFacts DEF Shapes, Arrays
    <3>2. InScope(t)
      BY <1>2, <2>1, <2>2, <3>1, Control
    <3>3. HoldsArrays(prog, ScopeOf(prog, t))
      BY <2>4, <3>2 DEF BuffersAreApart
    <3> QED
      BY <1>2, <2>4, <3>3, DisciplineIs DEF ResetsNoArray, HoldsArrays
  <2>5. \A o \in OpenScopes(prog, pc') \ {sc} : HasArena(prog, o) => InitSite(prog, o) # pc
    BY <1>2, <1>3, NoInitSite
  <2>6. BlocksAreOwned =>
          \A o \in DOMAIN arena \ {sc} : Held(arena[o]) # {} => o \in OpenScopes(prog, pc')
    BY <1>2, <2>1 DEF BlocksAreOwned
  <2>7. KeepsArrays(prog) /\ BuffersAreApart =>
          /\ ArenasAreApart => ArenasAreApart'
          /\ ArenasAreApart => BuffersAreApart'
          /\ InitDominates(prog) =>
               /\ UsedArenasAreReady => UsedArenasAreReady'
               /\ BuffersAreOwned => BuffersAreOwned'
               /\ ArenasAreApart /\ BlocksAreOwned => BlocksAreOwned'
    <3>1. a = Ready(sc)
      BY DEF a
    <3> HIDE DEF sc
    <3> QED
      BY <1>1, <1>2, <1>5, <1>7, <2>1, <2>2, <2>4, <2>5, <2>6, <3>1, ReleaseStep
  <2> QED
    BY <1>1, <2>1, <2>3, <2>7, DisciplineIs, GoesOn
<1> QED
  BY <1>4, <1>6, <1>7

LEMMA PushType ==
  ASSUME NEW a \in Seq(Addr), NEW p \in Addr \cup {NULL}
  PROVE  ArenaPush(a, p) \in Seq(Addr)
<1>1. p # NULL => p \in Addr
  OBVIOUS
<1> QED
  BY <1>1 DEF ArenaPush

LEMMA TrackType ==
  ASSUME NEW a \in Seq(Addr), NEW old, NEW new \in Addr
  PROVE  ArenaReallocTrack(a, old, new) \in Seq(Addr)
<1>1. new # NULL /\ ArenaPush(a, new) \in Seq(Addr)
  BY AddrAssumption, PushType
<1>2. ASSUME NEW k
      PROVE  [a EXCEPT ![k] = new] \in Seq(Addr)
  <2>1. CASE k \in DOMAIN a
    BY <2>1
  <2>2. CASE k \notin DOMAIN a
    <3>1. DOMAIN a = 1 .. Len(a) /\ Len(a) \in Nat /\ \A i \in 1 .. Len(a) : a[i] \in Addr
      OBVIOUS
    <3>2. [a EXCEPT ![k] = new] = [i \in 1 .. Len(a) |-> a[i]]
      BY <2>2, <3>1
    <3>3. [i \in 1 .. Len(a) |-> a[i]] = a
      BY <3>1
    <3> QED
      BY <3>2, <3>3
  <2> QED
    BY <2>1, <2>2
<1> QED
  BY <1>1, <1>2 DEF ArenaReallocTrack

LEMMA NewContainerAInv ==
  ASSUME AInv, NewContainer
  PROVE  AInv'
<1> DEFINE sc == ScopeOf(prog, pc)
           a == Ready(sc)
<1>1. PICK op \in {"list", "vector"} : At(op)
  BY DEF NewContainer
<1>2. Shapes /\ state = "running"
  BY <1>1 DEF AInv, At
<1>3. /\ prog \in Programs /\ pc \in 1 .. Len(prog) /\ pc \in 1 .. Len(prog) + 1
      /\ pc \in DOMAIN prog /\ prog[pc].op = op /\ pc \notin DOMAIN arr
      /\ pc + 1 \in 1 .. Len(prog) + 1
      /\ OpenScopes(prog, pc + 1) = OpenScopes(prog, pc)
  BY <1>1, <1>2, AtFacts DEF At
<1>4. sc \in OpenScopes(prog, pc) /\ TargetScope(prog, pc) = sc
  BY <1>3, TargetIs, ScopeFacts
<1>5. /\ sc \in DOMAIN arena /\ a \in Seq(Addr) \cup {UNINIT}
      /\ UsedArenasAreReady => a # UNINIT
      /\ ArenasAreApart /\ a # UNINIT => Once(a) /\ Tracked(a) \subseteq live
  BY <1>2, <1>3, <1>4, ReadyIs
<1>6. CASE a = UNINIT /\ Fault("uninitialised arena")
  <2>1. ~Disciplined(prog)
    BY <1>2, <1>5, <1>6 DEF AInv, Owned
  <2> QED
    BY <1>6, <2>1, FaultStops DEF MemoryFaults
<1>7. ASSUME NEW p \in (Addr \ live) \cup MayFail, NEW buf,
             buf = {} \/ (prog[pc].op = "vector" /\ p # NULL
                          /\ \E b \in Addr \ (live \cup {p}) : buf = {b}),
             a = UNINIT => p = NULL,
             arena' = [arena EXCEPT ![sc] = ArenaPush(a, p)],
             live' = (live \cup {p} \cup buf) \ {NULL},
             Goto(pc + 1), UNCHANGED <<trips, arr>>
      PROVE  AInv'
  <2>1. prog' = prog /\ pc' = pc + 1 /\ state' = state /\ trips' = trips /\ arr' = arr
    BY <1>7 DEF Goto
  <2>2. p \in Addr \cup {NULL} /\ p \notin live /\ NULL \notin live /\ live \subseteq Addr /\ NULL \notin Addr
    BY <1>2, <1>7, AddrAssumption DEF MayFail, Shapes
  <2>3. buf \subseteq Addr /\ buf \cap live = {} /\ (p = NULL => buf = {})
    BY <1>7
  <2>4. a = UNINIT => ArenaPush(a, p) = a
    BY <1>7 DEF ArenaPush
  <2>5. a # UNINIT => ArenaPush(a, p) \in Seq(Addr)
    BY <1>5, <2>2, PushType
  <2>6. Successor(prog, pc, pc')
    BY <2>1 DEF Successor
  <2> HIDE DEF a, sc
  <2>7. Shapes'
    <3>1. arena' \in [Openers(prog) \cup {0} -> Seq(Addr) \cup {UNINIT}]
      BY <1>2, <1>5, <1>7, <2>4, <2>5 DEF Shapes
    <3>2. live' \subseteq Addr
      BY <1>7, <2>2, <2>3
    <3> QED
      BY <1>2, <1>3, <2>1, <3>1, <3>2 DEF Shapes
  <2>8. CASE a = UNINIT
    <3>1. a = Ready(sc) /\ EmptyArena # UNINIT
      BY EmptyIs DEF a
    <3>2. a = arena[sc]
      BY <2>8, <3>1 DEF Ready
    <3>3. arena' = arena
      BY <1>2, <1>7, <2>4, <2>8, <3>2 DEF Shapes
    <3>4. live' = live
      BY <1>7, <2>2, <2>3, <2>8
    <3>5. /\ ArenasAreApart => ArenasAreApart'
          /\ BuffersAreApart => BuffersAreApart'
      BY <1>2, <1>3, <2>1, <2>6, <3>3, <3>4, QuietStep
    <3> QED
      BY <1>2, <1>5, <2>1, <2>7, <2>8, <3>5, GoesOn
  <2>9. CASE a # UNINIT
    <3> DEFINE b == ArenaPush(a, p)
               fresh == {p} \ {NULL}
    <3>1. ASSUME ArenasAreApart, BuffersAreApart
          PROVE  /\ ArenasAreApart' /\ BuffersAreApart'
                 /\ InitDominates(prog) =>
                      /\ UsedArenasAreReady => UsedArenasAreReady'
                      /\ BuffersAreOwned => BuffersAreOwned'
                      /\ BlocksAreOwned /\ buf = {} => BlocksAreOwned'
      <4>1. a \in Seq(Addr) /\ Once(a) /\ Tracked(a) \subseteq live /\ a = Ready(sc)
        BY <1>5, <2>9, <3>1 DEF a
      <4>2. b \in Seq(Addr) /\ Once(b) /\ Tracked(b) = (Tracked(a) \ {NULL}) \cup fresh
        <5>1. CASE p = NULL
          <6>1. b = a
            BY <5>1 DEF ArenaPush
          <6> QED
            BY <2>2, <4>1, <5>1, <6>1
        <5>2. CASE p # NULL
          <6>1. p \in Addr /\ p \notin Tracked(a)
            BY <2>2, <4>1, <5>2
          <6> QED
            BY <2>2, <4>1, <5>2, <6>1, PushIs
        <5> QED
          BY <5>1, <5>2
      <4>3. live' = (live \ {NULL}) \cup fresh \cup buf
        BY <1>7, <2>2, <2>3
      <4>4. (fresh \cup buf) \cap (live \ {NULL}) = {}
        BY <2>2, <2>3
      <4>5. \A o \in DOMAIN arena \ {sc} : NULL \notin Held(arena[o])
        BY <2>2, <3>1 DEF ArenasAreApart
      <4>6. \A t \in DOMAIN arr : InScope(t)' => InScope(t)
        <5>1. DOMAIN arr \subseteq 1 .. Len(prog)
          BY <1>2, <1>3, ProgramFacts DEF Shapes, Arrays
        <5> QED
          BY <1>3, <2>1, <2>6, <5>1, Control
      <4>7. \A t \in DOMAIN arr :
              InScope(t)' /\ arr'[t].data # NULL =>
                InScope(t) /\ arr'[t].data = arr[t].data /\ arr[t].data # NULL
        BY <2>1, <4>6
      <4>8. \A t \in DOMAIN arr : InScope(t)' => arr'[t].data \notin fresh
        BY <2>1, <2>2, <3>1, <4>6 DEF BuffersAreApart
      <4> HIDE DEF b, fresh
      <4>9. /\ arena' = [arena EXCEPT ![sc] = b] /\ Ready(sc) \in Seq(Addr)
            /\ Tracked(b) = (Tracked(Ready(sc)) \ {NULL}) \cup fresh
            /\ OpenScopes(prog, pc') = OpenScopes(prog, pc)
            /\ sc \in OpenScopes(prog, pc) /\ TargetScope(prog, pc) = sc
        BY <1>3, <1>4, <1>7, <2>1, <4>1, <4>2 DEF b, sc
      <4>10. DOMAIN arr' = DOMAIN arr
        BY <2>1
      <4> QED
        BY <1>2, <1>3, <2>1, <3>1, <4>2, <4>3, <4>4, <4>5, <4>7, <4>8, <4>9, <4>10, StoreStep
    <3>2. Structured(prog) => buf = {}
      BY <1>3, <1>7 DEF Structured
    <3> QED
      BY <1>2, <2>1, <2>7, <3>1, <3>2, DisciplineIs, GoesOn
  <2> QED
    BY <2>8, <2>9
<1>8. \/ a = UNINIT /\ Fault("uninitialised arena")
      \/ \E p \in (Addr \ live) \cup MayFail :
         \E buf \in {{}} \cup IF prog[pc].op = "vector" /\ p # NULL
                              THEN {{x} : x \in Addr \ (live \cup {p})} ELSE {} :
           /\ a = UNINIT => p = NULL
           /\ arena' = [arena EXCEPT ![sc] = ArenaPush(a, p)]
           /\ live' = (live \cup {p} \cup buf) \ {NULL}
           /\ Goto(pc + 1) /\ UNCHANGED <<trips, arr>>
  BY DEF NewContainer
<1> HIDE DEF a, sc
<1>9. CASE \E p \in (Addr \ live) \cup MayFail :
           \E buf \in {{}} \cup IF prog[pc].op = "vector" /\ p # NULL
                                THEN {{x} : x \in Addr \ (live \cup {p})} ELSE {} :
             /\ a = UNINIT => p = NULL
             /\ arena' = [arena EXCEPT ![sc] = ArenaPush(a, p)]
             /\ live' = (live \cup {p} \cup buf) \ {NULL}
             /\ Goto(pc + 1) /\ UNCHANGED <<trips, arr>>
  <2>1. PICK p \in (Addr \ live) \cup MayFail :
           \E buf \in {{}} \cup IF prog[pc].op = "vector" /\ p # NULL
                                THEN {{x} : x \in Addr \ (live \cup {p})} ELSE {} :
             /\ a = UNINIT => p = NULL
             /\ arena' = [arena EXCEPT ![sc] = ArenaPush(a, p)]
             /\ live' = (live \cup {p} \cup buf) \ {NULL}
             /\ Goto(pc + 1) /\ UNCHANGED <<trips, arr>>
    BY <1>9
  <2>2. PICK buf \in {{}} \cup IF prog[pc].op = "vector" /\ p # NULL
                                THEN {{x} : x \in Addr \ (live \cup {p})} ELSE {} :
             /\ a = UNINIT => p = NULL
             /\ arena' = [arena EXCEPT ![sc] = ArenaPush(a, p)]
             /\ live' = (live \cup {p} \cup buf) \ {NULL}
             /\ Goto(pc + 1) /\ UNCHANGED <<trips, arr>>
    BY <2>1
  <2>3. buf = {} \/ (prog[pc].op = "vector" /\ p # NULL
                     /\ \E x \in Addr \ (live \cup {p}) : buf = {x})
    <3>1. CASE prog[pc].op = "vector" /\ p # NULL
      BY <3>1
    <3>2. CASE ~(prog[pc].op = "vector" /\ p # NULL)
      BY <3>2
    <3> QED
      BY <3>1, <3>2
  <2> QED
    BY <1>7, <2>2, <2>3
<1> QED
  BY <1>6, <1>8, <1>9

\* The array that the append at pc names, in a program that keeps its arrays.
LEMMA AppendFacts ==
  ASSUME Shapes, At("append"), NEW x, x = VarAt(prog, pc)
  PROVE  /\ x \in DOMAIN arr /\ InScope(x) /\ arr[x] \in Slots
         /\ KeepsArrays(prog) =>
              /\ TargetScope(prog, pc) = ScopeOf(prog, x)
              /\ ScopeOf(prog, x) \in OpenScopes(prog, pc)
              /\ HoldsArrays(prog, ScopeOf(prog, x))
<1>1. /\ prog \in Programs /\ pc \in 1 .. Len(prog) /\ prog[pc].op = "append"
      /\ pc \in DOMAIN prog
  BY AtFacts DEF At
<1>2. /\ x \in Arrays(prog) /\ x < pc /\ ScopeOf(prog, x) \in OpenScopes(prog, pc)
      /\ NamesUnambiguous(prog) => TargetScope(prog, pc) = ScopeOf(prog, x)
  BY <1>1, AppendIs
<1> QED
  BY <1>1, <1>2, DisciplineIs DEF InScope, Shapes, HoldsArrays

LEMMA AppendInPlaceAInv ==
  ASSUME AInv, AppendInPlace
  PROVE  AInv'
<1> DEFINE x == VarAt(prog, pc)
<1>1. Shapes /\ At("append") /\ state = "running"
  BY DEF AInv, AppendInPlace, At
<1>2. /\ prog \in Programs /\ pc \in 1 .. Len(prog) /\ pc \in 1 .. Len(prog) + 1
      /\ pc \notin DOMAIN arr /\ pc + 1 \in 1 .. Len(prog) + 1
      /\ OpenScopes(prog, pc + 1) = OpenScopes(prog, pc)
  BY <1>1, AtFacts
<1>3. /\ x \in DOMAIN arr /\ InScope(x) /\ arr[x] \in Slots
      /\ KeepsArrays(prog) => TargetScope(prog, pc) = ScopeOf(prog, x)
  BY <1>1, AppendFacts
<1>4. \/ arr[x].data \notin live /\ Fault("use after free")
      \/ /\ arr' = [arr EXCEPT ![x].len = @ + 1]
         /\ Goto(pc + 1) /\ UNCHANGED <<trips, arena, live>>
  BY DEF AppendInPlace
<1>room. arr[x].len < arr[x].cap
  BY DEF AppendInPlace
<1> HIDE DEF x
<1>5. /\ arr[x].len \in Nat /\ arr[x].cap \in Nat /\ arr[x].data \in Addr \cup {NULL}
      /\ arr[x].data # NULL
  <2>1. /\ arr[x].len \in Nat /\ arr[x].cap \in Nat /\ arr[x].data \in Addr \cup {NULL}
        /\ arr[x].data = NULL => arr[x].cap = 0
    BY <1>3 DEF Slots
  <2>2. arr[x].cap # 0
    BY <1>room, <2>1
  <2> QED
    BY <2>1, <2>2
<1>6. CASE arr[x].data \notin live /\ Fault("use after free")
  <2>1. ~KeepsArrays(prog)
    BY <1>1, <1>3, <1>5, <1>6 DEF AInv, Apart, BuffersAreApart
  <2> QED
    BY <1>6, <2>1, DisciplineIs, FaultStops DEF MemoryFaults
<1>7. CASE /\ arr' = [arr EXCEPT ![x].len = @ + 1]
           /\ Goto(pc + 1) /\ UNCHANGED <<trips, arena, live>>
  <2> DEFINE a == [arr[x] EXCEPT !.len = arr[x].len + 1]
  <2>1. prog' = prog /\ pc' = pc + 1 /\ state' = state
    BY <1>7 DEF Goto
  <2>2. a.data = arr[x].data /\ a \in Slots
    <3> DEFINE y == arr[x]
    <3>1. y \in [len : Nat, cap : Nat, data : Addr \cup {NULL}] /\ y.data # NULL
      BY <1>3, <1>5 DEF Slots
    <3>2. y.len + 1 \in Nat /\ y.len + 1 <= y.cap
      BY <1>room, <1>5
    <3>3. a = [y EXCEPT !.len = y.len + 1]
      OBVIOUS
    <3> HIDE DEF y, a
    <3>4. /\ a \in [len : Nat, cap : Nat, data : Addr \cup {NULL}]
          /\ a.len = y.len + 1 /\ a.cap = y.cap /\ a.data = y.data
      BY <3>1, <3>2, <3>3
    <3>5. a \in Slots
      BY <3>1, <3>2, <3>4 DEF Slots
    <3> QED
      BY <3>4, <3>5 DEF y
  <2>3. arr' = [arr EXCEPT ![x] = a]
    BY <1>7
  <2> HIDE DEF a
  <2>4. /\ DOMAIN arr' = DOMAIN arr /\ arr' \in [Arrays(prog) -> Slots]
        /\ \A t \in DOMAIN arr : arr'[t].data = arr[t].data
    BY <1>1, <1>3, <2>2, <2>3 DEF Shapes
  <2>5. Shapes'
    BY <1>1, <1>2, <1>7, <2>1, <2>4 DEF Shapes
  <2>6. Successor(prog, pc, pc')
    BY <2>1 DEF Successor
  \* A first user of an arena does not append in place: the buffer of an array
  \* is in an arena that has been initialised.
  <2>7. ASSUME BuffersAreOwned, KeepsArrays(prog), NEW sc, HasArena(prog, sc)
        PROVE  InitSite(prog, sc) # pc
    <3> SUFFICES ASSUME InitSite(prog, sc) = pc
                 PROVE  FALSE
      OBVIOUS
    <3>1. sc = ScopeOf(prog, x)
      BY <1>2, <1>3, <2>7, InitSiteIs
    <3>2. InitSite(prog, sc) < pc
      BY <1>3, <1>5, <2>7, <3>1 DEF BuffersAreOwned
    <3> QED
      BY <1>2, <3>2
  <2>8. BlocksAreOwned =>
          \A sc \in DOMAIN arena : Held(arena[sc]) # {} => sc \in OpenScopes(prog, pc')
    BY <1>2, <2>1 DEF BlocksAreOwned
  <2>9. /\ arena' = arena /\ live' = live
        /\ \A t \in DOMAIN arr : arr'[t].data = arr[t].data \/ arr'[t].data = NULL
    BY <1>7, <2>4
  <2>10. /\ ArenasAreApart => ArenasAreApart'
         /\ BuffersAreApart => BuffersAreApart'
         /\ InitDominates(prog) /\ KeepsArrays(prog) /\ BuffersAreOwned =>
              /\ UsedArenasAreReady => UsedArenasAreReady'
              /\ BuffersAreOwned'
              /\ BlocksAreOwned => BlocksAreOwned'
    BY <1>1, <1>2, <2>1, <2>4, <2>6, <2>7, <2>8, <2>9, QuietStep
  <2> QED
    BY <1>1, <2>1, <2>5, <2>10, DisciplineIs, GoesOn
<1> QED
  BY <1>4, <1>6, <1>7

LEMMA AppendGrowAInv ==
  ASSUME AInv, AppendGrow
  PROVE  AInv'
<1> DEFINE x == VarAt(prog, pc)
           sc == TargetScope(prog, pc)
           a == arr[x]
<1>1. Shapes /\ At("append") /\ state = "running"
  BY DEF AInv, AppendGrow, At
<1>2. /\ prog \in Programs /\ pc \in 1 .. Len(prog) /\ pc \in 1 .. Len(prog) + 1
      /\ pc \notin DOMAIN arr /\ pc + 1 \in 1 .. Len(prog) + 1
      /\ OpenScopes(prog, pc + 1) = OpenScopes(prog, pc)
  BY <1>1, AtFacts
<1>3. /\ x \in DOMAIN arr /\ InScope(x) /\ a \in Slots
      /\ KeepsArrays(prog) =>
           /\ sc = ScopeOf(prog, x) /\ sc \in OpenScopes(prog, pc)
           /\ HoldsArrays(prog, sc)
  BY <1>1, AppendFacts
<1>4. a.len >= a.cap
  BY DEF AppendGrow
<1>5. \/ a.data # NULL /\ a.data \notin live /\ Fault("use after free")
      \/ sc # NoScope /\ Ready(sc) = UNINIT /\ Fault("uninitialised arena")
      \/ Fault("store through NULL")
      \/ /\ a.data \in live \cup {NULL}
         /\ sc # NoScope => Ready(sc) # UNINIT
         /\ \E new \in Reallocs(a.data) :
             /\ arena' = IF sc = NoScope THEN arena
                         ELSE [arena EXCEPT ![sc] = ArenaReallocTrack(Ready(sc), a.data, new)]
             /\ live' = (live \ {a.data}) \cup {new}
             /\ arr' = [arr EXCEPT ![x] =
                  [len |-> a.len + 1,
                   cap |-> IF a.cap = 0 THEN FirstCap ELSE 2 * a.cap,
                   data |-> new]]
         /\ Goto(pc + 1)
         /\ UNCHANGED trips
  BY DEF AppendGrow
<1> HIDE DEF x, sc
<1>6. KeepsArrays(prog) => ArenasAreApart /\ BuffersAreApart
  BY <1>1 DEF AInv, Apart
<1>7. KeepsArrays(prog) =>
        /\ sc \in DOMAIN arena
        /\ UsedArenasAreReady => Ready(sc) # UNINIT
        /\ Ready(sc) # UNINIT => /\ Ready(sc) \in Seq(Addr) /\ Once(Ready(sc))
                                 /\ Tracked(Ready(sc)) \subseteq live
  BY <1>1, <1>2, <1>3, <1>6, ReadyIs DEF sc
<1>8. CASE a.data # NULL /\ a.data \notin live /\ Fault("use after free")
  <2>1. ~KeepsArrays(prog)
    BY <1>3, <1>6, <1>8 DEF BuffersAreApart
  <2> QED
    BY <1>8, <2>1, DisciplineIs, FaultStops DEF MemoryFaults
<1>9. CASE sc # NoScope /\ Ready(sc) = UNINIT /\ Fault("uninitialised arena")
  <2>1. ~Disciplined(prog)
    BY <1>1, <1>7, <1>9, DisciplineIs DEF AInv, Owned
  <2> QED
    BY <1>9, <2>1, FaultStops DEF MemoryFaults
<1>10. CASE Fault("store through NULL")
  BY <1>10, FaultStops DEF MemoryFaults
<1>11. ASSUME NEW new \in Reallocs(a.data),
              a.data \in live \cup {NULL},
              sc # NoScope => Ready(sc) # UNINIT,
              arena' = IF sc = NoScope THEN arena
                       ELSE [arena EXCEPT ![sc] = ArenaReallocTrack(Ready(sc), a.data, new)],
              live' = (live \ {a.data}) \cup {new},
              arr' = [arr EXCEPT ![x] =
                   [len |-> a.len + 1,
                    cap |-> IF a.cap = 0 THEN FirstCap ELSE 2 * a.cap,
                    data |-> new]],
              Goto(pc + 1), UNCHANGED trips
       PROVE  AInv'
  <2> DEFINE slots == [len |-> a.len + 1,
                       cap |-> IF a.cap = 0 THEN FirstCap ELSE 2 * a.cap,
                       data |-> new]
             old == a.data
             b == ArenaReallocTrack(Ready(sc), old, new)
  <2>1. prog' = prog /\ pc' = pc + 1 /\ state' = state
    BY <1>11 DEF Goto
  <2>2. /\ NULL \notin Addr /\ live \subseteq Addr /\ new \in Addr
        /\ new = old \/ new \notin live
        /\ old \in Addr \cup {NULL}
    BY <1>1, <1>3, <1>11, AddrAssumption DEF Reallocs, Shapes, Slots
  <2>3. slots \in Slots /\ slots.data = new
    <3>1. a.len \in Nat /\ a.cap \in Nat /\ a.len <= a.cap
      BY <1>3 DEF Slots
    <3>2. a.len = a.cap /\ FirstCap \in Nat \ {0}
      BY <1>4, <3>1, BoundAssumption
    <3>3. /\ slots.len = a.len + 1 /\ slots.data = new
          /\ slots.cap = IF a.cap = 0 THEN FirstCap ELSE 2 * a.cap
          /\ slots = [len |-> slots.len, cap |-> slots.cap, data |-> slots.data]
      OBVIOUS
    <3> HIDE DEF slots, a
    <3>4. slots.len \in Nat /\ slots.cap \in Nat /\ slots.len <= slots.cap
      BY <3>1, <3>2, <3>3
    <3>5. slots \in [len : Nat, cap : Nat, data : Addr \cup {NULL}] /\ slots.data # NULL
      BY <2>2, <3>3, <3>4
    <3> QED
      BY <3>3, <3>4, <3>5 DEF Slots
  <2>4. arr' = [arr EXCEPT ![x] = slots]
    BY <1>11
  <2>5. /\ arena' = IF sc = NoScope THEN arena ELSE [arena EXCEPT ![sc] = b]
        /\ live' = (live \ {old}) \cup {new}
    BY <1>11
  <2>6. sc # NoScope /\ sc \in DOMAIN arena => b \in Seq(Addr)
    <3>1. ASSUME sc # NoScope, sc \in DOMAIN arena
          PROVE  Ready(sc) \in Seq(Addr)
      BY <1>1, <1>11, <3>1, EmptyIs DEF Ready, Shapes
    <3> QED
      BY <2>2, <3>1, TrackType
  <2>7. KeepsArrays(prog) =>
          b \in Seq(Addr) /\ Once(b) /\ Tracked(b) = (Tracked(Ready(sc)) \ {old}) \cup {new}
    <3> SUFFICES ASSUME KeepsArrays(prog)
                 PROVE  b \in Seq(Addr) /\ Once(b)
                        /\ Tracked(b) = (Tracked(Ready(sc)) \ {old}) \cup {new}
      OBVIOUS
    <3>1. sc # NoScope
      BY <1>2, <1>3, ScopeFacts
    <3>2. /\ Ready(sc) \in Seq(Addr) /\ Once(Ready(sc))
          /\ new = old \/ new \notin Tracked(Ready(sc))
      BY <1>7, <1>11, <2>2, <3>1
    <3> QED
      BY <2>2, <3>2, TrackIs
  <2> HIDE DEF slots, old, b
  <2>8. /\ DOMAIN arr' = DOMAIN arr /\ arr' \in [Arrays(prog) -> Slots]
        /\ arr'[x].data = new /\ \A t \in DOMAIN arr : t # x => arr'[t] = arr[t]
    BY <1>1, <1>3, <2>3, <2>4 DEF Shapes
  <2>9. Shapes'
    <3>1. arena' \in [Openers(prog) \cup {0} -> Seq(Addr) \cup {UNINIT}]
      <4>1. arena \in [Openers(prog) \cup {0} -> Seq(Addr) \cup {UNINIT}]
        BY <1>1 DEF Shapes
      <4>2. CASE sc = NoScope
        BY <2>5, <4>1, <4>2
      <4>3. CASE sc # NoScope /\ sc \in DOMAIN arena
        BY <2>5, <2>6, <4>1, <4>3
      <4>4. CASE sc # NoScope /\ sc \notin DOMAIN arena
        BY <2>5, <4>1, <4>4
      <4> QED
        BY <4>2, <4>3, <4>4
    <3>2. live' \subseteq Addr
      BY <2>2, <2>5
    <3> QED
      BY <1>1, <1>2, <1>11, <2>1, <2>8, <3>1, <3>2 DEF Shapes
  <2>10. ASSUME KeepsArrays(prog), ArenasAreApart, BuffersAreApart
         PROVE  /\ ArenasAreApart' /\ BuffersAreApart'
                /\ InitDominates(prog) =>
                     /\ UsedArenasAreReady => UsedArenasAreReady'
                     /\ BuffersAreOwned => BuffersAreOwned'
                     /\ BlocksAreOwned => BlocksAreOwned'
    <3>1. /\ sc = ScopeOf(prog, x) /\ sc \in OpenScopes(prog, pc) /\ sc \in DOMAIN arena
          /\ HoldsArrays(prog, sc) /\ sc # NoScope
      BY <1>2, <1>3, <1>7, <2>10, ScopeFacts
    <3>2. Ready(sc) \in Seq(Addr)
      BY <1>7, <1>11, <2>10, <3>1
    <3>3. b \in Seq(Addr) /\ Once(b) /\ Tracked(b) = (Tracked(Ready(sc)) \ {old}) \cup {new}
      BY <2>7, <2>10
    <3>4. arena' = [arena EXCEPT ![sc] = b]
      BY <2>5, <3>1
    <3>5. live' = (live \ {old}) \cup {new} \cup {}
      BY <2>5
    <3>6. ({new} \cup {}) \cap (live \ {old}) = {}
      BY <2>2
    <3>7. \A o \in DOMAIN arena \ {sc} : old \notin Held(arena[o])
      <4>1. CASE old = NULL
        BY <2>2, <2>10, <4>1 DEF ArenasAreApart
      <4>2. CASE old # NULL
        BY <1>3, <2>10, <3>1, <4>2 DEF BuffersAreApart, old
      <4> QED
        BY <4>1, <4>2
    <3>8. \A t \in DOMAIN arr : InScope(t)' => InScope(t)
      <4>1. DOMAIN arr \subseteq 1 .. Len(prog) /\ Successor(prog, pc, pc')
        BY <1>1, <1>2, <2>1, ProgramFacts DEF Shapes, Arrays, Successor
      <4> QED
        BY <1>2, <2>1, <4>1, Control
    <3>9. ASSUME NEW t \in DOMAIN arr, InScope(t)', arr'[t].data # NULL, t # x
          PROVE  InScope(t) /\ arr'[t].data = arr[t].data /\ arr[t].data # old
      <4>1. InScope(t) /\ arr'[t].data = arr[t].data
        BY <2>8, <3>8, <3>9
      <4>2. arr[t].data # old
        BY <1>3, <2>10, <3>9, <4>1 DEF BuffersAreApart, old
      <4> QED
        BY <4>1, <4>2
    <3>10. \A t \in DOMAIN arr :
             InScope(t)' /\ arr'[t].data # NULL =>
               \/ InScope(t) /\ arr'[t].data = arr[t].data /\ arr[t].data # old
               \/ arr'[t].data \in {new} /\ ScopeOf(prog, t) = sc /\ HoldsArrays(prog, sc)
      BY <2>8, <3>1, <3>9
    <3>11. ASSUME NEW t \in DOMAIN arr, InScope(t)', arr'[t].data \in {new}
           PROVE  t = x
      <4> SUFFICES ASSUME t # x
                   PROVE  FALSE
        OBVIOUS
      <4>1. InScope(t) /\ arr[t].data = new /\ new # old /\ new # NULL
        BY <2>2, <3>9, <3>11
      <4>2. arr[t].data \in live
        BY <2>10, <4>1 DEF BuffersAreApart
      <4> QED
        BY <2>2, <4>1, <4>2
    <3>12. \A t, u \in DOMAIN arr :
             InScope(t)' /\ InScope(u)' /\ arr'[t].data \in {new} /\ arr'[u].data \in {new} => t = u
      BY <3>11
    <3>13. OpenScopes(prog, pc') = OpenScopes(prog, pc) /\ TargetScope(prog, pc) = sc
      BY <1>2, <2>1 DEF sc
    <3> QED
      BY <1>1, <1>2, <2>1, <2>8, <2>10, <3>1, <3>2, <3>3, <3>4, <3>5, <3>6, <3>7, <3>10,
         <3>12, <3>13, StoreStep
  <2> QED
    BY <1>1, <2>1, <2>9, <2>10, DisciplineIs, GoesOn
<1> QED
  BY <1>5, <1>8, <1>9, <1>10, <1>11

LEMMA TunnelAInv ==
  ASSUME AInv, Tunnel
  PROVE  AInv'
<1>1. /\ state' = "returned" /\ prog' = prog /\ UNCHANGED <<pc, trips, arena, arr, live>>
  BY DEF Tunnel
<1>2. Shapes'
  BY <1>1 DEF AInv, Shapes
<1> QED
  BY <1>1, <1>2, Stops DEF MemoryFaults

LEMMA FunctionEndAInv ==
  ASSUME AInv, FunctionEnd
  PROVE  AInv'
<1>1. Shapes /\ state = "running" /\ pc = Len(prog) + 1
  BY DEF AInv, FunctionEnd
<1>2. /\ prog \in Programs /\ Len(prog) \in Nat /\ pc \in 1 .. Len(prog) + 1
      /\ 0 \in DOMAIN arena
  BY <1>1, ProgramFacts DEF Shapes
<1>3. \/ HasArena(prog, 0) /\ FreeFault(arena[0]) # "none" /\ Fault(FreeFault(arena[0]))
      \/ /\ HasArena(prog, 0) /\ Release(0, arena[0])
         /\ state' = "returned" /\ UNCHANGED <<prog, pc, trips, arr>>
      \/ state' = "returned" /\ UNCHANGED <<prog, pc, trips, arena, arr, live>>
  BY DEF FunctionEnd
<1>4. CASE HasArena(prog, 0) /\ FreeFault(arena[0]) # "none" /\ Fault(FreeFault(arena[0]))
  <2>1. FreeFault(arena[0]) \in MemoryFaults
    BY <1>4, FreeFaultIs DEF MemoryFaults
  <2>2. ASSUME KeepsArrays(prog)
        PROVE  FreeFault(arena[0]) = "uninitialised arena"
    <3>1. ArenasAreApart
      BY <1>1, <2>2 DEF AInv, Apart
    <3> QED
      BY <1>2, <1>4, <3>1, ApartIsSafe, FreeFaultIs
  <2>3. ASSUME Disciplined(prog)
        PROVE  FALSE
    <3>1. UsedArenasAreReady
      BY <1>1, <2>3 DEF AInv, Owned
    <3>2. InitSite(prog, 0) < pc
      <4>1. InitSite(prog, 0) \in 1 .. Len(prog)
        BY <1>2, <1>4, InitSiteIs
      <4> QED
        BY <1>1, <1>2, <4>1
    <3>3. 0 \in OpenScopes(prog, pc)
      BY <1>2, ScopeFacts
    <3>4. arena[0] # UNINIT
      BY <1>4, <3>1, <3>2, <3>3 DEF UsedArenasAreReady
    <3> QED
      BY <2>2, <2>3, <3>4, FreeFaultIs, DisciplineIs
  <2> QED
    BY <1>4, <2>1, <2>2, <2>3, FaultStops
<1>5. CASE /\ HasArena(prog, 0) /\ Release(0, arena[0])
           /\ state' = "returned" /\ UNCHANGED <<prog, pc, trips, arr>>
  <2>1. Shapes'
    BY <1>1, <1>2, <1>5, ReleaseShapes
  <2> QED
    BY <1>5, <2>1, Stops DEF MemoryFaults
<1>6. CASE state' = "returned" /\ UNCHANGED <<prog, pc, trips, arena, arr, live>>
  <2>1. Shapes'
    BY <1>1, <1>6 DEF Shapes
  <2> QED
    BY <1>6, <2>1, Stops DEF MemoryFaults
<1> QED
  BY <1>3, <1>4, <1>5, <1>6

-----------------------------------------------------------------------------
LEMMA InitAInv == Init => AInv
<1> SUFFICES ASSUME Init PROVE AInv
  OBVIOUS
<1>1. /\ prog \in Programs /\ pc = 1 /\ trips = 0 /\ live = {} /\ state = "running"
      /\ arena = [sc \in Openers(prog) \cup {0} |-> UNINIT]
      /\ arr = [t \in Arrays(prog) |-> NewArray]
  BY DEF Init, Arrays
<1>2. 1 \in 1 .. Len(prog) + 1 /\ 0 \in 0 .. MaxTrips
  BY <1>1, ProgramFacts, BoundAssumption
<1>3. NewArray \in Slots /\ NewArray.data = NULL
  BY DEF NewArray, Slots
<1>4. Shapes
  BY <1>1, <1>2, <1>3 DEF Shapes
<1>5. \A sc \in DOMAIN arena : Held(arena[sc]) = {} /\ arena[sc] = UNINIT
  BY <1>1, HeldIs
<1>6. \A t \in DOMAIN arr : arr[t].data = NULL
  BY <1>1, <1>3
<1>7. ArenasAreApart /\ BuffersAreApart /\ BuffersAreOwned
  BY <1>5, <1>6 DEF ArenasAreApart, BuffersAreApart, BuffersAreOwned
<1>8. UsedArenasAreReady
  <2> SUFFICES ASSUME NEW sc, HasArena(prog, sc), InitSite(prog, sc) < 1
               PROVE  FALSE
    BY <1>1 DEF UsedArenasAreReady
  <2>1. InitSite(prog, sc) \in 1 .. Len(prog)
    BY <1>1, InitSiteIs
  <2> QED
    BY <2>1
<1>9. BlocksAreOwned
  <2>1. UNION {Held(arena[sc]) : sc \in DOMAIN arena} = {}
    BY <1>5
  <2> QED
    BY <1>1, <1>5, <2>1 DEF BlocksAreOwned
<1>10. OnlyResetDangles /\ DisciplinedIsSafe
  BY <1>1 DEF OnlyResetDangles, DisciplinedIsSafe, MemoryFaults
<1> QED
  BY <1>4, <1>7, <1>8, <1>9, <1>10 DEF AInv, Apart, Owned, Complete

LEMMA StoppedAInv == AInv /\ UNCHANGED vars => AInv'
<1> SUFFICES ASSUME AInv, UNCHANGED vars PROVE AInv'
  OBVIOUS
<1>1. /\ prog' = prog /\ pc' = pc /\ trips' = trips /\ arena' = arena /\ arr' = arr
      /\ live' = live /\ state' = state
  BY DEF vars
<1>2. Shapes'
  BY <1>1 DEF AInv, Shapes
<1>3. ArenasAreApart' = ArenasAreApart
  BY <1>1 DEF ArenasAreApart
<1>4. BuffersAreApart' = BuffersAreApart
  BY <1>1 DEF BuffersAreApart, InScope
<1>5. UsedArenasAreReady' = UsedArenasAreReady
  BY <1>1 DEF UsedArenasAreReady
<1>6. BuffersAreOwned' = BuffersAreOwned
  BY <1>1 DEF BuffersAreOwned, InScope
<1>7. BlocksAreOwned' = BlocksAreOwned
  BY <1>1 DEF BlocksAreOwned
<1>8. Apart' /\ Owned' /\ Complete'
  BY <1>1, <1>3, <1>4, <1>5, <1>6, <1>7 DEF AInv, Apart, Owned, Complete
<1>9. OnlyResetDangles' /\ DisciplinedIsSafe'
  BY <1>1 DEF AInv, OnlyResetDangles, DisciplinedIsSafe
<1> QED
  BY <1>2, <1>8, <1>9 DEF AInv

LEMMA NextAInv == AInv /\ [Next]_vars => AInv'
<1> SUFFICES ASSUME AInv, [Next]_vars PROVE AInv'
  OBVIOUS
<1>1. CASE DeclareArray
  BY <1>1, DeclareArrayAInv
<1>2. CASE NewContainer
  BY <1>2, NewContainerAInv
<1>3. CASE AppendInPlace
  BY <1>3, AppendInPlaceAInv
<1>4. CASE AppendGrow
  BY <1>4, AppendGrowAInv
<1>5. CASE ResetStmt
  BY <1>5, ResetStmtAInv
<1>6. CASE EnterBlock
  BY <1>6, EnterBlockAInv
<1>7. CASE SkipBlock
  BY <1>7, SkipBlockAInv
<1>8. CASE EndBlock
  BY <1>8, EndBlockAInv
<1>9. CASE Jump
  BY <1>9, JumpAInv
<1>10. CASE Tunnel
  BY <1>10, TunnelAInv
<1>11. CASE FunctionEnd
  BY <1>11, FunctionEndAInv
<1>12. CASE Stopped \/ UNCHANGED vars
  BY <1>12, StoppedAInv DEF Stopped
<1> QED
  BY <1>1, <1>2, <1>3, <1>4, <1>5, <1>6, <1>7, <1>8, <1>9, <1>10, <1>11, <1>12 DEF Next

LEMMA AInvHolds == Spec => []AInv
<1>1. Init => AInv
  BY InitAInv
<1>2. AInv /\ [Next]_vars => AInv'
  BY NextAInv
<1> QED
  BY <1>1, <1>2, PTL DEF Spec

-----------------------------------------------------------------------------
\* The arena structs, the slots of the arrays and the heap have their shapes:
\* an arena lists addresses, an array has no more elements than room, and
\* what is live was handed out (frt.c:517-562, codegen.hh:1587-1666).
THEOREM ArenaTypes == Spec => []TypeOK
<1>1. AInv => TypeOK
  <2> SUFFICES ASSUME Shapes PROVE TypeOK
    BY DEF AInv
  <2>1. ASSUME NEW t \in DOMAIN arr
        PROVE  arr[t].len \in 0 .. arr[t].cap /\ arr[t].data \in Addr \cup {NULL}
    <3>1. arr[t] \in Slots
      BY DEF Shapes
    <3>2. /\ arr[t].len \in Nat /\ arr[t].cap \in Nat /\ arr[t].len <= arr[t].cap
          /\ arr[t].data \in Addr \cup {NULL}
      BY <3>1 DEF Slots
    <3> QED
      BY <3>2
  <2>2. \A sc \in DOMAIN arena : arena[sc] = UNINIT \/ arena[sc] \in Seq(Addr)
    BY DEF Shapes
  <2> QED
    BY <2>1, <2>2 DEF Shapes, TypeOK
<1> QED
  BY <1>1, AInvHolds, PTL

\* A program whose arenas are initialised by their own scopes, whose names are
\* unambiguous and whose resets meet no array never frees a block twice, uses
\* a freed one or reads an arena before its arena_init (codegen.hh:113-240,
\* frt.c:517-584): for every such program, heap and number of iterations.
THEOREM DisciplineIsSafety == Spec => []DisciplinedIsSafe
<1>1. AInv => DisciplinedIsSafe
  BY DEF AInv
<1> QED
  BY <1>1, AInvHolds, PTL

\* Without the first discipline the only fault left is the read of an arena
\* whose arena_init was jumped over: the entries that arena_realloc_track
\* leaves are never stale and never double (frt.c:547-562).
THEOREM OnlyResetsDangle == Spec => []OnlyResetDangles
<1>1. AInv => OnlyResetDangles
  BY DEF AInv
<1> QED
  BY <1>1, AInvHolds, PTL

\* Between two statements of a disciplined program a live block is in one
\* arena of the open scopes at most, once, and none of them lists a freed
\* block (frt.c:526-584).
THEOREM BlocksHaveOneOwner == Spec => []OwnedOnce
<1>1. AInv => OwnedOnce
  <2> SUFFICES ASSUME AInv, state = "running", Disciplined(prog)
               PROVE  LET open == {sc \in OpenScopes(prog, pc) : arena[sc] # UNINIT} IN
                      /\ \A sc \in open : SafeToFree(arena[sc], live)
                      /\ \A sc1, sc2 \in open :
                           sc1 # sc2 => Tracked(arena[sc1]) \cap Tracked(arena[sc2]) = {}
    BY DEF OwnedOnce
  <2>1. ArenasAreApart /\ Shapes
    BY DisciplineIs DEF AInv, Apart
  <2>2. OpenScopes(prog, pc) \subseteq DOMAIN arena
    BY <2>1, ScopeFacts DEF Shapes
  <2>3. \A sc \in DOMAIN arena : arena[sc] # UNINIT =>
          SafeToFree(arena[sc], live) /\ Held(arena[sc]) = Tracked(arena[sc])
    BY <2>1, ApartIsSafe DEF Held
  <2>4. \A sc1, sc2 \in DOMAIN arena : sc1 # sc2 => Held(arena[sc1]) \cap Held(arena[sc2]) = {}
    BY <2>1 DEF ArenasAreApart
  <2> QED
    BY <2>2, <2>3, <2>4
<1> QED
  BY <1>1, AInvHolds, PTL

\* However deep the append that grew it was and however many iterations ago,
\* the buffer of an array in scope is live and in the arena of the scope that
\* declares the array (the comments at codegen.hh:135-142 and 1627-1631).
THEOREM GrowthStaysHome == Spec => []GrowthStaysWithTheArray
<1>1. AInv => GrowthStaysWithTheArray
  <2> SUFFICES ASSUME AInv, state = "running", Disciplined(prog), NEW t \in DOMAIN arr,
                      t < pc, ScopeOf(prog, t) \in OpenScopes(prog, pc), arr[t].data # NULL
               PROVE  /\ arr[t].data \in live
                      /\ arena[ScopeOf(prog, t)] # UNINIT
                      /\ arr[t].data \in Tracked(arena[ScopeOf(prog, t)])
    BY DEF GrowthStaysWithTheArray, TrackedAtHome
  <2>1. BuffersAreApart /\ BuffersAreOwned
    BY DisciplineIs DEF AInv, Apart, Owned
  <2>2. arr[t].data \in live /\ arr[t].data \in Held(arena[ScopeOf(prog, t)])
    BY <2>1 DEF BuffersAreApart, BuffersAreOwned, InScope
  <2> QED
    BY <2>2 DEF Held
<1> QED
  BY <1>1, AInvHolds, PTL

\* A structured program of the disciplines holds at every statement exactly
\* the blocks that the scopes around the statement track (codegen.hh:355-366,
\* frt.c:566-574): what a scope allocated is freed at its closing brace.
THEOREM StructuredProgramsDoNotLeak == Spec => []NothingLeaks
<1>1. AInv => NothingLeaks
  <2> SUFFICES ASSUME AInv, state = "running", Structured(prog), Disciplined(prog)
               PROVE  live = UNION {Tracked(arena[sc]) :
                                     sc \in {o \in OpenScopes(prog, pc) : arena[o] # UNINIT}}
    BY DEF NothingLeaks
  <2>1. BlocksAreOwned /\ Shapes
    BY DEF AInv, Complete
  <2>2. OpenScopes(prog, pc) \subseteq DOMAIN arena
    BY <2>1, ScopeFacts DEF Shapes
  <2>3. \A sc : /\ arena[sc] = UNINIT => Held(arena[sc]) = {}
                /\ arena[sc] # UNINIT => Held(arena[sc]) = Tracked(arena[sc])
    BY DEF Held
  <2>4. \A b : b \in live <=> \E sc \in DOMAIN arena : b \in Held(arena[sc])
    BY <2>1 DEF BlocksAreOwned
  <2>5. \A sc \in DOMAIN arena : Held(arena[sc]) # {} => sc \in OpenScopes(prog, pc)
    BY <2>1 DEF BlocksAreOwned
  <2>6. \A b : b \in live <=>
          \E sc \in {o \in OpenScopes(prog, pc) : arena[o] # UNINIT} : b \in Tracked(arena[sc])
    BY <2>2, <2>3, <2>4, <2>5
  <2> QED
    BY <2>6
<1> QED
  BY <1>1, AInvHolds, PTL
=============================================================================
