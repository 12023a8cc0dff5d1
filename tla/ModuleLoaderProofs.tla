------------------------- MODULE ModuleLoaderProofs -------------------------
(***************************************************************************)
(* The loader, for every directory: what is reported as a cycle is one,    *)
(* every file is parsed once, and the main file gets the declarations of   *)
(* all it reaches and of nothing else.                                     *)
(***************************************************************************)
EXTENDS ModuleLoader, SequenceTheorems, FiniteSetTheorems, TLAPS

-----------------------------------------------------------------------------
(***************************************************************************)
(* Sequences and the stack of calls.                                       *)
(***************************************************************************)

Call == [path : Paths, todo : Seq(Imports), nodes : Seq(Paths)]

LEMMA RangeHeadTail ==
  ASSUME NEW S, NEW s \in Seq(S), s # << >>
  PROVE  Range(s) = {Head(s)} \cup Range(Tail(s))
<1>1. /\ Tail(s) \in Seq(S) /\ Len(Tail(s)) = Len(s) - 1
      /\ \A i \in 1 .. Len(Tail(s)) : Tail(s)[i] = s[i+1]
  BY HeadTailProperties
<1>2. Len(s) \in Nat \ {0} /\ Head(s) = s[1]
  BY EmptySeq
<1>3. Range(s) = {s[i] : i \in 1 .. Len(s)}
  BY RangeEquality
<1>4. Range(Tail(s)) = {Tail(s)[i] : i \in 1 .. Len(s) - 1}
  BY <1>1, RangeEquality
<1>5. ASSUME NEW i \in 1 .. Len(s), i # 1
      PROVE  i - 1 \in 1 .. Len(s) - 1 /\ (i - 1) + 1 = i
  BY <1>2, <1>5
<1>6. Range(s) \subseteq {Head(s)} \cup Range(Tail(s))
  BY <1>1, <1>2, <1>3, <1>4, <1>5
<1>7. {Head(s)} \cup Range(Tail(s)) \subseteq Range(s)
  BY <1>1, <1>2, <1>3, <1>4
<1> QED
  BY <1>6, <1>7

LEMMA RangeAppend ==
  ASSUME NEW S, NEW s \in Seq(S), NEW e \in S
  PROVE  Range(Append(s, e)) = Range(s) \cup {e}
<1>1. /\ Append(s, e) = s \o <<e>> /\ <<e>> \in Seq(S)
  BY AppendIsConcat
<1>2. Range(<<e>>) = {<<e>>[i] : i \in 1 .. Len(<<e>>)}
  BY <1>1, RangeEquality
<1>3. Range(<<e>>) = {e}
  BY <1>2
<1>4. Range(s \o <<e>>) = Range(s) \cup Range(<<e>>)
  BY <1>1, RangeConcatenation
<1> QED
  BY <1>1, <1>3, <1>4

\* ds is cs with the first import of its last call answered by the nodes ns.
Answered(ds, cs, ns) ==
  LET n == Len(cs) IN
  /\ ds \in Seq(Call) /\ Len(ds) = n /\ n \in Nat \ {0}
  /\ \A i \in 1 .. n : ds[i].path = cs[i].path
  /\ \A i \in 1 .. n-1 : ds[i] = cs[i]
  /\ Range(cs[n].todo) = {Head(cs[n].todo)} \cup Range(ds[n].todo)
  /\ Range(ds[n].nodes) = Range(cs[n].nodes) \cup Range(ns)

LEMMA ReturnAnswers ==
  ASSUME NEW cs \in Seq(Call), cs # << >>, cs[Len(cs)].todo # << >>,
         NEW ns \in Seq(Paths)
  PROVE  Answered(Return(cs, ns), cs, ns)
<1> DEFINE n == Len(cs)
           c == cs[n]
           d == [c EXCEPT !.todo = Tail(c.todo), !.nodes = c.nodes \o ns]
           ds == Return(cs, ns)
<1>1. n \in Nat \ {0} /\ n \in 1 .. n /\ c \in Call
  BY EmptySeq, ElementOfSeq
<1>2. /\ Tail(c.todo) \in Seq(Imports) /\ c.nodes \o ns \in Seq(Paths)
      /\ Range(c.todo) = {Head(c.todo)} \cup Range(Tail(c.todo))
      /\ Range(c.nodes \o ns) = Range(c.nodes) \cup Range(ns)
  BY <1>1, HeadTailProperties, ConcatProperties, RangeHeadTail, RangeConcatenation DEF Call
<1>3. /\ d \in Call /\ d.path = c.path /\ d.todo = Tail(c.todo)
      /\ d.nodes = c.nodes \o ns
  BY <1>1, <1>2 DEF Call
<1>4. ds = [cs EXCEPT ![n] = d]
  BY DEF Return, Resumed
<1> HIDE DEF d, c, n, ds
<1>5. /\ ds \in Seq(Call) /\ Len(ds) = Len(cs)
      /\ \A j \in 1 .. Len(cs) : ds[j] = IF j = n THEN d ELSE cs[j]
  BY <1>1, <1>3, <1>4, ExceptSeq DEF n
<1>6. /\ ds[n] = d /\ cs[n] = c
      /\ \A i \in 1 .. n : ds[i].path = cs[i].path
      /\ \A i \in 1 .. n-1 : ds[i] = cs[i]
  BY <1>1, <1>3, <1>5 DEF n, c
<1>7. Answered(ds, cs, ns)
  BY <1>1, <1>2, <1>3, <1>5, <1>6 DEF Answered, n
<1> QED
  BY <1>7 DEF ds

-----------------------------------------------------------------------------
(***************************************************************************)
(* Files and what they reach.                                              *)
(***************************************************************************)

LEMMA ReachesImports ==
  ASSUME NEW f
  PROVE  /\ ImportedBy(f) \subseteq ReachableFrom(f)
         /\ ClosedUnderImports(ReachableFrom(f))
         /\ ReachableFrom(f) \subseteq Fine
<1>1. \A g : ImportedBy(g) \subseteq Fine
  BY DEF ImportedBy
<1>2. ASSUME NEW g \in ReachableFrom(f), NEW h \in ImportedBy(g)
      PROVE  h \in ReachableFrom(f)
  BY <1>1, <1>2 DEF ReachableFrom, ClosedUnderImports
<1> QED
  BY <1>1, <1>2 DEF ReachableFrom, ClosedUnderImports

LEMMA ReachesLeast ==
  ASSUME NEW f, NEW S \in SUBSET Fine, ImportedBy(f) \subseteq S, ClosedUnderImports(S)
  PROVE  ReachableFrom(f) \subseteq S
  BY DEF ReachableFrom

\* What a file reaches is what its imports are and reach.
LEMMA ReachesByImports ==
  ASSUME NEW f
  PROVE  /\ \A g \in ImportedBy(f) : ReachableFrom(g) \subseteq ReachableFrom(f)
         /\ \A h \in ReachableFrom(f) :
              \E g \in ImportedBy(f) : h = g \/ h \in ReachableFrom(g)
<1>1. ASSUME NEW g \in ImportedBy(f)
      PROVE  ReachableFrom(g) \subseteq ReachableFrom(f)
  <2>1. g \in ReachableFrom(f)
    BY ReachesImports
  <2>2. ImportedBy(g) \subseteq ReachableFrom(f)
    BY <2>1, ReachesImports DEF ClosedUnderImports
  <2> QED
    BY <2>2, ReachesImports, ReachesLeast
<1>2. ReachableFrom(f) \subseteq {h \in Fine : \E g \in ImportedBy(f) : h = g \/ h \in ReachableFrom(g)}
  <2> DEFINE S == {h \in Fine : \E g \in ImportedBy(f) : h = g \/ h \in ReachableFrom(g)}
  <2>1. ImportedBy(f) \subseteq S
    BY DEF ImportedBy
  <2>2. ASSUME NEW h \in S, NEW x \in ImportedBy(h)
        PROVE  x \in S
    <3>1. PICK g \in ImportedBy(f) : h = g \/ h \in ReachableFrom(g)
      OBVIOUS
    <3>2. x \in ReachableFrom(g) /\ x \in Fine
      BY <3>1, ReachesImports DEF ClosedUnderImports
    <3> QED
      BY <3>2
  <2> QED
    BY <2>1, <2>2, ReachesLeast DEF ClosedUnderImports
<1> QED
  BY <1>1, <1>2

\* Reaching is transitive.
LEMMA ReachesOn ==
  ASSUME NEW f, NEW g \in ReachableFrom(f), NEW h \in ImportedBy(g)
  PROVE  h \in ReachableFrom(f)
  BY ReachesImports DEF ClosedUnderImports

LEMMA ReachesAll ==
  ASSUME NEW f, NEW g \in ReachableFrom(f)
  PROVE  ReachableFrom(g) \subseteq ReachableFrom(f)
<1>1. ImportedBy(g) \subseteq ReachableFrom(f)
  BY ReachesOn
<1> QED
  BY <1>1, ReachesImports, ReachesLeast

\* No step changes the files.
LEMMA FilesStay ==
  ASSUME UNCHANGED dir
  PROVE  /\ Fine' = Fine /\ Acyclic' = Acyclic /\ OneSpelling' = OneSpelling
         /\ \A f : ImportedBy(f)' = ImportedBy(f) /\ ReachableFrom(f)' = ReachableFrom(f)
<1>1. Fine' = Fine
  BY DEF Fine
<1>2. \A f : ImportedBy(f)' = ImportedBy(f)
  BY <1>1 DEF ImportedBy
<1>3. \A f : ReachableFrom(f)' = ReachableFrom(f)
  BY <1>1, <1>2 DEF ReachableFrom, ClosedUnderImports
<1> QED
  BY <1>1, <1>2, <1>3 DEF Acyclic, OneSpelling

-----------------------------------------------------------------------------
(***************************************************************************)
(* The stack of calls and the paths that are loading.                      *)
(***************************************************************************)

ImportsOf(f) == Range(dir[f].imports)

\* Each call but the first loads what the call under it wants next, and has
\* still to answer some of the imports of its file.
Stacked(cs) ==
  /\ cs \in Seq(Call) /\ cs # << >>
  /\ cs[1].path = [file |-> Main, detours |-> 0]
  /\ \A i \in 1 .. Len(cs) :
       Range(cs[i].todo) \subseteq ImportsOf(cs[i].path.file)
  /\ \A i \in 1 .. Len(cs) - 1 :
       /\ cs[i].todo # << >>
       /\ cs[i+1].path = Resolve(cs[i].path, Head(cs[i].todo))

Stack == dir \in Directories /\ Stacked(calls)

\* A path is loading while a call for it is on the stack, and after its
\* source was found empty.
Loading ==
  /\ DOMAIN cache \subseteq Paths
  /\ \A p \in OnStack : p \in loading /\ p.file \in Fine
  /\ \A i, j \in 2 .. Len(calls) : calls[i].path = calls[j].path => i = j
  /\ \A p \in loading : p \in OnStack \/ dir[p.file].condition = "empty"
  /\ \A p \in loading : p \notin DOMAIN cache
  /\ \A p \in DOMAIN cache : p.file \in Fine

LEMMA StackFacts ==
  ASSUME Stack
  PROVE  /\ Len(calls) \in Nat \ {0}
         /\ \A i \in 1 .. Len(calls) : /\ calls[i] \in Call
                                       /\ calls[i].path \in Paths
                                       /\ calls[i].todo \in Seq(Imports)
                                       /\ calls[i].nodes \in Seq(Paths)
         /\ Caller \in Call
         /\ \A f \in Files : dir[f] \in [condition : Conditions, imports : Seq(Imports)]
         /\ \A p \in Paths : p.file \in Files /\ p.detours \in 0 .. MaxDetours
<1>1. Len(calls) \in Nat \ {0} /\ \A i \in 1 .. Len(calls) : calls[i] \in Call
  BY EmptySeq, ElementOfSeq DEF Stack, Stacked
<1>2. \A f \in Files : dir[f] \in [condition : Conditions, imports : Seq(Imports)]
  BY DirectoriesAssumption DEF Stack
<1>3. Caller \in Call
  BY <1>1 DEF Caller
<1> QED
  BY <1>1, <1>2, <1>3 DEF Call, Paths

\* The import that the last call wants next.
LEMMA WantedFacts ==
  ASSUME Stack, Caller.todo # << >>
  PROVE  /\ Head(Caller.todo) \in ImportsOf(Caller.path.file)
         /\ Wanted = Resolve(Caller.path, Head(Caller.todo))
         /\ Wanted \in Paths /\ Wanted.file = Head(Caller.todo).file
         /\ Wanted.file \in Files
         /\ Wanted.file \in Fine => Wanted.file \in ImportedBy(Caller.path.file)
<1>1. /\ Caller \in Call /\ Caller = calls[Len(calls)]
      /\ Len(calls) \in 1 .. Len(calls)
  BY StackFacts DEF Caller
<1>2. /\ Head(Caller.todo) \in Imports /\ Head(Caller.todo) \in Range(Caller.todo)
  BY <1>1, HeadTailProperties, RangeHeadTail DEF Call
<1>3. Head(Caller.todo) \in ImportsOf(Caller.path.file)
  BY <1>1, <1>2 DEF Stack, Stacked
<1>4. /\ Caller.path.detours \in 0 .. MaxDetours /\ Caller.path.file \in Files
      /\ Head(Caller.todo).file \in Files
  BY <1>1, <1>2, StackFacts DEF Imports, Call
<1>5. Wanted \in Paths /\ Wanted.file = Head(Caller.todo).file
  <2> DEFINE d == CASE Head(Caller.todo).how = "plain" -> Caller.path.detours
                    [] Head(Caller.todo).how = "name" -> 0
                    [] Head(Caller.todo).how = "around" ->
                         IF Caller.path.detours < MaxDetours
                         THEN Caller.path.detours + 1 ELSE 1
  <2>1. Head(Caller.todo).how \in {"plain", "around", "name"}
    BY <1>2 DEF Imports, Spellings
  <2>2. d \in 0 .. MaxDetours
    BY <1>4, <2>1, DetoursAssumption
  <2>3. Wanted = [file |-> Head(Caller.todo).file, detours |-> d]
    BY DEF Wanted, Resolve
  <2> HIDE DEF d
  <2> QED
    BY <1>4, <2>2, <2>3 DEF Paths
<1>6. PICK m \in DOMAIN dir[Caller.path.file].imports :
        dir[Caller.path.file].imports[m] = Head(Caller.todo)
  BY <1>3 DEF ImportsOf, Range
<1> QED
  BY <1>3, <1>4, <1>5, <1>6 DEF Wanted, ImportedBy

\* Answering an import keeps the stack.
LEMMA AnsweredStack ==
  ASSUME NEW cs, Stacked(cs), NEW ds, NEW ns, Answered(ds, cs, ns)
  PROVE  Stacked(ds)
<1> DEFINE n == Len(cs)
<1>1. /\ n \in Nat \ {0} /\ Len(ds) = n /\ ds \in Seq(Call)
      /\ \A i \in 1 .. n : ds[i].path = cs[i].path
      /\ \A i \in 1 .. n-1 : ds[i] = cs[i]
      /\ Range(ds[n].todo) \subseteq Range(cs[n].todo)
  BY DEF Answered
<1>2. ds # << >>
  BY <1>1
<1>3. ASSUME NEW i \in 1 .. n
      PROVE  Range(ds[i].todo) \subseteq ImportsOf(ds[i].path.file)
  <2>1. Range(cs[i].todo) \subseteq ImportsOf(ds[i].path.file)
    BY <1>1 DEF Stacked
  <2>2. CASE i = n
    BY <1>1, <2>1, <2>2
  <2>3. CASE i # n
    <3>1. i \in 1 .. n-1
      BY <1>1, <2>3
    <3> QED
      BY <1>1, <2>1, <3>1
  <2> QED
    BY <2>2, <2>3
<1>4. \A i \in 1 .. n - 1 :
        /\ ds[i].todo # << >>
        /\ ds[i+1].path = Resolve(ds[i].path, Head(ds[i].todo))
  BY <1>1 DEF Stacked
<1>5. ds[1].path = [file |-> Main, detours |-> 0]
  BY <1>1 DEF Stacked
<1> HIDE DEF n
<1> QED
  BY <1>1, <1>2, <1>3, <1>4, <1>5 DEF Stacked

LEMMA StackStays ==
  ASSUME dir \in Directories, UNCHANGED dir, Stacked(calls')
  PROVE  Stack'
  BY DEF Stack, Stacked, ImportsOf

\* ds is the stack after load_canonical has parsed what was wanted.
Pushed(ds) ==
  LET n == Len(calls) IN
  /\ ds \in Seq(Call) /\ Len(ds) = n + 1 /\ n \in Nat \ {0}
  /\ \A i \in 1 .. n : ds[i] = calls[i]
  /\ ds[n+1].path = Wanted
  /\ Range(ds[n+1].todo) = ImportsOf(Wanted.file)
  /\ Range(ds[n+1].nodes) = {}

LEMMA ParsePushes ==
  ASSUME Stack, Parse
  PROVE  Pushed(calls') /\ Stacked(calls') /\ Stack' /\ OnStack' = OnStack \cup {Wanted}
<1> DEFINE n == Len(calls)
           c == [path |-> Wanted, todo |-> dir[Wanted.file].imports, nodes |-> << >>]
<1>1. Caller.todo # << >> /\ calls' = Append(calls, c) /\ UNCHANGED dir
  BY DEF Parse, Importing
<1>2. /\ Wanted \in Paths /\ Wanted.file \in Files
      /\ Wanted = Resolve(Caller.path, Head(Caller.todo))
  BY <1>1, WantedFacts
<1>3. c \in Call
  <2>1. dir[Wanted.file].imports \in Seq(Imports)
    BY <1>2, StackFacts
  <2> QED
    BY <1>2, <2>1 DEF Call
<1>4. c.path = Wanted /\ Range(c.todo) = ImportsOf(Wanted.file) /\ Range(c.nodes) = {}
  BY DEF ImportsOf, Range
<1> HIDE DEF c
<1>5. /\ calls' \in Seq(Call) /\ calls' # << >> /\ Len(calls') = n + 1 /\ n \in Nat \ {0}
      /\ \A i \in 1 .. n : calls'[i] = calls[i]
      /\ calls'[n+1] = c
  BY <1>1, <1>3, AppendProperties, StackFacts DEF Stack, Stacked
<1>6. Caller = calls[n]
  BY DEF Caller
<1> HIDE DEF n
<1>7. Pushed(calls')
  BY <1>4, <1>5 DEF Pushed, n
<1>8. calls'[1].path = [file |-> Main, detours |-> 0]
  BY <1>5 DEF Stack, Stacked
<1>9. ASSUME NEW i \in 1 .. n+1
      PROVE  Range(calls'[i].todo) \subseteq ImportsOf(calls'[i].path.file)
  <2>1. CASE i = n+1
    BY <1>4, <1>5, <2>1
  <2>2. CASE i # n+1
    <3>1. i \in 1 .. n
      BY <1>5, <2>2
    <3> QED
      BY <1>5, <3>1 DEF Stack, Stacked, n
  <2> QED
    BY <2>1, <2>2
<1>10. ASSUME NEW i \in 1 .. n
       PROVE  /\ calls'[i].todo # << >>
              /\ calls'[i+1].path = Resolve(calls'[i].path, Head(calls'[i].todo))
  <2>1. CASE i = n
    BY <1>1, <1>2, <1>4, <1>5, <1>6, <2>1
  <2>2. CASE i # n
    <3>1. i \in 1 .. n-1 /\ i+1 \in 1 .. n
      BY <1>5, <2>2
    <3> QED
      BY <1>5, <3>1 DEF Stack, Stacked, n
  <2> QED
    BY <2>1, <2>2
<1>11. (n + 1) - 1 = n
  BY <1>5
<1>12. Stacked(calls')
  BY <1>5, <1>8, <1>9, <1>10, <1>11 DEF Stacked
<1>13. OnStack' = {calls'[i].path : i \in 2 .. n+1}
  BY <1>5 DEF OnStack
<1>14. OnStack = {calls[i].path : i \in 2 .. n}
  BY DEF OnStack, n
<1>15. \A i \in 2 .. n+1 : i = n+1 \/ i \in 2 .. n
  BY <1>5
<1>16. OnStack' = OnStack \cup {Wanted}
  BY <1>4, <1>5, <1>13, <1>14, <1>15
<1> QED
  BY <1>1, <1>7, <1>12, <1>16, StackStays DEF Stack

\* The stack without the call that returns.
Popped == SubSeq(calls, 1, Len(calls) - 1)

LEMMA LoadedPops ==
  ASSUME Stack, Loaded
  PROVE  /\ Len(calls) \in Nat /\ Len(calls) >= 2
         /\ Popped \in Seq(Call) /\ Len(Popped) = Len(calls) - 1
         /\ \A i \in 1 .. Len(calls) - 1 : Popped[i] = calls[i]
         /\ Exports(Caller) \in Seq(Paths)
         /\ Range(Exports(Caller)) = Range(Caller.nodes) \cup {Caller.path}
         /\ Caller.path \in OnStack
         /\ Answered(calls', Popped, Exports(Caller))
         /\ Stack'
         /\ OnStack' = {calls[i].path : i \in 2 .. Len(calls) - 1}
<1> DEFINE n == Len(calls)
<1>1. n \in Nat /\ n >= 2 /\ Caller = calls[n]
  <2>1. n \in Nat \ {0}
    BY StackFacts
  <2>2. n # 1 /\ Caller = calls[n]
    BY DEF Loaded, InMain, Caller
  <2> HIDE DEF n
  <2>3. n \in Nat /\ n >= 2
    BY <2>1, <2>2
  <2> QED
    BY <2>2, <2>3
<1>2. calls' = Return(Popped, Exports(Caller)) /\ UNCHANGED dir
  BY DEF Loaded, Popped
<1>3. \A i \in 1 .. n-1 : calls[i] \in Call
  BY <1>1, StackFacts
<1>4. /\ Popped \in Seq(Call) /\ Len(Popped) = n - 1
      /\ \A i \in 1 .. n - 1 : Popped[i] = calls[i]
  BY <1>1, <1>3, SubSeqProperties DEF Popped
<1>5. Caller \in Call /\ Caller.path \in Paths /\ Caller.nodes \in Seq(Paths)
  BY StackFacts DEF Call
<1>6. /\ Exports(Caller) \in Seq(Paths)
      /\ Range(Exports(Caller)) = Range(Caller.nodes) \cup {Caller.path}
  BY <1>5, AppendProperties, RangeAppend DEF Exports
<1>7. Caller.path \in OnStack
  BY <1>1 DEF OnStack
<1>8. Popped # << >> /\ Popped[Len(Popped)].todo # << >>
  BY <1>1, <1>4 DEF Stack, Stacked
<1>9. Answered(calls', Popped, Exports(Caller))
  BY <1>2, <1>4, <1>6, <1>8, ReturnAnswers
<1>10. Stacked(Popped)
  <2>1. Popped[1].path = [file |-> Main, detours |-> 0]
    BY <1>1, <1>4 DEF Stack, Stacked
  <2>2. \A i \in 1 .. n-1 : Range(Popped[i].todo) \subseteq ImportsOf(Popped[i].path.file)
    <3> SUFFICES ASSUME NEW i \in 1 .. n-1
                 PROVE  Range(calls[i].todo) \subseteq ImportsOf(calls[i].path.file)
      BY <1>4
    <3>1. i \in 1 .. n
      BY <1>1
    <3> QED
      BY <3>1 DEF Stack, Stacked
  <2>3. \A i \in 1 .. (n-1) - 1 :
          /\ Popped[i].todo # << >>
          /\ Popped[i+1].path = Resolve(Popped[i].path, Head(Popped[i].todo))
    <3> SUFFICES ASSUME NEW i \in 1 .. (n-1) - 1
                 PROVE  /\ Popped[i].todo # << >>
                        /\ Popped[i+1].path = Resolve(Popped[i].path, Head(Popped[i].todo))
      OBVIOUS
    <3>1. i \in 1 .. n-1 /\ i+1 \in 1 .. n-1
      BY <1>1
    <3>2. /\ calls[i].todo # << >>
          /\ calls[i+1].path = Resolve(calls[i].path, Head(calls[i].todo))
      BY <3>1 DEF Stack, Stacked
    <3> QED
      BY <1>4, <3>1, <3>2
  <2> HIDE DEF n
  <2> QED
    BY <1>4, <1>8, <2>1, <2>2, <2>3 DEF Stacked
<1>11. Stack'
  BY <1>2, <1>9, <1>10, AnsweredStack, StackStays DEF Stack
<1>12. /\ Len(calls') = n - 1
       /\ \A i \in 1 .. n-1 : calls'[i].path = calls[i].path
  BY <1>4, <1>9 DEF Answered
<1>13. OnStack' = {calls[i].path : i \in 2 .. n - 1}
  BY <1>1, <1>12 DEF OnStack
<1> QED
  BY <1>1, <1>4, <1>6, <1>7, <1>9, <1>11, <1>13

\* An import throws: its caller goes on without nodes, or the program fails.
LEMMA ThrowAnswers ==
  ASSUME Stack, Importing, Throw
  PROVE  /\ UNCHANGED dir /\ Stack' /\ OnStack' = OnStack
         /\ Len(calls') = Len(calls)
         /\ \A i \in 1 .. Len(calls) : calls'[i].path = calls[i].path
         /\ \/ UNCHANGED calls /\ phase' = "failed"
            \/ Answered(calls', calls, << >>) /\ UNCHANGED phase /\ ~InMain
<1>1. Caller.todo # << >> /\ UNCHANGED dir /\ dir \in Directories
  BY DEF Importing, Throw, Stack
<1>2. CASE InMain
  <2>1. UNCHANGED calls /\ phase' = "failed"
    BY <1>2 DEF Throw
  <2>2. Stacked(calls')
    BY <2>1 DEF Stack
  <2> QED
    BY <1>1, <2>1, <2>2, StackStays DEF OnStack
<1>3. CASE ~InMain
  <2>1. calls' = Return(calls, << >>) /\ UNCHANGED phase
    BY <1>3 DEF Throw
  <2>2. Answered(calls', calls, << >>)
    BY <1>1, <2>1, ReturnAnswers, EmptySeq DEF Stack, Stacked, Caller
  <2>3. Stack'
    BY <1>1, <2>2, AnsweredStack, StackStays DEF Stack
  <2> QED
    BY <1>1, <1>3, <2>1, <2>2, <2>3 DEF Answered, OnStack
<1> QED
  BY <1>2, <1>3

LEMMA LoadCachedAnswers ==
  ASSUME Stack, cache \in [DOMAIN cache -> Seq(Paths)], LoadCached
  PROVE  /\ UNCHANGED dir /\ Stack' /\ OnStack' = OnStack
         /\ Len(calls') = Len(calls)
         /\ \A i \in 1 .. Len(calls) : calls'[i].path = calls[i].path
         /\ Answered(calls', calls, cache[Wanted])
<1>1. Caller.todo # << >> /\ UNCHANGED dir /\ dir \in Directories /\ cache[Wanted] \in Seq(Paths)
  BY DEF LoadCached, Importing, Stack, Cached
<1>2. Answered(calls', calls, cache[Wanted])
  BY <1>1, ReturnAnswers DEF Stack, Stacked, Caller, LoadCached
<1>3. Stack'
  BY <1>1, <1>2, AnsweredStack, StackStays DEF Stack
<1> QED
  BY <1>1, <1>2, <1>3 DEF Answered, OnStack

\* A step that changes no path of the stack.
LEMMA LoadingStays ==
  ASSUME Loading, UNCHANGED dir, OnStack' = OnStack, Len(calls') = Len(calls),
         Len(calls) \in Nat,
         \A i \in 1 .. Len(calls) : calls'[i].path = calls[i].path,
         DOMAIN cache' \subseteq DOMAIN cache,
         \/ loading' = loading
         \/ /\ loading' = loading \cup {Wanted}
            /\ Wanted \notin DOMAIN cache /\ dir[Wanted.file].condition = "empty"
  PROVE  Loading'
<1>1. \A i, j \in 2 .. Len(calls') : calls'[i].path = calls'[j].path => i = j
  BY DEF Loading
<1>2. Fine' = Fine
  BY FilesStay
<1>3. \A p \in loading' : p \in OnStack \/ dir[p.file].condition = "empty"
  BY DEF Loading
<1>4. \A p \in loading' : p \notin DOMAIN cache'
  BY DEF Loading
<1>5. /\ DOMAIN cache' \subseteq Paths
      /\ \A p \in DOMAIN cache' : p.file \in Fine
      /\ \A p \in OnStack : p \in loading' /\ p.file \in Fine
  BY DEF Loading
<1> HIDE DEF OnStack
<1> QED
  BY <1>1, <1>2, <1>3, <1>4, <1>5 DEF Loading

LEMMA ParseLoading ==
  ASSUME Stack, Loading, Parse
  PROVE  Loading'
<1> DEFINE n == Len(calls)
<1>1. /\ UNCHANGED <<dir, cache>> /\ loading' = loading \cup {Wanted}
      /\ Wanted \notin loading /\ Wanted \notin DOMAIN cache
      /\ Wanted \in Paths /\ Wanted.file \in Fine
  BY WantedFacts DEF Parse, Importing, NotLoading, Cached, Condition, Fine
<1>2. /\ Pushed(calls') /\ OnStack' = OnStack \cup {Wanted}
  BY ParsePushes
<1>3. \A i, j \in 2 .. Len(calls') : calls'[i].path = calls'[j].path => i = j
  <2> SUFFICES ASSUME NEW i \in 2 .. n+1, NEW j \in 2 .. n+1,
                      calls'[i].path = calls'[j].path, i # j
               PROVE  FALSE
    BY <1>2 DEF Pushed
  <2>1. ASSUME NEW x \in 2 .. n, calls'[x].path = Wanted
        PROVE  FALSE
    <3>1. calls[x].path = Wanted
      BY <1>2, <2>1 DEF Pushed
    <3>2. calls[x].path \in OnStack
      BY DEF OnStack
    <3> QED
      BY <1>1, <3>1, <3>2 DEF Loading
  <2>2. CASE i = n+1
    <3>1. j \in 2 .. n
      BY <1>2, <2>2 DEF Pushed
    <3> QED
      BY <1>2, <2>1, <2>2, <3>1 DEF Pushed
  <2>3. CASE j = n+1
    <3>1. i \in 2 .. n
      BY <1>2, <2>3 DEF Pushed
    <3> QED
      BY <1>2, <2>1, <2>3, <3>1 DEF Pushed
  <2>4. CASE i # n+1 /\ j # n+1
    <3>1. i \in 2 .. n /\ j \in 2 .. n
      BY <1>2, <2>4 DEF Pushed
    <3>2. calls'[i] = calls[i] /\ calls'[j] = calls[j]
      BY <1>2, <3>1 DEF Pushed
    <3> QED
      BY <3>1, <3>2 DEF Loading
  <2> QED
    BY <2>2, <2>3, <2>4
<1>4. Fine' = Fine
  BY <1>1, FilesStay
<1>5. /\ \A p \in OnStack' : p \in loading' /\ p.file \in Fine
      /\ \A p \in loading' : p \in OnStack' \/ dir[p.file].condition = "empty"
      /\ \A p \in loading' : p \notin DOMAIN cache
  BY <1>1, <1>2 DEF Loading
<1> QED
  BY <1>1, <1>3, <1>4, <1>5 DEF Loading

LEMMA LoadedLoading ==
  ASSUME Stack, Loading, Loaded
  PROVE  Loading'
<1> DEFINE n == Len(calls)
<1>1. /\ UNCHANGED dir /\ loading' = loading \ {Caller.path}
      /\ DOMAIN cache' = DOMAIN cache \cup {Caller.path}
  BY DEF Loaded
<1>2. /\ n \in Nat /\ n >= 2 /\ Caller = calls[n]
      /\ Caller.path \in OnStack /\ Caller.path \in Paths
      /\ Len(calls') = n - 1
      /\ \A i \in 1 .. n-1 : calls'[i].path = calls[i].path
      /\ OnStack' = {calls[i].path : i \in 2 .. n-1}
  BY LoadedPops, StackFacts DEF Caller, Answered, Call
<1>3. OnStack = OnStack' \cup {Caller.path}
  <2>1. \A i \in 2 .. n : i = n \/ i \in 2 .. n-1
    BY <1>2
  <2> QED
    BY <1>2, <2>1 DEF OnStack
<1>4. Caller.path \notin OnStack'
  <2> SUFFICES ASSUME NEW i \in 2 .. n-1, calls[i].path = calls[n].path
               PROVE  FALSE
    BY <1>2
  <2>1. i \in 2 .. n /\ n \in 2 .. n /\ i # n
    BY <1>2
  <2> QED
    BY <2>1 DEF Loading
<1>5. \A i, j \in 2 .. n-1 : calls'[i].path = calls'[j].path => i = j
  BY <1>2 DEF Loading
<1>6. Fine' = Fine
  BY <1>1, FilesStay
<1>7. /\ \A p \in OnStack' : p \in loading' /\ p.file \in Fine
      /\ \A p \in loading' : p \in OnStack' \/ dir[p.file].condition = "empty"
      /\ \A p \in loading' : p \notin DOMAIN cache'
      /\ DOMAIN cache' \subseteq Paths
      /\ \A p \in DOMAIN cache' : p.file \in Fine
  BY <1>1, <1>2, <1>3, <1>4 DEF Loading
<1> HIDE DEF n
<1> QED
  BY <1>1, <1>2, <1>5, <1>6, <1>7 DEF Loading

-----------------------------------------------------------------------------
(***************************************************************************)
(* What the calls have done so far.                                        *)
(***************************************************************************)

\* The modules that are loaded or loading.
Known == DOMAIN cache \cup OnStack

\* The fine imports of f that are not in todo are known.
Imported(path, todo, K) ==
  \A im \in ImportsOf(path.file) :
    im.file \in Fine /\ im \notin Range(todo) => Resolve(path, im) \in K

ImportedOn(cs, K) == \A i \in 1 .. Len(cs) : Imported(cs[i].path, cs[i].todo, K)

\* Nodes are handed out by modules that are loaded.
HandedOn(cs, K) == \A i \in 1 .. Len(cs) : Range(cs[i].nodes) \subseteq K

\* p is on its way to the main file, or has arrived in declarations ns.
Held(p, cs, ns) == p \in Range(ns) \/ \E i \in 2 .. Len(cs) : p \in Range(cs[i].nodes)

\* The files that the nodes come from.
FilesIn(ns) == {p.file : p \in Range(ns)}

\* Of the imports that are answered, the nodes have all that they reach, and
\* they have nothing else.
Gathered(f, todo, ns) ==
  /\ FilesIn(ns) \subseteq ReachableFrom(f)
  /\ \A im \in ImportsOf(f) :
       im.file \in Fine /\ im \notin Range(todo) =>
         {im.file} \cup ReachableFrom(im.file) \subseteq FilesIn(ns)

GatheredOn(cs) == \A i \in 1 .. Len(cs) : Gathered(cs[i].path.file, cs[i].todo, cs[i].nodes)

\* A call on the stack is for a file that every file under it reaches.
ChainOn(cs) ==
  \A i, j \in 1 .. Len(cs) :
    j < i => cs[i].path.file \in ReachableFrom(cs[j].path.file)

Modules ==
  phase # "exiting" =>
    /\ \A p \in DOMAIN cache : Imported(p, << >>, Known)
    /\ ImportedOn(calls, Known)
    /\ \A p \in DOMAIN cache : Held(p, calls, all)
    /\ HandedOn(calls, DOMAIN cache)
    /\ Range(all) \subseteq DOMAIN cache
    /\ \A p \in DOMAIN cache : Range(cache[p]) \subseteq DOMAIN cache
    /\ injected \subseteq DOMAIN cache

Reaching ==
  /\ ChainOn(calls)
  /\ \A p \in DOMAIN cache : p.file \in ReachableFrom(Main)
  /\ Acyclic => /\ GatheredOn(calls)
                /\ \A p \in DOMAIN cache :
                     FilesIn(cache[p]) = ReachableFrom(p.file) \cup {p.file}

-----------------------------------------------------------------------------
(***************************************************************************)
(* What answering an import does to each of them.                          *)
(***************************************************************************)

LEMMA AnsweredImported ==
  ASSUME NEW cs, NEW ds, NEW ns, Answered(ds, cs, ns), NEW K, NEW L, K \subseteq L,
         ImportedOn(cs, K),
         Head(cs[Len(cs)].todo).file \in Fine =>
           Resolve(cs[Len(cs)].path, Head(cs[Len(cs)].todo)) \in L
  PROVE  ImportedOn(ds, L)
<1> DEFINE n == Len(cs)
<1>1. /\ n \in Nat \ {0} /\ Len(ds) = n
      /\ \A i \in 1 .. n : ds[i].path = cs[i].path
      /\ \A i \in 1 .. n-1 : ds[i] = cs[i]
      /\ Range(cs[n].todo) = {Head(cs[n].todo)} \cup Range(ds[n].todo)
  BY DEF Answered
<1>2. ASSUME NEW i \in 1 .. n
      PROVE  Imported(ds[i].path, ds[i].todo, L)
  <2>1. Imported(cs[i].path, cs[i].todo, K)
    BY DEF ImportedOn
  <2>2. CASE i = n
    BY <1>1, <2>1, <2>2 DEF Imported
  <2>3. CASE i # n
    <3>1. i \in 1 .. n-1
      BY <1>1, <2>3
    <3> QED
      BY <1>1, <2>1, <3>1 DEF Imported
  <2> QED
    BY <2>2, <2>3
<1> QED
  BY <1>1, <1>2 DEF ImportedOn

LEMMA AnsweredHanded ==
  ASSUME NEW cs, NEW ds, NEW ns, Answered(ds, cs, ns), NEW K, NEW L, K \subseteq L,
         HandedOn(cs, K), Range(ns) \subseteq L
  PROVE  /\ HandedOn(ds, L)
         /\ \A p, all1 : Held(p, cs, all1) => Held(p, ds, all1)
<1> DEFINE n == Len(cs)
<1>1. /\ n \in Nat \ {0} /\ Len(ds) = n
      /\ \A i \in 1 .. n-1 : ds[i] = cs[i]
      /\ Range(ds[n].nodes) = Range(cs[n].nodes) \cup Range(ns)
  BY DEF Answered
<1>2. ASSUME NEW i \in 1 .. n
      PROVE  /\ Range(cs[i].nodes) \subseteq Range(ds[i].nodes)
             /\ Range(ds[i].nodes) \subseteq Range(cs[i].nodes) \cup Range(ns)
  <2>1. CASE i = n
    BY <1>1, <2>1
  <2>2. CASE i # n
    <3>1. i \in 1 .. n-1
      BY <1>1, <2>2
    <3> QED
      BY <1>1, <3>1
  <2> QED
    BY <2>1, <2>2
<1>3. \A i \in 2 .. n : i \in 1 .. n
  BY <1>1
<1> QED
  BY <1>1, <1>2, <1>3 DEF HandedOn, Held

LEMMA AnsweredChain ==
  ASSUME NEW cs, NEW ds, NEW ns, Answered(ds, cs, ns), ChainOn(cs)
  PROVE  ChainOn(ds)
  BY DEF Answered, ChainOn

LEMMA AnsweredGathered ==
  ASSUME NEW cs, NEW ds, NEW ns, Answered(ds, cs, ns), GatheredOn(cs),
         FilesIn(ns) \subseteq ReachableFrom(cs[Len(cs)].path.file),
         Head(cs[Len(cs)].todo).file \in Fine =>
           {Head(cs[Len(cs)].todo).file} \cup ReachableFrom(Head(cs[Len(cs)].todo).file)
             \subseteq FilesIn(ns)
  PROVE  GatheredOn(ds)
<1> DEFINE n == Len(cs)
<1>1. /\ n \in Nat \ {0} /\ Len(ds) = n
      /\ \A i \in 1 .. n : ds[i].path = cs[i].path
      /\ \A i \in 1 .. n-1 : ds[i] = cs[i]
      /\ Range(cs[n].todo) = {Head(cs[n].todo)} \cup Range(ds[n].todo)
      /\ Range(ds[n].nodes) = Range(cs[n].nodes) \cup Range(ns)
  BY DEF Answered
<1>2. ASSUME NEW i \in 1 .. n
      PROVE  Gathered(ds[i].path.file, ds[i].todo, ds[i].nodes)
  <2>1. Gathered(cs[i].path.file, cs[i].todo, cs[i].nodes)
    BY DEF GatheredOn
  <2>2. CASE i = n
    <3>1. FilesIn(ds[n].nodes) = FilesIn(cs[n].nodes) \cup FilesIn(ns)
      BY <1>1 DEF FilesIn
    <3>2. FilesIn(ds[n].nodes) \subseteq ReachableFrom(cs[n].path.file)
      BY <2>1, <2>2, <3>1 DEF Gathered
    <3>3. ASSUME NEW im \in ImportsOf(cs[n].path.file), im.file \in Fine, im \notin Range(ds[n].todo)
          PROVE  {im.file} \cup ReachableFrom(im.file) \subseteq FilesIn(ds[n].nodes)
      <4>1. CASE im = Head(cs[n].todo)
        BY <3>1, <3>3, <4>1
      <4>2. CASE im # Head(cs[n].todo)
        <5>1. im \notin Range(cs[n].todo)
          BY <1>1, <3>3, <4>2
        <5> QED
          BY <2>1, <2>2, <3>1, <3>3, <5>1 DEF Gathered
      <4> QED
        BY <4>1, <4>2
    <3> QED
      BY <1>1, <2>2, <3>2, <3>3 DEF Gathered
  <2>3. CASE i # n
    <3>1. i \in 1 .. n-1
      BY <1>1, <2>3
    <3> QED
      BY <1>1, <2>1, <3>1
  <2> QED
    BY <2>2, <2>3
<1> QED
  BY <1>1, <1>2 DEF GatheredOn

\* No step changes the files, so each part is that of the new stack.
LEMMA PartsStay ==
  ASSUME UNCHANGED dir
  PROVE  /\ (ImportedOn(calls, Known))' <=> ImportedOn(calls', Known')
         /\ \A p : Imported(p, << >>, Known)' <=> Imported(p, << >>, Known')
         /\ ChainOn(calls)' <=> ChainOn(calls')
         /\ GatheredOn(calls)' <=> GatheredOn(calls')
<1>1. /\ Fine' = Fine /\ \A f : ReachableFrom(f)' = ReachableFrom(f)
      /\ \A f : ImportsOf(f)' = ImportsOf(f)
  BY FilesStay DEF ImportsOf
<1>2. \A p : Imported(p, << >>, Known)' <=> Imported(p, << >>, Known')
  BY <1>1 DEF Imported, ImportsOf
<1>3. (ImportedOn(calls, Known))' <=> ImportedOn(calls', Known')
  BY <1>1 DEF ImportedOn, Imported, ImportsOf
<1>4. ChainOn(calls)' <=> ChainOn(calls')
  BY <1>1 DEF ChainOn, ReachableFrom, ImportedBy, ClosedUnderImports
<1>5. GatheredOn(calls)' <=> GatheredOn(calls')
  BY <1>1 DEF GatheredOn, Gathered, ImportsOf, ReachableFrom, ImportedBy, ClosedUnderImports
<1> QED
  BY <1>2, <1>3, <1>4, <1>5

\* An import of the last call is answered by the nodes ns of loaded modules.
LEMMA AnswerModules ==
  ASSUME Stack, Modules, phase = "resolve", UNCHANGED <<dir, cache>>, OnStack' = OnStack,
         NEW ns, Answered(calls', calls, ns), Range(ns) \subseteq DOMAIN cache,
         Wanted.file \in Fine => Wanted \in Known,
         Caller.todo # << >>,
         Range(all) \subseteq Range(all'), Range(all') \subseteq DOMAIN cache,
         injected' \subseteq DOMAIN cache
  PROVE  Modules'
<1>1. Caller = calls[Len(calls)] /\ Wanted = Resolve(Caller.path, Head(Caller.todo))
      /\ Wanted.file = Head(Caller.todo).file
  BY WantedFacts DEF Caller
<1>2. Known' = Known /\ DOMAIN cache' = DOMAIN cache
  BY DEF Known
<1>3. ImportedOn(calls', Known)
  BY <1>1, AnsweredImported DEF Modules
<1>4. HandedOn(calls', DOMAIN cache)
  BY AnsweredHanded DEF Modules
<1>5. ASSUME NEW p \in DOMAIN cache
      PROVE  Held(p, calls', all')
  <2>1. Held(p, calls, all)
    BY DEF Modules
  <2>2. Held(p, calls', all)
    BY <2>1, AnsweredHanded DEF Modules
  <2> QED
    BY <2>2 DEF Held
<1>6. ImportedOn(calls, Known)'
  BY <1>2, <1>3, PartsStay
<1>7. \A p \in DOMAIN cache : Imported(p, << >>, Known)'
  BY <1>2, PartsStay DEF Modules
<1> QED
  BY <1>2, <1>4, <1>5, <1>6, <1>7 DEF Modules

LEMMA AnswerReaching ==
  ASSUME Stack, Reaching, UNCHANGED <<dir, cache>>,
         NEW ns, Answered(calls', calls, ns), Caller.todo # << >>,
         Acyclic =>
           /\ FilesIn(ns) \subseteq ReachableFrom(Caller.path.file)
           /\ Wanted.file \in Fine =>
                {Wanted.file} \cup ReachableFrom(Wanted.file) \subseteq FilesIn(ns)
  PROVE  Reaching'
<1>1. Caller = calls[Len(calls)] /\ Wanted.file = Head(Caller.todo).file
  BY WantedFacts DEF Caller
<1>2. ChainOn(calls')
  BY AnsweredChain DEF Reaching
<1>3. Acyclic => GatheredOn(calls')
  BY <1>1, AnsweredGathered DEF Reaching
<1>4. /\ Acyclic' = Acyclic /\ \A f : ReachableFrom(f)' = ReachableFrom(f)
      /\ ChainOn(calls)' /\ (Acyclic => GatheredOn(calls)')
  BY <1>2, <1>3, FilesStay, PartsStay
<1>5. \A p \in DOMAIN cache : p.file \in ReachableFrom(Main)'
  BY <1>4 DEF Reaching
<1>6. Acyclic => \A p \in DOMAIN cache :
                   FilesIn(cache[p]) = ReachableFrom(p.file)' \cup {p.file}
  BY <1>4 DEF Reaching
<1> QED
  BY <1>4, <1>5, <1>6 DEF Reaching, FilesIn

\* The program fails, or nothing happens to the modules.
LEMMA QuietParts ==
  ASSUME Modules, Reaching, UNCHANGED <<dir, cache, calls, all, injected>>,
         phase' # "exiting" => phase # "exiting"
  PROVE  Modules' /\ Reaching'
<1>1. Known' = Known /\ OnStack' = OnStack
  BY DEF Known, OnStack
<1>2. Modules'
  BY <1>1, PartsStay DEF Modules, Held, HandedOn
<1>3. Acyclic' = Acyclic /\ \A f : ReachableFrom(f)' = ReachableFrom(f)
  BY FilesStay
<1>4. ChainOn(calls)' /\ (Acyclic => GatheredOn(calls)')
  BY PartsStay DEF Reaching
<1>5. \A p \in DOMAIN cache : p.file \in ReachableFrom(Main)'
  BY <1>3 DEF Reaching
<1>6. Acyclic => \A p \in DOMAIN cache :
                   FilesIn(cache[p]) = ReachableFrom(p.file)' \cup {p.file}
  BY <1>3 DEF Reaching
<1>7. Reaching'
  BY <1>3, <1>4, <1>5, <1>6 DEF Reaching, FilesIn
<1> QED
  BY <1>2, <1>7

\* A module that is loading is one that the caller is reached from: without
\* cycles nothing wants it.
LEMMA NoWantedOnStack ==
  ASSUME Stack, Reaching, Acyclic, Caller.todo # << >>, Wanted.file \in Fine
  PROVE  Wanted \notin OnStack
<1> SUFFICES ASSUME NEW j \in 2 .. Len(calls), calls[j].path = Wanted
             PROVE  FALSE
  BY DEF OnStack
<1>1. Len(calls) \in Nat \ {0} /\ Caller = calls[Len(calls)]
  BY StackFacts DEF Caller
<1>2. Wanted.file \in ImportedBy(Caller.path.file) /\ Wanted.file \in Files
  BY WantedFacts
<1>3. Caller.path.file = Wanted.file \/ Caller.path.file \in ReachableFrom(Wanted.file)
  BY <1>1 DEF Reaching, ChainOn
<1>4. Wanted.file \in ReachableFrom(Wanted.file)
  BY <1>2, <1>3, ReachesOn, ReachesImports
<1> QED
  BY <1>2, <1>4 DEF Acyclic

\* The four ways for an import to throw.
LEMMA ThrowParts ==
  ASSUME Stack, Loading, Modules, Reaching, NotFound \/ Circular \/ CannotRead \/ ParseError
  PROVE  Stack' /\ Loading' /\ Modules' /\ Reaching' /\ Known' = Known
<1>1. Importing /\ Throw /\ phase = "resolve" /\ Caller.todo # << >>
  BY DEF NotFound, Circular, CannotRead, ParseError, Importing
<1>2. UNCHANGED <<dir, cache, all, injected>>
  BY <1>1 DEF Throw
<1>3. /\ Stack' /\ OnStack' = OnStack
      /\ Len(calls') = Len(calls) /\ Len(calls) \in Nat
      /\ \A i \in 1 .. Len(calls) : calls'[i].path = calls[i].path
      /\ \/ UNCHANGED calls /\ phase' = "failed"
         \/ Answered(calls', calls, << >>) /\ UNCHANGED phase
  BY <1>1, ThrowAnswers, StackFacts
<1>4. \/ loading' = loading
      \/ /\ loading' = loading \cup {Wanted}
         /\ Wanted \notin DOMAIN cache /\ dir[Wanted.file].condition = "empty"
  BY DEF NotFound, Circular, CannotRead, ParseError, NotLoading, Cached, Condition
<1>5. Loading'
  BY <1>2, <1>3, <1>4, LoadingStays
<1>9. Known' = Known
  BY <1>2, <1>3 DEF Known
<1>6. Wanted.file \in Fine => Wanted \in OnStack
  BY DEF NotFound, Circular, CannotRead, ParseError, Condition, Fine, Loading
<1>7. CASE UNCHANGED calls /\ phase' = "failed"
  BY <1>1, <1>2, <1>3, <1>5, <1>7, <1>9, QuietParts
<1>8. CASE Answered(calls', calls, << >>) /\ UNCHANGED phase
  <2>1. Range(<< >>) = {} /\ FilesIn(<< >>) = {}
    BY DEF Range, FilesIn
  <2>2. Wanted.file \in Fine => Wanted \in Known
    BY <1>6 DEF Known
  <2>3. Range(all) \subseteq DOMAIN cache /\ injected \subseteq DOMAIN cache
    BY <1>1 DEF Modules
  <2>4. Modules'
    BY <1>1, <1>2, <1>3, <1>8, <2>1, <2>2, <2>3, AnswerModules
  <2>5. Acyclic => Wanted.file \notin Fine
    BY <1>1, <1>6, NoWantedOnStack
  <2>6. Reaching'
    BY <1>1, <1>2, <1>8, <2>1, <2>5, AnswerReaching
  <2> QED
    BY <1>3, <1>5, <1>9, <2>4, <2>6
<1> QED
  BY <1>3, <1>7, <1>8

LEMMA LoadCachedParts ==
  ASSUME Stack, Loading, Modules, Reaching, LoadCached,
         cache \in [DOMAIN cache -> Seq(Paths)], all \in Seq(Paths)
  PROVE  /\ Stack' /\ Loading' /\ Modules' /\ Reaching' /\ all' \in Seq(Paths)
         /\ Known' = Known
<1> DEFINE ns == cache[Wanted]
<1>1. /\ phase = "resolve" /\ Caller.todo # << >> /\ Wanted \in DOMAIN cache
      /\ UNCHANGED <<dir, phase, cache, loading>> /\ ns \in Seq(Paths)
      /\ Inject(calls, Wanted, ns)
  BY DEF LoadCached, Importing, Cached
<1>2. /\ Stack' /\ OnStack' = OnStack
      /\ Len(calls') = Len(calls) /\ Len(calls) \in Nat
      /\ \A i \in 1 .. Len(calls) : calls'[i].path = calls[i].path
      /\ Answered(calls', calls, ns)
  BY LoadCachedAnswers, StackFacts
<1>3. Loading'
  BY <1>1, <1>2, LoadingStays
<1>4. /\ Range(ns) \subseteq DOMAIN cache /\ injected \subseteq DOMAIN cache
      /\ Range(all) \subseteq DOMAIN cache
  BY <1>1 DEF Modules
<1>5. /\ all' \in Seq(Paths)
      /\ Range(all) \subseteq Range(all') /\ Range(all') \subseteq DOMAIN cache
      /\ injected' \subseteq DOMAIN cache
  <2>1. CASE UNCHANGED <<all, injected>>
    BY <1>4, <2>1
  <2>2. CASE all' = all \o ns /\ injected' = injected \cup {Wanted}
    <3>1. Range(all \o ns) = Range(all) \cup Range(ns)
      BY <1>1, RangeConcatenation
    <3> QED
      BY <1>1, <1>4, <2>2, <3>1, ConcatProperties
  <2> QED
    BY <1>1, <2>1, <2>2 DEF Inject
<1> HIDE DEF ns
<1>6. Modules'
  BY <1>1, <1>2, <1>4, <1>5, AnswerModules DEF Known
<1>7. Wanted.file \in ReachableFrom(Caller.path.file)
  <2>1. Wanted.file \in Fine
    BY <1>1 DEF Loading
  <2> QED
    BY <1>1, <2>1, WantedFacts, ReachesImports
<1>8. Acyclic => FilesIn(ns) = ReachableFrom(Wanted.file) \cup {Wanted.file}
  BY <1>1 DEF Reaching, ns
<1>9. Reaching'
  BY <1>1, <1>2, <1>7, <1>8, ReachesAll, AnswerReaching
<1> QED
  BY <1>1, <1>2, <1>3, <1>5, <1>6, <1>9 DEF Known

LEMMA ParseParts ==
  ASSUME Stack, Loading, Modules, Reaching, Parse
  PROVE  Stack' /\ Loading' /\ Modules' /\ Reaching' /\ Known' = Known \cup {Wanted}
<1> DEFINE n == Len(calls)
<1>1. /\ phase = "resolve" /\ Caller.todo # << >> /\ Wanted.file \in Fine
      /\ UNCHANGED <<dir, phase, cache, all, injected>>
  BY WantedFacts DEF Parse, Importing, NotLoading, Condition, Fine
<1>2. /\ Pushed(calls') /\ Stack' /\ OnStack' = OnStack \cup {Wanted}
      /\ Caller = calls[n]
  BY ParsePushes DEF Caller
<1>3. Loading'
  BY ParseLoading
<1>4. /\ n \in Nat \ {0} /\ Len(calls') = n + 1
      /\ \A i \in 1 .. n : calls'[i] = calls[i]
      /\ calls'[n+1].path = Wanted
      /\ Range(calls'[n+1].todo) = ImportsOf(Wanted.file)
      /\ Range(calls'[n+1].nodes) = {}
      /\ \A i \in 1 .. n+1 : i \in 1 .. n \/ i = n+1
  BY <1>2 DEF Pushed
<1> HIDE DEF n
<1>5. Known' = Known \cup {Wanted}
  BY <1>1, <1>2 DEF Known
<1>6. ImportedOn(calls', Known')
  <2> SUFFICES ASSUME NEW i \in 1 .. n+1
               PROVE  Imported(calls'[i].path, calls'[i].todo, Known')
    BY <1>4 DEF ImportedOn
  <2>1. CASE i \in 1 .. n
    <3>1. Imported(calls[i].path, calls[i].todo, Known)
      BY <1>1, <2>1 DEF Modules, ImportedOn, n
    <3> QED
      BY <1>4, <1>5, <2>1, <3>1 DEF Imported
  <2>2. CASE i = n+1
    BY <1>4, <2>2 DEF Imported
  <2> QED
    BY <1>4, <2>1, <2>2
<1>7. \A p \in DOMAIN cache : Imported(p, << >>, Known')
  BY <1>1, <1>5 DEF Modules, Imported
<1>8. HandedOn(calls', DOMAIN cache)
  BY <1>1, <1>4 DEF Modules, HandedOn, n
<1>9. \A p \in DOMAIN cache : Held(p, calls', all)
  <2> SUFFICES ASSUME NEW p \in DOMAIN cache
               PROVE  Held(p, calls', all)
    OBVIOUS
  <2>1. Held(p, calls, all)
    BY <1>1 DEF Modules
  <2>2. \A i \in 2 .. n : i \in 1 .. n /\ i \in 2 .. n+1
    BY <1>4
  <2> QED
    BY <1>4, <2>1, <2>2 DEF Held, n
<1>10. Modules'
  BY <1>1, <1>6, <1>7, <1>8, <1>9, PartsStay DEF Modules
<1>11. ChainOn(calls')
  <2> SUFFICES ASSUME NEW i \in 1 .. n+1, NEW j \in 1 .. n+1, j < i
               PROVE  calls'[i].path.file \in ReachableFrom(calls'[j].path.file)
    BY <1>4 DEF ChainOn
  <2>1. j \in 1 .. n /\ calls'[j] = calls[j]
    BY <1>4
  <2>2. CASE i \in 1 .. n
    BY <1>4, <2>1, <2>2 DEF Reaching, ChainOn, n
  <2>3. CASE i = n+1
    <3>1. Wanted.file \in ImportedBy(calls[n].path.file)
      BY <1>1, <1>2, WantedFacts
    <3>2. CASE j = n
      BY <1>4, <2>1, <2>3, <3>1, <3>2, ReachesImports
    <3>3. CASE j < n
      <4>1. calls[n].path.file \in ReachableFrom(calls[j].path.file)
        BY <1>4, <2>1, <3>3 DEF Reaching, ChainOn, n
      <4> QED
        BY <1>4, <2>1, <2>3, <3>1, <4>1, ReachesOn
    <3> QED
      BY <1>4, <2>1, <3>2, <3>3
  <2> QED
    BY <1>4, <2>2, <2>3
<1>12. Acyclic => GatheredOn(calls')
  <2> SUFFICES ASSUME Acyclic, NEW i \in 1 .. n+1
               PROVE  Gathered(calls'[i].path.file, calls'[i].todo, calls'[i].nodes)
    BY <1>4 DEF GatheredOn
  <2>1. CASE i \in 1 .. n
    BY <1>4, <2>1 DEF Reaching, GatheredOn, n
  <2>2. CASE i = n+1
    BY <1>4, <2>2 DEF Gathered, FilesIn
  <2> QED
    BY <1>4, <2>1, <2>2
<1>13. /\ Acyclic' = Acyclic /\ \A f : ReachableFrom(f)' = ReachableFrom(f)
       /\ ChainOn(calls)' /\ (Acyclic => GatheredOn(calls)')
  BY <1>1, <1>11, <1>12, FilesStay, PartsStay
<1>14. \A p \in DOMAIN cache : p.file \in ReachableFrom(Main)'
  BY <1>13 DEF Reaching
<1>15. Acyclic => \A p \in DOMAIN cache :
                    FilesIn(cache[p]) = ReachableFrom(p.file)' \cup {p.file}
  BY <1>13 DEF Reaching
<1>16. Reaching'
  BY <1>1, <1>13, <1>14, <1>15 DEF Reaching, FilesIn
<1> QED
  BY <1>2, <1>3, <1>5, <1>10, <1>16

\* A call that returns hands its nodes and its own to the call under it.
LEMMA LoadedParts ==
  ASSUME Stack, Loading, Modules, Reaching, Loaded,
         cache \in [DOMAIN cache -> Seq(Paths)], all \in Seq(Paths)
  PROVE  /\ Stack' /\ Loading' /\ Modules' /\ Reaching'
         /\ cache' \in [DOMAIN cache' -> Seq(Paths)] /\ all' \in Seq(Paths)
         /\ Known' = Known
<1> DEFINE n == Len(calls)
           ns == Exports(Caller)
           f == Caller.path.file
<1>1. /\ phase = "resolve" /\ Caller.todo = << >> /\ UNCHANGED <<dir, phase>>
      /\ cache' = [p \in DOMAIN cache \cup {Caller.path} |->
                     IF p = Caller.path THEN ns ELSE cache[p]]
      /\ Inject(Popped, Caller.path, ns)
  BY DEF Loaded, Popped
<1>2. /\ n \in Nat /\ n >= 2 /\ Caller = calls[n]
      /\ Popped \in Seq(Call) /\ Len(Popped) = n - 1
      /\ \A i \in 1 .. n - 1 : Popped[i] = calls[i]
      /\ ns \in Seq(Paths)
      /\ Range(ns) = Range(Caller.nodes) \cup {Caller.path}
      /\ Caller.path \in OnStack
      /\ Answered(calls', Popped, ns)
      /\ Stack'
      /\ OnStack' = {calls[i].path : i \in 2 .. n - 1}
  BY LoadedPops DEF Caller
<1>3. Loading'
  BY LoadedLoading
<1> HIDE DEF ns, n
<1>4. /\ DOMAIN cache' = DOMAIN cache \cup {Caller.path}
      /\ cache'[Caller.path] = ns
      /\ \A p \in DOMAIN cache : p # Caller.path => cache'[p] = cache[p]
      /\ cache' \in [DOMAIN cache' -> Seq(Paths)]
  BY <1>1, <1>2
<1>5. OnStack = OnStack' \cup {Caller.path}
  <2>1. \A i \in 2 .. n : i = n \/ i \in 2 .. n-1
    BY <1>2
  <2>2. OnStack = {calls[i].path : i \in 2 .. n}
    BY DEF OnStack, n
  <2> QED
    BY <1>2, <2>1, <2>2
<1>6. Known' = Known
  BY <1>4, <1>5 DEF Known
<1>7. /\ n-1 \in 1 .. n-1 /\ n \in 1 .. n /\ (n-1)+1 = n
      /\ \A i \in 1 .. n-1 : i \in 1 .. n
  BY <1>2
<1>8. /\ Caller.path = Resolve(Popped[n-1].path, Head(Popped[n-1].todo))
      /\ Head(Popped[n-1].todo).file = f
  <2>1. calls[n].path = Resolve(calls[n-1].path, Head(calls[n-1].todo))
    BY <1>7 DEF Stack, Stacked, n
  <2>2. \A path, im : Resolve(path, im).file = im.file
    BY DEF Resolve
  <2>3. Popped[n-1] = calls[n-1]
    BY <1>2, <1>7
  <2> QED
    BY <1>2, <2>1, <2>2, <2>3
<1>9. ImportedOn(calls', Known')
  <2>1. ImportedOn(Popped, Known)
    BY <1>1, <1>2, <1>7 DEF Modules, ImportedOn, n
  <2>2. Caller.path \in Known
    BY <1>2 DEF Known
  <2> QED
    BY <1>2, <1>6, <1>8, <2>1, <2>2, AnsweredImported
<1>10. \A p \in DOMAIN cache' : Imported(p, << >>, Known')
  <2>1. Imported(Caller.path, << >>, Known)
    BY <1>1, <1>2, <1>7 DEF Modules, ImportedOn, n
  <2> QED
    BY <1>1, <1>4, <1>6, <2>1 DEF Modules
<1>11. /\ Range(all) \subseteq DOMAIN cache /\ injected \subseteq DOMAIN cache
       /\ HandedOn(calls, DOMAIN cache) /\ Range(Caller.nodes) \subseteq DOMAIN cache
       /\ \A p \in DOMAIN cache : Range(cache[p]) \subseteq DOMAIN cache
       /\ \A p \in DOMAIN cache : Held(p, calls, all)
       /\ Caller.path \notin DOMAIN cache
  BY <1>1, <1>2, <1>7 DEF Modules, HandedOn, Loading, n
<1>12. /\ HandedOn(calls', DOMAIN cache')
       /\ \A p, ns1 : Held(p, Popped, ns1) => Held(p, calls', ns1)
  <2>1. HandedOn(Popped, DOMAIN cache)
    BY <1>2, <1>7, <1>11 DEF HandedOn, n
  <2>2. Range(ns) \subseteq DOMAIN cache'
    BY <1>2, <1>4, <1>11
  <2> QED
    BY <1>2, <1>4, <2>1, <2>2, AnsweredHanded
<1>13. \A p \in DOMAIN cache' : Range(cache'[p]) \subseteq DOMAIN cache'
  BY <1>2, <1>4, <1>11
<1>14. /\ all' \in Seq(Paths)
       /\ Range(all) \subseteq Range(all') /\ Range(all') \subseteq DOMAIN cache'
       /\ injected' \subseteq DOMAIN cache'
       /\ n = 2 => Range(ns) \subseteq Range(all')
  <2>1. CASE UNCHANGED <<all, injected>> /\ n # 2
    BY <1>4, <1>11, <2>1
  <2>2. CASE all' = all \o ns /\ injected' = injected \cup {Caller.path}
    <3>1. Range(all \o ns) = Range(all) \cup Range(ns)
      BY <1>2, RangeConcatenation
    <3> QED
      BY <1>2, <1>4, <1>11, <2>2, <3>1, ConcatProperties
  <2>3. n = 2 <=> Len(Popped) = 1
    BY <1>2
  <2> QED
    BY <1>1, <1>11, <2>1, <2>2, <2>3 DEF Inject
<1>15. ASSUME NEW p \in DOMAIN cache'
       PROVE  Held(p, calls', all')
  <2>1. Range(ns) \subseteq Range(calls'[n-1].nodes) /\ Len(calls') = n-1
    BY <1>2 DEF Answered
  <2>2. CASE p \in Range(ns)
    <3>1. CASE n = 2
      BY <1>14, <2>2, <3>1 DEF Held
    <3>2. CASE n # 2
      <4>1. n-1 \in 2 .. n-1
        BY <1>2, <3>2
      <4> QED
        BY <2>1, <2>2, <4>1 DEF Held
    <3> QED
      BY <3>1, <3>2
  <2>3. CASE p \notin Range(ns)
    <3>1. Held(p, calls, all) /\ p \notin Range(calls[n].nodes)
      BY <1>2, <1>4, <1>11, <2>3
    <3>2. Held(p, Popped, all)
      <4>1. ASSUME NEW i \in 2 .. n, p \in Range(calls[i].nodes)
            PROVE  i \in 2 .. n-1 /\ p \in Range(Popped[i].nodes)
        <5>1. i # n
          BY <3>1, <4>1
        <5> QED
          BY <1>2, <4>1, <5>1
      <4> QED
        BY <1>2, <3>1, <4>1 DEF Held, n
    <3>3. Held(p, calls', all)
      BY <1>12, <3>2
    <3> QED
      BY <1>14, <3>3 DEF Held
  <2> QED
    BY <2>2, <2>3
<1>16. Modules'
  BY <1>1, <1>9, <1>10, <1>12, <1>13, <1>14, <1>15, PartsStay DEF Modules
<1>17. ChainOn(calls')
  <2>1. ChainOn(Popped)
    BY <1>2, <1>7 DEF Reaching, ChainOn, n
  <2> QED
    BY <1>2, <2>1, AnsweredChain
<1>18. /\ f \in ReachableFrom(Popped[n-1].path.file)
       /\ f \in ReachableFrom(Main)
  <2>1. \A j \in 1 .. n-1 : f \in ReachableFrom(calls[j].path.file)
    BY <1>2, <1>7 DEF Reaching, ChainOn, n
  <2>2. calls[1].path.file = Main /\ 1 \in 1 .. n-1
    BY <1>2 DEF Stack, Stacked
  <2> QED
    BY <1>2, <1>7, <2>1, <2>2
<1>19. ASSUME Acyclic
       PROVE  FilesIn(ns) = ReachableFrom(f) \cup {f}
  <2>1. Gathered(f, << >>, Caller.nodes)
    BY <1>1, <1>2, <1>7, <1>19 DEF Reaching, GatheredOn, n
  <2>2. FilesIn(ns) = FilesIn(Caller.nodes) \cup {f}
    BY <1>2 DEF FilesIn
  <2>3. ASSUME NEW h \in ReachableFrom(f)
        PROVE  h \in FilesIn(Caller.nodes)
    <3>1. PICK g \in ImportedBy(f) : h = g \/ h \in ReachableFrom(g)
      BY ReachesByImports
    <3>2. PICK i \in DOMAIN dir[f].imports : dir[f].imports[i].file = g /\ g \in Fine
      BY DEF ImportedBy
    <3>3. dir[f].imports[i] \in ImportsOf(f) /\ dir[f].imports[i] \notin Range(<< >>)
      BY DEF ImportsOf, Range
    <3> QED
      BY <2>1, <3>1, <3>2, <3>3 DEF Gathered
  <2> QED
    BY <2>1, <2>2, <2>3 DEF Gathered
<1>20. Acyclic => GatheredOn(calls')
  <2> SUFFICES ASSUME Acyclic
               PROVE  GatheredOn(calls')
    OBVIOUS
  <2>1. GatheredOn(Popped)
    BY <1>2, <1>7 DEF Reaching, GatheredOn, n
  <2>2. FilesIn(ns) \subseteq ReachableFrom(Popped[n-1].path.file)
    BY <1>18, <1>19, ReachesAll
  <2> QED
    BY <1>2, <1>8, <1>19, <2>1, <2>2, AnsweredGathered
<1>21. /\ Acyclic' = Acyclic /\ \A h : ReachableFrom(h)' = ReachableFrom(h)
       /\ ChainOn(calls)' /\ (Acyclic => GatheredOn(calls)')
  BY <1>1, <1>17, <1>20, FilesStay, PartsStay
<1>22. \A p \in DOMAIN cache' : p.file \in ReachableFrom(Main)'
  BY <1>4, <1>18, <1>21 DEF Reaching
<1>23. Acyclic => \A p \in DOMAIN cache' :
                    FilesIn(cache'[p]) = ReachableFrom(p.file)' \cup {p.file}
  BY <1>4, <1>19, <1>21 DEF Reaching
<1>24. Reaching'
  BY <1>21, <1>22, <1>23 DEF Reaching, FilesIn
<1> QED
  BY <1>2, <1>3, <1>4, <1>6, <1>14, <1>16, <1>24

\* ~ModuleLoader only takes modules away.
LEMMA DestroyParts ==
  ASSUME Stack, Loading, Modules, Reaching, DestroyExports,
         cache \in [DOMAIN cache -> Seq(Paths)], deleted \in [Paths -> Nat]
  PROVE  /\ Stack' /\ Loading' /\ Modules' /\ Reaching'
         /\ cache' \in [DOMAIN cache' -> Seq(Paths)]
         /\ deleted' \in [Paths -> Nat]
<1>1. /\ phase' = "exiting"
      /\ UNCHANGED <<dir, phase, loading, calls, all, injected, parsed, cycles>>
  BY DEF DestroyExports
<1>2. PICK p \in DOMAIN cache :
        /\ deleted' = [n \in Paths |-> deleted[n] + Occurrences(n, cache[p])]
        /\ cache' = [q \in DOMAIN cache \ {p} |-> cache[q]]
  BY DEF DestroyExports
<1>3. /\ DOMAIN cache' \subseteq DOMAIN cache
      /\ \A q \in DOMAIN cache' : cache'[q] = cache[q]
      /\ cache' \in [DOMAIN cache' -> Seq(Paths)]
  BY <1>2
<1>4. ASSUME NEW n \in Paths
      PROVE  Occurrences(n, cache[p]) \in Nat
  <2>1. /\ DOMAIN cache[p] = 1 .. Len(cache[p]) /\ Len(cache[p]) \in Nat
    BY LenProperties
  <2>2. IsFiniteSet(DOMAIN cache[p])
    <3>1. 1 \in Int /\ Len(cache[p]) \in Int
      BY <2>1
    <3>2. IsFiniteSet(1 .. Len(cache[p]))
      BY <3>1, FS_Interval
    <3> QED
      BY <2>1, <3>2
  <2>3. IsFiniteSet({i \in DOMAIN cache[p] : cache[p][i] = n})
    BY <2>2, FS_Subset
  <2> QED
    BY <2>3, FS_CardinalityType DEF Occurrences
<1>5. deleted' \in [Paths -> Nat]
  BY <1>2, <1>4
<1>6. Stack'
  <2>1. Stacked(calls') /\ dir \in Directories
    BY <1>1 DEF Stack
  <2> QED
    BY <1>1, <2>1, StackStays
<1>7. Loading'
  <2>1. OnStack' = OnStack
    BY <1>1 DEF OnStack
  <2> QED
    BY <1>1, <1>3, <2>1, StackFacts, LoadingStays
<1>8. Modules'
  BY <1>1 DEF Modules
<1>9. /\ Acyclic' = Acyclic /\ \A f : ReachableFrom(f)' = ReachableFrom(f)
      /\ ChainOn(calls)' /\ (Acyclic => GatheredOn(calls)')
  BY <1>1, FilesStay, PartsStay DEF Reaching
<1>10. \A q \in DOMAIN cache' : q.file \in ReachableFrom(Main)'
  BY <1>3, <1>9 DEF Reaching
<1>11. Acyclic => \A q \in DOMAIN cache' :
                    FilesIn(cache'[q]) = ReachableFrom(q.file)' \cup {q.file}
  BY <1>3, <1>9 DEF Reaching
<1>12. Reaching'
  BY <1>9, <1>10, <1>11 DEF Reaching, FilesIn
<1> QED
  BY <1>3, <1>5, <1>6, <1>7, <1>8, <1>12

-----------------------------------------------------------------------------
(***************************************************************************)
(* The inductive invariant.                                                *)
(***************************************************************************)

Types ==
  /\ phase \in {"resolve", "failed", "compile", "exiting"}
  /\ cache \in [DOMAIN cache -> Seq(Paths)]
  /\ all \in Seq(Paths)
  /\ parsed \in [Files -> Nat]
  /\ deleted \in [Paths -> Nat]

\* With one spelling a file that was parsed is known, and is not parsed again.
Once ==
  OneSpelling =>
    /\ \A f \in Files : parsed[f] <= 1
    /\ phase # "exiting" =>
         /\ \A p \in Known : p.detours = 0
         /\ \A f \in Files \ {Main} :
              parsed[f] = 1 => [file |-> f, detours |-> 0] \in Known

\* When the main file has no imports left, its call is the only one.
Finished == phase = "compile" => Len(calls) = 1 /\ calls[1].todo = << >>

LInv == Types /\ Stack /\ Loading /\ Modules /\ Reaching /\ CyclesAreReal /\ Once /\ Finished

\* The steps that leave the modules as they are.
LEMMA QuietLInv ==
  ASSUME LInv, UNCHANGED <<dir, cache, calls, all, injected, loading, parsed, cycles, deleted>>,
         phase' \in {"resolve", "failed", "compile", "exiting"},
         phase' # "exiting" => phase # "exiting",
         phase' = "compile" => Len(calls) = 1 /\ calls[1].todo = << >>
  PROVE  LInv'
<1>1. Modules' /\ Reaching'
  BY QuietParts DEF LInv
<1>2. Stack'
  <2>1. Stacked(calls') /\ dir \in Directories
    BY DEF Stack, LInv
  <2> QED
    BY <2>1, StackStays
<1>3. OnStack' = OnStack /\ Known' = Known /\ OneSpelling' = OneSpelling
  BY FilesStay DEF OnStack, Known
<1>4. Loading'
  BY <1>3, StackFacts, LoadingStays DEF LInv
<1>5. Once'
  BY <1>3 DEF LInv, Once
<1>6. Types' /\ CyclesAreReal' /\ Finished'
  BY DEF LInv, Types, CyclesAreReal, Finished
<1> QED
  BY <1>1, <1>2, <1>4, <1>5, <1>6 DEF LInv

\* A cycle is reported of a module that is on the stack, or that was empty.
LEMMA CircularIsReal ==
  ASSUME LInv, Circular
  PROVE  CyclesAreReal'
<1>1. /\ UNCHANGED dir /\ Wanted \in loading
      /\ cycles' = cycles \cup {[path |-> Wanted, real |-> Wanted \in OnStack]}
  BY DEF Circular, Throw
<1>2. Wanted \in OnStack \/ dir[Wanted.file].condition = "empty"
  BY <1>1 DEF LInv, Loading
<1>3. ASSUME NEW c \in cycles'
      PROVE  c.real \/ dir[c.path.file].condition = "empty"
  <2>1. CASE c \in cycles
    BY <2>1 DEF LInv, CyclesAreReal
  <2>2. CASE c = [path |-> Wanted, real |-> Wanted \in OnStack]
    BY <1>2, <2>2, Zenon
  <2> QED
    BY <1>1, <2>1, <2>2
<1> QED
  BY <1>1, <1>3 DEF CyclesAreReal

LEMMA ParseOnce ==
  ASSUME LInv, Parse
  PROVE  Once'
<1>1. /\ phase = "resolve" /\ Caller.todo # << >> /\ UNCHANGED <<dir, phase>>
      /\ Wanted \notin DOMAIN cache /\ Wanted \notin loading
      /\ parsed' = [parsed EXCEPT ![Wanted.file] = @ + 1]
  BY DEF Parse, Importing, NotLoading, Cached
<1>2. Known' = Known \cup {Wanted} /\ OneSpelling' = OneSpelling
  BY <1>1, ParseParts, FilesStay DEF LInv
<1> SUFFICES ASSUME OneSpelling
             PROVE  Once'
  BY <1>2 DEF Once
<1>3. /\ Head(Caller.todo) \in ImportsOf(Caller.path.file)
      /\ Wanted = Resolve(Caller.path, Head(Caller.todo))
      /\ Wanted \in Paths /\ Wanted.file = Head(Caller.todo).file
      /\ Wanted.file \in Files /\ Caller.path.file \in Files
      /\ Head(Caller.todo).how \in {"plain", "around", "name"}
  <2>1. Caller \in Call
    BY StackFacts DEF LInv
  <2>2. Head(Caller.todo) \in Imports /\ Caller.path.file \in Files
    BY <1>1, <2>1, HeadTailProperties DEF Call, Paths
  <2> QED
    BY <1>1, <2>2, WantedFacts DEF LInv, Imports, Spellings
<1>4. Head(Caller.todo).how # "around" /\ Wanted.file # Main
  <2>1. PICK i \in DOMAIN dir[Caller.path.file].imports :
          dir[Caller.path.file].imports[i] = Head(Caller.todo)
    BY <1>3 DEF ImportsOf, Range
  <2> QED
    BY <1>3, <2>1 DEF OneSpelling
<1>5. Caller.path.detours = 0
  <2>1. Caller.path \in OnStack \/ Caller.path = [file |-> Main, detours |-> 0]
    <3>1. Len(calls) \in Nat \ {0}
      BY StackFacts DEF LInv
    <3>2. \A n \in Nat \ {0} : n = 1 \/ n \in 2 .. n
      OBVIOUS
    <3> QED
      BY <3>1, <3>2 DEF LInv, Stack, Stacked, Caller, OnStack
  <2> QED
    BY <1>1, <2>1 DEF LInv, Once, Known
<1>6. Wanted.detours = 0
  BY <1>3, <1>4, <1>5 DEF Resolve
<1>7. Wanted = [file |-> Wanted.file, detours |-> 0]
  BY <1>3, <1>6 DEF Paths
<1>8. Wanted \notin Known
  BY <1>1 DEF Known, LInv, Loading
<1>9. parsed \in [Files -> Nat] /\ parsed[Wanted.file] <= 1 /\ parsed[Wanted.file] # 1
  BY <1>1, <1>3, <1>4, <1>7, <1>8 DEF LInv, Types, Once
<1>10. parsed'[Wanted.file] = 1 /\ \A f \in Files : f # Wanted.file => parsed'[f] = parsed[f]
  BY <1>1, <1>3, <1>9
<1>11. \A f \in Files : parsed'[f] <= 1
  BY <1>10 DEF LInv, Once
<1>12. \A p \in Known' : p.detours = 0
  BY <1>1, <1>2, <1>6 DEF LInv, Once
<1>13. ASSUME NEW f \in Files \ {Main}, parsed'[f] = 1
       PROVE  [file |-> f, detours |-> 0] \in Known'
  BY <1>1, <1>2, <1>7, <1>10, <1>13 DEF LInv, Once
<1> QED
  BY <1>11, <1>12, <1>13 DEF Once

LEMMA InitLInv == Init => LInv
<1> SUFFICES ASSUME Init
             PROVE  LInv
  OBVIOUS
<1> DEFINE c == [path |-> [file |-> Main, detours |-> 0],
                 todo |-> dir[Main].imports, nodes |-> << >>]
<1>1. /\ dir \in Directories /\ calls = <<c>> /\ phase = "resolve" /\ cache = NoExports
      /\ loading = {} /\ all = << >> /\ injected = {} /\ cycles = {}
      /\ parsed = [f \in Files |-> IF f = Main THEN 1 ELSE 0]
      /\ deleted = [p \in Paths |-> 0]
  BY DEF Init
<1>2. /\ c \in Call /\ c.path = [file |-> Main, detours |-> 0]
      /\ c.todo = dir[Main].imports /\ c.nodes = << >> /\ c.path.file = Main
  <2>1. dir[Main].imports \in Seq(Imports)
    BY <1>1, DirectoriesAssumption, FilesAssumption
  <2> QED
    BY <2>1, FilesAssumption, DetoursAssumption DEF Call, Paths
<1> HIDE DEF c
<1>3. /\ calls \in Seq(Call) /\ calls # << >> /\ Len(calls) = 1 /\ calls[1] = c
      /\ \A i \in 1 .. Len(calls) : i = 1
  BY <1>1, <1>2
<1>4. /\ Range(c.todo) = ImportsOf(Main) /\ Range(c.nodes) = {} /\ Range(all) = {}
      /\ FilesIn(c.nodes) = {}
  BY <1>1, <1>2 DEF ImportsOf, FilesIn, Range
<1>5. DOMAIN cache = {} /\ OnStack = {} /\ Known = {}
  BY <1>1, <1>3 DEF NoExports, OnStack, Known
<1>6. Stack
  BY <1>1, <1>2, <1>3, <1>4 DEF Stack, Stacked
<1>7. Loading
  BY <1>1, <1>3, <1>5 DEF Loading
<1>8. Types
  BY <1>1, <1>5 DEF Types
<1>9. Modules
  BY <1>1, <1>2, <1>3, <1>4, <1>5 DEF Modules, ImportedOn, Imported, HandedOn
<1>10. Reaching
  BY <1>1, <1>2, <1>3, <1>4, <1>5 DEF Reaching, ChainOn, GatheredOn, Gathered
<1>11. CyclesAreReal /\ Finished
  BY <1>1 DEF CyclesAreReal, Finished
<1>12. Once
  BY <1>1, <1>5 DEF Once
<1> QED
  BY <1>6, <1>7, <1>8, <1>9, <1>10, <1>11, <1>12 DEF LInv

LEMMA NextLInv == LInv /\ [Next]_vars => LInv'
<1> SUFFICES ASSUME LInv, [Next]_vars
             PROVE  LInv'
  OBVIOUS
<1> USE DEF LInv
<1>1. CASE UNCHANGED vars \/ Resolved \/ Exit \/ Stopped
  <2>1. /\ UNCHANGED <<dir, cache, calls, all, injected, loading, parsed, cycles, deleted>>
        /\ phase' \in {"resolve", "failed", "compile", "exiting"}
        /\ phase' # "exiting" => phase # "exiting"
    BY <1>1 DEF vars, Resolved, Exit, Stopped, Types
  <2>2. phase' = "compile" => Len(calls) = 1 /\ calls[1].todo = << >>
    BY <1>1 DEF vars, Resolved, Exit, Stopped, Finished, InMain, Caller
  <2> QED
    BY <2>1, <2>2, QuietLInv
<1>2. CASE NotFound \/ Circular \/ CannotRead \/ ParseError
  <2>1. Throw /\ phase = "resolve"
    BY <1>2 DEF NotFound, Circular, CannotRead, ParseError, Importing
  <2>2. UNCHANGED <<dir, cache, all, injected, parsed, deleted>> /\ phase' \in {"resolve", "failed"}
    BY <2>1 DEF Throw
  <2>3. Stack' /\ Loading' /\ Modules' /\ Reaching' /\ Known' = Known
    BY <1>2, ThrowParts
  <2>4. CyclesAreReal'
    <3>1. CASE Circular
      BY <3>1, CircularIsReal
    <3>2. CASE NotFound \/ CannotRead \/ ParseError
      BY <2>2, <3>2 DEF NotFound, CannotRead, ParseError, CyclesAreReal
    <3> QED
      BY <1>2, <3>1, <3>2
  <2>5. Once'
    BY <2>1, <2>2, <2>3, FilesStay DEF Once
  <2> QED
    BY <2>2, <2>3, <2>4, <2>5 DEF Types, Finished
<1>3. CASE LoadCached
  <2>1. /\ UNCHANGED <<dir, phase, cache, parsed, cycles, deleted>> /\ phase = "resolve"
    BY <1>3 DEF LoadCached, Importing
  <2>2. Stack' /\ Loading' /\ Modules' /\ Reaching' /\ all' \in Seq(Paths) /\ Known' = Known
    BY <1>3, LoadCachedParts DEF Types
  <2>3. Once'
    BY <2>1, <2>2, FilesStay DEF Once
  <2> QED
    BY <2>1, <2>2, <2>3 DEF Types, Finished, CyclesAreReal
<1>4. CASE Parse
  <2>1. /\ UNCHANGED <<dir, phase, cache, all, cycles, deleted>> /\ phase = "resolve"
        /\ parsed' = [parsed EXCEPT ![Wanted.file] = @ + 1]
    BY <1>4 DEF Parse, Importing
  <2>2. Stack' /\ Loading' /\ Modules' /\ Reaching'
    BY <1>4, ParseParts
  <2>3. Once'
    BY <1>4, ParseOnce
  <2>4. parsed' \in [Files -> Nat]
    <3>1. Wanted.file \in Files
      BY <1>4, WantedFacts DEF Parse, Importing
    <3> QED
      BY <2>1, <3>1 DEF Types
  <2> QED
    BY <2>1, <2>2, <2>3, <2>4 DEF Types, Finished, CyclesAreReal
<1>5. CASE Loaded
  <2>1. /\ UNCHANGED <<dir, phase, parsed, cycles, deleted>> /\ phase = "resolve"
    BY <1>5 DEF Loaded
  <2>2. /\ Stack' /\ Loading' /\ Modules' /\ Reaching'
        /\ cache' \in [DOMAIN cache' -> Seq(Paths)] /\ all' \in Seq(Paths)
        /\ Known' = Known
    BY <1>5, LoadedParts DEF Types
  <2>3. Once'
    BY <2>1, <2>2, FilesStay DEF Once
  <2> QED
    BY <2>1, <2>2, <2>3 DEF Types, Finished, CyclesAreReal
<1>6. CASE DestroyExports
  <2>1. /\ UNCHANGED <<dir, phase, all, parsed, cycles>> /\ phase = "exiting"
    BY <1>6 DEF DestroyExports
  <2>2. /\ Stack' /\ Loading' /\ Modules' /\ Reaching'
        /\ cache' \in [DOMAIN cache' -> Seq(Paths)] /\ deleted' \in [Paths -> Nat]
    BY <1>6, DestroyParts DEF Types
  <2>3. Once'
    BY <2>1, FilesStay DEF Once
  <2> QED
    BY <2>1, <2>2, <2>3 DEF Types, Finished, CyclesAreReal
<1> QED
  BY <1>1, <1>2, <1>3, <1>4, <1>5, <1>6 DEF Next

LEMMA LInvHolds == Spec => []LInv
  BY InitLInv, NextLInv, PTL DEF Spec

-----------------------------------------------------------------------------
(***************************************************************************)
(* The theorems.                                                           *)
(***************************************************************************)

\* load_canonical (module.hh:341-459) never loads a path that it is loading or
\* has cached, and the paths in progress are pairwise different.
THEOREM LoaderTypes == Spec => []TypeOK
<1>1. LInv => TypeOK
  <2> SUFFICES ASSUME LInv
               PROVE  TypeOK
    OBVIOUS
  <2> DEFINE n == Len(calls)
             S == 2 .. n
             f == [i \in S |-> calls[i].path]
  <2>1. n \in Nat \ {0}
    BY StackFacts DEF LInv
  <2>2. IsFiniteSet(S) /\ Cardinality(S) = n - 1
    <3>1. 2 \in Int /\ n \in Int
      BY <2>1
    <3> HIDE DEF n
    <3>2. IsFiniteSet(2 .. n) /\ Cardinality(2 .. n) = IF 2 > n THEN 0 ELSE n - 2 + 1
      BY <3>1, FS_Interval
    <3> QED
      BY <2>1, <3>2
  <2>3. \A i, j \in S : calls[i].path = calls[j].path => i = j
    BY DEF LInv, Loading
  <2>4. OnStack = {calls[i].path : i \in S}
    BY DEF OnStack
  <2> HIDE DEF S
  <2>5. f \in Bijection(S, OnStack)
    BY <2>3, <2>4 DEF Bijection, Injection, Surjection, IsInjective
  <2>6. Cardinality(OnStack) = n - 1
    BY <2>2, <2>5, FS_Bijection DEF ExistsBijection
  <2>7. OnStack \subseteq loading /\ loading \cap DOMAIN cache = {} /\ DOMAIN cache \subseteq Paths
    BY DEF LInv, Loading
  <2> QED
    BY <2>6, <2>7 DEF LInv, Types, TypeOK
<1> QED
  BY <1>1, LInvHolds, PTL

\* "Circular import" (module.hh:352) is said only of a path that is in
\* progress further up, or that was left in loading_ by an empty source.
THEOREM ReportedCyclesAreReal == Spec => []CyclesAreReal
<1>1. LInv => CyclesAreReal
  BY DEF LInv
<1> QED
  BY <1>1, LInvHolds, PTL

\* With one spelling for each, no file is parsed twice: the registry of
\* module.hh:343 and loading_ between them know every path that was parsed.
THEOREM FilesAreParsedOnce == Spec => []ParsedOncePerSpelling
<1>1. LInv => ParsedOncePerSpelling
  BY DEF LInv, Once, ParsedOncePerSpelling
<1> QED
  BY <1>1, LInvHolds, PTL

\* Without cycles, what load_canonical caches for a module (module.hh:431-459)
\* has the declarations of all that the module reaches and of nothing else.
THEOREM CachedExportsAreComplete == Spec => []ExportsAreComplete
<1>1. LInv => ExportsAreComplete
  <2> SUFFICES ASSUME LInv, Acyclic, NEW p \in DOMAIN cache
               PROVE  {cache[p][i].file : i \in DOMAIN cache[p]} = ReachableFrom(p.file) \cup {p.file}
    BY DEF ExportsAreComplete
  <2>1. FilesIn(cache[p]) = ReachableFrom(p.file) \cup {p.file}
    BY DEF LInv, Reaching
  <2>2. FilesIn(cache[p]) = {cache[p][i].file : i \in DOMAIN cache[p]}
    BY DEF FilesIn, Range
  <2> QED
    BY <2>1, <2>2
<1> QED
  BY <1>1, LInvHolds, PTL

\* The main file gets the declarations of exactly the modules that it
\* reaches (module.hh:495-586), also along cycles, and whichever call loaded
\* a module first.
THEOREM AllThatIsReachedIsMerged == Spec => []AllIsReachable
<1>1. LInv => AllIsReachable
  <2> SUFFICES ASSUME LInv, phase = "compile"
               PROVE  {all[i].file : i \in DOMAIN all} = ReachableFrom(Main)
    BY DEF AllIsReachable
  <2>1. /\ Len(calls) = 1 /\ calls[1].todo = << >> /\ OnStack = {} /\ Known = DOMAIN cache
        /\ calls[1].path = [file |-> Main, detours |-> 0]
    <3>1. Len(calls) = 1 /\ calls[1].todo = << >>
      BY DEF LInv, Finished
    <3>2. 2 .. Len(calls) = {}
      BY <3>1
    <3>3. OnStack = {}
      BY <3>2 DEF OnStack
    <3>4. calls[1].path = [file |-> Main, detours |-> 0]
      BY DEF LInv, Stack, Stacked
    <3> QED
      BY <3>1, <3>3, <3>4 DEF Known
  <2>2. Range(all) = DOMAIN cache
    <3>1. Range(all) \subseteq DOMAIN cache /\ \A p \in DOMAIN cache : Held(p, calls, all)
      BY DEF LInv, Modules
    <3>2. 2 .. Len(calls) = {}
      BY <2>1
    <3> QED
      BY <3>1, <3>2 DEF Held
  <2> DEFINE S == {p.file : p \in DOMAIN cache}
  <2>3. S \subseteq ReachableFrom(Main) /\ S \subseteq Fine
    BY DEF LInv, Reaching, Loading
  <2>4. ASSUME NEW path, Imported(path, << >>, Known), NEW g \in ImportedBy(path.file)
        PROVE  g \in S
    <3>1. PICK i \in DOMAIN dir[path.file].imports :
             dir[path.file].imports[i].file = g /\ g \in Fine
      BY DEF ImportedBy
    <3>2. dir[path.file].imports[i] \in ImportsOf(path.file) /\ dir[path.file].imports[i] \notin Range(<< >>)
      BY DEF ImportsOf, Range
    <3>3. Resolve(path, dir[path.file].imports[i]) \in DOMAIN cache
      BY <2>1, <2>4, <3>1, <3>2 DEF Imported
    <3>4. Resolve(path, dir[path.file].imports[i]).file = g
      BY <3>1 DEF Resolve
    <3> QED
      BY <3>3, <3>4
  <2>5. ImportedBy(Main) \subseteq S
    <3>1. Imported(calls[1].path, << >>, Known) /\ calls[1].path.file = Main
      BY <2>1 DEF LInv, Modules, ImportedOn
    <3> QED
      BY <2>4, <3>1
  <2>6. ClosedUnderImports(S)
    <3> SUFFICES ASSUME NEW p \in DOMAIN cache, NEW g \in ImportedBy(p.file)
                 PROVE  g \in S
      BY DEF ClosedUnderImports
    <3>1. Imported(p, << >>, Known)
      BY DEF LInv, Modules
    <3> QED
      BY <2>4, <3>1
  <2>7. S = ReachableFrom(Main)
    BY <2>3, <2>5, <2>6, ReachesLeast
  <2>8. {all[i].file : i \in DOMAIN all} = {p.file : p \in Range(all)}
    BY DEF Range
  <2> QED
    BY <2>2, <2>7, <2>8
<1> QED
  BY <1>1, LInvHolds, PTL
=============================================================================
