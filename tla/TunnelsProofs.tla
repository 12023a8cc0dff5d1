--------------------------- MODULE TunnelsProofs ---------------------------
(***************************************************************************)
(* The hidden pointers of every chain of functions: what the emitter       *)
(* passes, where it points, and what arrives there.                        *)
(***************************************************************************)
EXTENDS Tunnels, FiniteSetTheorems, SequenceTheorems, TLAPS

Numbers == INSTANCE BlocksProofs

-----------------------------------------------------------------------------
(* The inductive invariant.                                                *)

\* The active functions are the first of the chain, and every one but the last
\* stands at the call that made the next.
Active ==
  /\ prog \in Programs
  /\ phase \in {"check", "rejected", "emit", "run", "done", "crashed"}
  /\ pc \in Seq(Nat \ {0}) /\ Len(pc) \in Levels
  /\ \A l \in 1 .. Len(pc) - 1 :
       pc[l] \in DOMAIN Body(l) /\ Calls(Body(l)[pc[l]]) /\ ~NotInferred(l, Body(l)[pc[l]])

\* Only what is accepted is emitted, and only what can be emitted runs.
Compiled ==
  /\ phase \notin {"check", "rejected"} => Accepted
  /\ phase = "run" \/ Len(pc) > 1 => Emittable
  /\ phase \in {"check", "rejected", "emit"} => pc = <<1>> /\ result = NoResult

\* Every active function has the pointers that its caller's emitter picked.
Given ==
  /\ args \in Seq(Seq(SlotSpace \cup {NullPointer})) /\ Len(args) = Len(pc)
  /\ args[1] = << >>
  /\ \A l \in 2 .. Len(pc) : args[l] = Arguments(l - 1, pc[l - 1])

\* No alloca that keeps a pointer is written.
Written == DOMAIN mem \subseteq {s \in SlotSpace : s.use # "out"}

\* The function that a call returned to last has not called again, and is past
\* that call if no function it called is active.
Latest ==
  /\ result.level \in 0 .. Len(pc) /\ result.stmt \in Nat
  /\ result.level = Len(pc) => pc[Len(pc)] > result.stmt

TInv == Active /\ Compiled /\ Given /\ Written /\ Latest /\ ReserveGetsValue /\ NamedOutputsArrive

-----------------------------------------------------------------------------
(* Programs.                                                               *)

\* The operators below depend on the state only by the program.
LEMMA Frame ==
  ASSUME prog' = prog
  PROVE  /\ \A l : Body(l)' = Body(l)
         /\ \A l : Outputs(l)' = Outputs(l)
         /\ \A l : ParamCount(l)' = ParamCount(l)
         /\ \A l, s : VarSlot(l, s)' = VarSlot(l, s)
         /\ \A l, st : NotInferred(l, st)' <=> NotInferred(l, st)
         /\ \A l, name : IsOwnOutput(l, name)' = IsOwnOutput(l, name)
         /\ \A l, s, name : DeclaredBy(l, s, name)' = DeclaredBy(l, s, name)
         /\ \A l, s, name : Lookup(l, s, name)' = Lookup(l, s, name)
         /\ \A l, s, k : Passed(l, s, k)' = Passed(l, s, k)
         /\ \A l, s : Arguments(l, s)' = Arguments(l, s)
         /\ Accepted' = Accepted
         /\ Emittable' = Emittable
         /\ DecAgrees' = DecAgrees /\ AllIsSeen' = AllIsSeen
         /\ TypesAgree' = TypesAgree
<1> USE DEF Outputs, BodyOutputs, Targets, Tunnels, Unique, Body, Target, HasDec, LastLevel,
       DeclaredType, Named, VarSlot, Slot, NotInferred, DeclaredBy, Declares
<1>1. \A l : Body(l)' = Body(l)
  OBVIOUS
<1>2. \A l : Outputs(l)' = Outputs(l)
  OBVIOUS
<1>3. \A l : ParamCount(l)' = ParamCount(l)
  BY DEF ParamCount
<1>4. \A l, s : VarSlot(l, s)' = VarSlot(l, s)
  OBVIOUS
<1>5. \A l, s, name : Lookup(l, s, name)' = Lookup(l, s, name)
  BY DEF NoSlot, Lookup
<1>6. \A l, s, name : Injected(l, s, name)' = Injected(l, s, name)
  BY DEF NoSlot, Injected
<1>7. \A l, st : NotInferred(l, st)' <=> NotInferred(l, st)
  OBVIOUS
<1>8. \A l, name : IsOwnOutput(l, name)' = IsOwnOutput(l, name)
  BY DEF IsOwnOutput
<1>9. \A l, s, name : DeclaredBy(l, s, name)' = DeclaredBy(l, s, name)
  OBVIOUS
<1>10. \A l, s, name : SlotFor(l, s, name)' = SlotFor(l, s, name)
  <2> SUFFICES ASSUME NEW l, NEW s, NEW name PROVE SlotFor(l, s, name)' = SlotFor(l, s, name)
    OBVIOUS
  <2>1. IsOwnOutput(l, name)' = IsOwnOutput(l, name)
    BY DEF IsOwnOutput
  <2> QED
    BY <1>5, <1>6, <2>1 DEF SlotFor, NoSlot
<1>11. \A l, s, k : Passed(l, s, k)' = Passed(l, s, k)
  <2> SUFFICES ASSUME NEW l, NEW s, NEW k PROVE Passed(l, s, k)' = Passed(l, s, k)
    OBVIOUS
  <2> HIDE DEF Outputs
  <2> QED
    BY <1>10, <1>2 DEF Passed, NoSlot
<1>12. \A l, s : Arguments(l, s)' = Arguments(l, s)
  <2> SUFFICES ASSUME NEW l, NEW s PROVE Arguments(l, s)' = Arguments(l, s)
    OBVIOUS
  <2> HIDE DEF Outputs
  <2> QED
    BY <1>11, <1>2, <1>3 DEF Arguments, NullPointer
<1>13. Accepted' = Accepted
  BY DEF Accepted, DecAccepted, NamesAccepted, ReserveAccepted, Reserves, Levels, NamesOf, Signature, SeenOutputs
<1>14. Emittable' = Emittable
  BY DEF Emittable, Levels, ParamCount
<1>15. DecAgrees' = DecAgrees
  BY DEF DecAgrees
<1>16. AllIsSeen' = AllIsSeen
  BY DEF AllIsSeen, Levels, SeenOutputs, Reserves
<1>17. TypesAgree' = TypesAgree
  BY DEF TypesAgree, Levels, BoundOutputs, ToSet
<1> QED
  BY <1>1, <1>2, <1>3, <1>4, <1>5, <1>16, <1>17, <1>11, <1>12, <1>8, <1>9, <1>7, <1>13, <1>14, <1>15

LEMMA Bodies ==
  ASSUME prog \in Programs
  PROVE  /\ LastLevel \in Nat \ {0} /\ Levels = 1 .. LastLevel
         /\ \A l \in Levels : Body(l) \in Seq(Statements)
         /\ \A s \in DOMAIN Body(1) : Body(1)[s].op # "tunnel"
         /\ \A s \in DOMAIN Body(LastLevel) : ~Calls(Body(LastLevel)[s])
<1>1. WellFormed(prog)
  BY ProgramsAssumption
<1>2. prog.bodies \in Seq(Seq(Statements)) /\ prog.bodies # << >>
  BY <1>1 DEF WellFormed
<1>3. LastLevel \in Nat \ {0} /\ Levels = 1 .. LastLevel
  BY <1>2 DEF LastLevel, Levels
<1>4. \A l \in Levels : Body(l) \in Seq(Statements)
  BY <1>2 DEF Levels, Body
<1>5. \A s \in DOMAIN Body(1) : Body(1)[s].op # "tunnel"
  BY <1>1 DEF WellFormed, Body
<1>6. \A s \in DOMAIN Body(LastLevel) : ~Calls(Body(LastLevel)[s])
  BY <1>1 DEF WellFormed, Body, LastLevel, Calls
<1> QED
  BY <1>3, <1>4, <1>5, <1>6

\* What the fields of a statement are.
LEMMA Fields ==
  ASSUME NEW st \in Statements
  PROVE  /\ st.op \in {"tunnel", "slot", "reserve", "call"}
         /\ st.op = "tunnel" => st.type \in Types /\ st.name \in Names
         /\ st.op = "slot" => st.type \in Types /\ st.name \in Names
         /\ st.op = "reserve" => /\ st.type \in Types \cup {Infer} /\ st.name \in Names
                                /\ st.bind \in Names \cup {None} /\ st.via \in {"plain", "method"}
BY DEF Statements

-----------------------------------------------------------------------------
(* The lists of outputs.                                                   *)

LEMMA MaxIs ==
  ASSUME NEW n \in Nat, NEW S, S \subseteq 1 .. n, S # {}
  PROVE  Max(S) \in S /\ \A j \in S : j <= Max(S)
<1>1. PICK i \in S : \A j \in S : j <= i
  BY Numbers!GreatestNumber
<1> QED
  BY <1>1 DEF Max

LEMMA MinIs ==
  ASSUME NEW S, S \subseteq Nat, S # {}
  PROVE  Min(S) \in S /\ \A j \in S : Min(S) <= j
<1>1. PICK i \in S : \A j \in S : i <= j
  BY Numbers!LeastNumber
<1> QED
  BY <1>1 DEF Min

Rank(s, S) == Cardinality({t \in S : t <= s})

LEMMA RankType ==
  ASSUME NEW n \in Nat, NEW S \in SUBSET (1 .. n), NEW i \in Int
  PROVE  /\ IsFiniteSet(S) /\ Cardinality(S) \in Nat
         /\ IsFiniteSet({t \in S : t <= i})
         /\ Rank(i, S) \in Nat /\ Rank(i, S) <= Cardinality(S)
<1>1. IsFiniteSet(1 .. n)
  BY FS_Interval
<1>2. IsFiniteSet(S)
  BY <1>1, FS_Subset
<1>3. {t \in S : t <= i} \in SUBSET S
  OBVIOUS
<1>4. IsFiniteSet({t \in S : t <= i}) /\ Rank(i, S) <= Cardinality(S)
  BY <1>2, <1>3, FS_Subset DEF Rank
<1> QED
  BY <1>2, <1>4, FS_CardinalityType DEF Rank

\* Two elements of a set have different ranks.
LEMMA RankOrders ==
  ASSUME NEW n \in Nat, NEW S \in SUBSET (1 .. n), NEW i \in S, NEW j \in S, i < j
  PROVE  Rank(i, S) < Rank(j, S)
<1> DEFINE A == {t \in S : t <= i}
           B == {t \in S : t <= j}
<1>1. i \in Int /\ j \in Int /\ S \subseteq Int
  OBVIOUS
<1>2. A \in SUBSET B /\ j \in B /\ j \notin A
  <2>1. \A t \in S : t <= i => t <= j
    BY <1>1
  <2>2. ~(j <= i) /\ j <= j
    BY <1>1
  <2> QED
    BY <2>1, <2>2
<1>3. IsFiniteSet(B) /\ Cardinality(A) \in Nat /\ Cardinality(B) \in Nat
  <2>1. IsFiniteSet(B) /\ Rank(i, S) \in Nat /\ Rank(j, S) \in Nat
    BY <1>1, RankType
  <2> QED
    BY <2>1 DEF Rank
<1> HIDE DEF A, B
<1>4. Cardinality(A) <= Cardinality(B) /\ Cardinality(A) # Cardinality(B)
  BY <1>2, <1>3, FS_Subset
<1>5. Cardinality(A) < Cardinality(B)
  BY <1>3, <1>4
<1> QED
  BY <1>5 DEF Rank, A, B

\* Every rank up to the number of elements is somebody's.
LEMMA RankIsTaken ==
  ASSUME NEW n \in Nat, NEW S \in SUBSET (1 .. n), NEW k \in 1 .. Cardinality(S)
  PROVE  \E i \in S : Rank(i, S) = k
<1> DEFINE R == {i \in 0 .. n : Rank(i, S) >= k}
<1>1. {t \in S : t <= n} = S /\ {t \in S : t <= 0} = {}
  <2>1. \A t \in S : t <= n /\ ~(t <= 0)
    OBVIOUS
  <2> QED
    BY <2>1
<1>2. Rank(n, S) = Cardinality(S) /\ Rank(0, S) = 0
  BY <1>1, FS_EmptySet DEF Rank
<1>3. Cardinality(S) \in Nat
  <2>1. n \in Int
    OBVIOUS
  <2> QED
    BY <2>1, RankType
<1>4. n \in R /\ R \subseteq Nat /\ 0 \notin R
  BY <1>2, <1>3
<1> HIDE DEF R
<1>5. PICK i \in R : \A j \in R : i <= j
  BY <1>4, Numbers!LeastNumber
<1>6. i \in 1 .. n /\ Rank(i, S) >= k
  BY <1>4, <1>5 DEF R
<1>7. i - 1 \in 0 .. n /\ i - 1 \notin R
  BY <1>5, <1>6, <1>4
<1>8. Rank(i - 1, S) \in Nat /\ Rank(i, S) \in Nat /\ IsFiniteSet({t \in S : t <= i - 1})
  <2>1. i \in Int /\ i - 1 \in Int
    BY <1>6
  <2> QED
    BY <2>1, RankType
<1>9. Rank(i - 1, S) < k
  BY <1>7, <1>8 DEF R
<1>10. i \in S
  <2> SUFFICES ASSUME i \notin S PROVE FALSE
    OBVIOUS
  <2>1. \A t \in S : t <= i <=> t <= i - 1
    BY <1>6
  <2>2. {t \in S : t <= i} = {t \in S : t <= i - 1}
    BY <2>1
  <2> QED
    BY <2>2, <1>6, <1>8, <1>9 DEF Rank
<1>11. {t \in S : t <= i} = {t \in S : t <= i - 1} \cup {i}
  <2>1. \A t \in S : t <= i <=> t <= i - 1 \/ t = i
    BY <1>6
  <2> QED
    BY <2>1, <1>10
<1>12. i \notin {t \in S : t <= i - 1}
  BY <1>6
<1>13. Rank(i, S) = Rank(i - 1, S) + 1
  BY <1>8, <1>11, <1>12, FS_AddElement DEF Rank
<1> QED
  BY <1>6, <1>8, <1>9, <1>10, <1>13

Out == [type : Types, name : Names]

\* The targets of a set of tunnels are a list in which every one of them is.
LEMMA TargetsAre ==
  ASSUME prog \in Programs, NEW l \in Levels, NEW S \in SUBSET Tunnels(l)
  PROVE  /\ Targets(l, S) \in Seq(Out)
         /\ \A s \in S : \E k \in DOMAIN Targets(l, S) : Targets(l, S)[k] = Target(Body(l)[s])
<1> DEFINE n == Len(Body(l))
           U == Unique(l, S)
           It(k) == CHOOSE s \in U : Rank(s, U) = k
<1>1. n \in Nat /\ DOMAIN Body(l) = 1 .. n
  BY Bodies
<1>2. S \in SUBSET (1 .. n) /\ U \in SUBSET S /\ U \in SUBSET (1 .. n)
  BY <1>1 DEF Tunnels, Unique
<1>3. \A s \in S : Target(Body(l)[s]) \in Out
  <2> SUFFICES ASSUME NEW s \in S PROVE Target(Body(l)[s]) \in Out
    OBVIOUS
  <2>1. Body(l)[s] \in Statements /\ Body(l)[s].op = "tunnel"
    BY <1>1, Bodies DEF Tunnels
  <2>2. Body(l)[s].type \in Types /\ Body(l)[s].name \in Names
    BY <2>1, Fields
  <2> QED
    BY <2>2 DEF Target, Out
<1>4. Targets(l, S) = [k \in 1 .. Cardinality(U) |-> Target(Body(l)[It(k)])]
  BY DEF Targets, Rank
<1>5. 1 \in Int /\ Cardinality(U) \in Nat
  <2> HIDE DEF U, n
  <2>1. 1 \in Int
    OBVIOUS
  <2> QED
    BY <2>1, <1>1, <1>2, RankType
<1>6. \A k \in 1 .. Cardinality(U) : It(k) \in U /\ Rank(It(k), U) = k
  <2> HIDE DEF U, n
  <2> QED
    BY <1>1, <1>2, RankIsTaken
<1>7. Targets(l, S) \in Seq(Out)
  <2> HIDE DEF U, n, It
  <2>1. \A k \in 1 .. Cardinality(U) : Target(Body(l)[It(k)]) \in Out
    BY <1>2, <1>3, <1>6
  <2> QED
    BY <1>4, <1>5, <2>1
<1>8. ASSUME NEW s \in S
      PROVE  \E k \in DOMAIN Targets(l, S) : Targets(l, S)[k] = Target(Body(l)[s])
  <2> DEFINE E == {t \in S : Target(Body(l)[t]) = Target(Body(l)[s])}
  <2>1. E \subseteq Nat /\ E # {}
    <3>1. S \subseteq Nat /\ E \subseteq S /\ s \in E
      BY <1>1, <1>2
    <3> QED
      BY <3>1
  <2>2. PICK u \in E : \A t \in E : u <= t
    <3> HIDE DEF E
    <3> QED
      BY <2>1, Numbers!LeastNumber
  <2>3. u \in S /\ Target(Body(l)[u]) = Target(Body(l)[s])
    OBVIOUS
  <2>4. u \in U
    <3> SUFFICES ASSUME NEW t \in S, t < u PROVE Target(Body(l)[t]) # Target(Body(l)[u])
      BY <2>3 DEF Unique
    <3>1. t \in 1 .. n /\ u \in 1 .. n
      BY <1>2, <2>3
    <3>2. ~(u <= t)
      BY <3>1
    <3> QED
      BY <3>2, <2>2, <2>3
  <2> HIDE DEF E, U, n, It
  <2>5. Rank(u, U) \in Nat /\ Rank(u, U) <= Cardinality(U) /\ IsFiniteSet({t \in U : t <= u})
    <3>1. u \in Int
      BY <2>3, <1>2
    <3> QED
      BY <3>1, <1>1, <1>2, RankType
  <2>6. Rank(u, U) # 0
    <3>1. u \in Int
      BY <2>3, <1>2
    <3>2. u \in {t \in U : t <= u}
      BY <3>1, <2>4
    <3> QED
      BY <3>2, <2>5, FS_EmptySet DEF Rank
  <2>7. Rank(u, U) \in 1 .. Cardinality(U)
    BY <2>5, <2>6, <1>5
  <2>8. It(Rank(u, U)) = u
    <3> DEFINE i == It(Rank(u, U))
    <3>1. i \in U /\ Rank(i, U) = Rank(u, U)
      BY <2>7, <1>6
    <3> HIDE DEF i
    <3>2. i \in Int /\ u \in Int
      BY <3>1, <2>4, <1>2
    <3>3. ~(i < u) /\ ~(u < i)
      <4>1. i < u => Rank(i, U) < Rank(u, U)
        BY <3>1, <2>4, <1>1, <1>2, RankOrders
      <4>2. u < i => Rank(u, U) < Rank(i, U)
        BY <3>1, <2>4, <1>1, <1>2, RankOrders
      <4> QED
        BY <4>1, <4>2, <3>1, <2>5
    <3>4. i = u
      BY <3>2, <3>3
    <3> QED
      BY <3>4 DEF i
  <2>9. Targets(l, S)[Rank(u, U)] = Target(Body(l)[s])
    BY <1>4, <2>7, <2>8, <2>3
  <2>10. DOMAIN Targets(l, S) = 1 .. Cardinality(U)
    BY <1>4
  <2> QED
    BY <2>7, <2>9, <2>10
<1> QED
  BY <1>7, <1>8

LEMMA OutputsAre ==
  ASSUME prog \in Programs, NEW l \in Levels
  PROVE  /\ BodyOutputs(l) \in Seq(Out) /\ Outputs(l) \in Seq(Out)
         /\ ParamCount(l) \in Nat
         /\ \A s \in Tunnels(l) : \E k \in DOMAIN BodyOutputs(l) : BodyOutputs(l)[k] = Target(Body(l)[s])
<1>1. /\ BodyOutputs(l) \in Seq(Out)
      /\ \A s \in Tunnels(l) : \E k \in DOMAIN BodyOutputs(l) : BodyOutputs(l)[k] = Target(Body(l)[s])
  BY TargetsAre DEF BodyOutputs
<1>2. prog.dec.outputs \in Seq(Out)
  BY ProgramsAssumption DEF WellFormed, Out
<1> HIDE DEF Out
<1>3. Outputs(l) \in Seq(Out)
  BY <1>1, <1>2 DEF Outputs
<1>4. ParamCount(l) \in Nat
  <2>1. Len(BodyOutputs(l)) \in Nat /\ Len(prog.dec.outputs) \in Nat
    BY <1>1, <1>2
  <2> QED
    BY <2>1 DEF ParamCount
<1> QED
  BY <1>1, <1>3, <1>4

\* The outputs of a name: the last of them, and whose they are.
LEMMA NamedAre ==
  ASSUME prog \in Programs, NEW l \in Levels, NEW name, Named(Outputs(l), name) # {}
  PROVE  /\ Max(Named(Outputs(l), name)) \in DOMAIN Outputs(l)
         /\ Min(Named(Outputs(l), name)) \in DOMAIN Outputs(l)
         /\ Outputs(l)[Max(Named(Outputs(l), name))].name = name
<1> DEFINE n == Len(Outputs(l))
           N == Named(Outputs(l), name)
<1>1. n \in Nat /\ DOMAIN Outputs(l) = 1 .. n
  BY OutputsAre
<1>2. N \subseteq 1 .. n /\ N \subseteq Nat /\ N \subseteq DOMAIN Outputs(l)
  BY <1>1 DEF Named
<1>3. \A k \in N : Outputs(l)[k].name = name
  BY DEF Named
<1>4. Max(N) \in N /\ Min(N) \in N
  <2> HIDE DEF n, N
  <2>1. N # {}
    BY DEF N
  <2> QED
    BY <2>1, <1>1, <1>2, MaxIs, MinIs
<1> QED
  BY <1>2, <1>3, <1>4

-----------------------------------------------------------------------------
(* Slots.                                                                  *)

\* The allocas of a function that hold values.
Mine(l) == {p \in SlotSpace : p.level = l /\ p.use # "out"}

\* Only a function that is not the last one calls.
LEMMA CallsAre ==
  ASSUME prog \in Programs, NEW l \in Levels, NEW s \in DOMAIN Body(l), Calls(Body(l)[s])
  PROVE  l + 1 \in Levels /\ l \in Nat \ {0} /\ s \in Nat \ {0}
<1>1. l # LastLevel /\ l \in 1 .. LastLevel /\ LastLevel \in Nat
  BY Bodies
<1>2. Body(l) \in Seq(Statements)
  BY Bodies
<1>3. s \in Nat \ {0}
  BY <1>2
<1>4. l + 1 \in 1 .. LastLevel /\ l \in Nat \ {0}
  BY <1>1
<1> QED
  BY <1>3, <1>4, Bodies

LEMMA DeclaredTypeIs ==
  ASSUME prog \in Programs, NEW l \in Levels, NEW s \in DOMAIN Body(l),
         Declares(Body(l)[s]), ~NotInferred(l, Body(l)[s])
  PROVE  DeclaredType(l, Body(l)[s]) \in Types /\ VarSlot(l, s) \in Mine(l) /\ VarSlot(l, s) # NoSlot
<1> DEFINE st == Body(l)[s]
<1>1. st \in Statements /\ s \in Nat /\ l \in Nat \ {0}
  BY Bodies
<1>2. CASE st.type # Infer
  <2>1. st.type \in Types
    BY <1>1, <1>2, Fields DEF Declares
  <2>2. DeclaredType(l, st) \in Types
    BY <2>1, <1>2 DEF DeclaredType
  <2> HIDE DEF st
  <2> QED
    BY <2>2, <1>1 DEF VarSlot, Slot, Mine, SlotSpace, NoSlot, st
<1>3. CASE st.type = Infer
  <2>1. st.op = "reserve"
    BY <1>1, <1>3, Fields, NamesAssumption DEF Declares
  <2>2. l + 1 \in Levels
    BY <2>1, CallsAre DEF Calls
  <2>3. Outputs(l + 1) \in Seq(Out)
    BY <2>2, OutputsAre
  <2>4. DeclaredType(l, st) \in Types
    <3>1. CASE st.bind = None
      <4>1. Len(Outputs(l + 1)) = 1
        BY <2>1, <1>3, <3>1 DEF NotInferred
      <4>2. Outputs(l + 1)[1] \in Out
        BY <4>1, <2>3
      <4> QED
        BY <4>2, <1>3, <3>1 DEF DeclaredType, Out
    <3>2. CASE st.bind # None
      <4>1. Named(Outputs(l + 1), st.bind) # {}
        BY <2>1, <1>3, <3>2 DEF NotInferred
      <4>2. Min(Named(Outputs(l + 1), st.bind)) \in DOMAIN Outputs(l + 1)
        BY <4>1, <2>2, NamedAre
      <4>3. Outputs(l + 1)[Min(Named(Outputs(l + 1), st.bind))] \in Out
        BY <4>2, <2>3
      <4> QED
        BY <4>3, <1>3, <3>2 DEF DeclaredType, Out
    <3> QED
      BY <3>1, <3>2
  <2> HIDE DEF st
  <2> QED
    BY <2>4, <1>1 DEF VarSlot, Slot, Mine, SlotSpace, NoSlot, st
<1> QED
  BY <1>2, <1>3

\* A name that is declared before s is that of an alloca of the function.
LEMMA DeclaredByIs ==
  ASSUME prog \in Programs, NEW l \in Levels, NEW s \in Nat, NEW name,
         DeclaredBy(l, s, name) # {}
  PROVE  /\ Max(DeclaredBy(l, s, name)) \in DeclaredBy(l, s, name)
         /\ \A t \in DeclaredBy(l, s, name) : t <= Max(DeclaredBy(l, s, name))
         /\ Lookup(l, s, name) = VarSlot(l, Max(DeclaredBy(l, s, name)))
         /\ Lookup(l, s, name) \in Mine(l) /\ Lookup(l, s, name) # NoSlot
<1> DEFINE D == DeclaredBy(l, s, name)
<1>1. Len(Body(l)) \in Nat /\ DOMAIN Body(l) = 1 .. Len(Body(l))
  BY Bodies
<1>2. D \subseteq 1 .. Len(Body(l)) /\ D # {}
  BY <1>1 DEF DeclaredBy
<1>3. Max(D) \in D /\ \A t \in D : t <= Max(D)
  <2> HIDE DEF D
  <2> QED
    BY <1>1, <1>2, MaxIs
<1>4. /\ Max(D) \in DOMAIN Body(l) /\ Declares(Body(l)[Max(D)]) /\ ~NotInferred(l, Body(l)[Max(D)])
  BY <1>3 DEF DeclaredBy
<1>5. VarSlot(l, Max(D)) \in Mine(l) /\ VarSlot(l, Max(D)) # NoSlot
  <2> HIDE DEF D
  <2> QED
    BY <1>4, DeclaredTypeIs
<1>6. Lookup(l, s, name) = VarSlot(l, Max(D))
  <2>1. D # {}
    OBVIOUS
  <2> QED
    BY <2>1 DEF Lookup
<1> QED
  BY <1>3, <1>5, <1>6

\* What emit_reserve binds to a name is an alloca of the caller.
LEMMA InjectedIs ==
  ASSUME prog \in Programs, NEW l \in Levels, NEW s \in DOMAIN Body(l), Calls(Body(l)[s]),
         ~NotInferred(l, Body(l)[s]), NEW name, Injected(l, s, name) # NoSlot
  PROVE  Injected(l, s, name) \in Mine(l)
<1> DEFINE st == Body(l)[s]
           N == Named(Outputs(l + 1), name)
<1>1. st.op = "reserve"
  BY DEF Injected
<1>2. VarSlot(l, s) \in Mine(l)
  BY <1>1, DeclaredTypeIs DEF Declares
<1>3. l + 1 \in Levels /\ l \in Nat \ {0} /\ s \in Nat \ {0}
  BY CallsAre
<1>4. CASE st.bind # None
  BY <1>1, <1>2, <1>4 DEF Injected
<1>5. CASE st.bind = None
  <2>1. N # {}
    BY <1>1, <1>5 DEF Injected
  <2>2. Max(N) \in DOMAIN Outputs(l + 1) /\ Outputs(l + 1) \in Seq(Out)
    BY <1>3, <2>1, NamedAre, OutputsAre
  <2>3. Max(N) \in Nat /\ Outputs(l + 1)[Max(N)].type \in Types
    <3> HIDE DEF N
    <3>1. Max(N) \in Nat /\ Outputs(l + 1)[Max(N)] \in Out
      BY <2>2
    <3> QED
      BY <3>1 DEF Out
  <2>4. Slot(l, s, Max(N), "scratch", Outputs(l + 1)[Max(N)].type) \in Mine(l)
    <3> HIDE DEF N
    <3> QED
      BY <2>3, <1>3 DEF Slot, Mine, SlotSpace
  <2> QED
    BY <1>1, <1>2, <1>5, <2>1, <2>4 DEF Injected
<1> QED
  BY <1>4, <1>5

\* No call passes the alloca of a pointer: the function's own outputs are not
\* candidates, and only they have one.
LEMMA PassedIs ==
  ASSUME prog \in Programs, NEW l \in Levels, NEW s \in DOMAIN Body(l), Calls(Body(l)[s]),
         ~NotInferred(l, Body(l)[s]), NEW k \in DOMAIN Outputs(l + 1)
  PROVE  Passed(l, s, k) \in Mine(l)
<1> DEFINE o == Outputs(l + 1)[k]
           found == SlotFor(l, s, o.name)
<1>1. l + 1 \in Levels /\ l \in Nat \ {0} /\ s \in Nat \ {0}
  BY CallsAre
<1>2. k \in Nat /\ o.type \in Types
  <2>1. Outputs(l + 1) \in Seq(Out)
    BY <1>1, OutputsAre
  <2>2. k \in Nat /\ o \in Out
    BY <2>1
  <2> QED
    BY <2>2 DEF Out
<1>3. Slot(l, s, k, "temp", o.type) \in Mine(l)
  <2> HIDE DEF o
  <2> QED
    BY <1>1, <1>2 DEF Slot, Mine, SlotSpace
<1>4. found # NoSlot => found \in Mine(l)
  <2> SUFFICES ASSUME found # NoSlot PROVE found \in Mine(l)
    OBVIOUS
  <2> HIDE DEF o
  <2>1. Named(Outputs(l), o.name) = {}
    BY DEF SlotFor, IsOwnOutput
  <2>2. CASE Injected(l, s, o.name) # NoSlot
    BY <2>1, <2>2, InjectedIs DEF SlotFor
  <2>3. CASE Injected(l, s, o.name) = NoSlot
    <3>1. found = Lookup(l, s, o.name)
      BY <2>1, <2>3 DEF SlotFor
    <3>2. DeclaredBy(l, s, o.name) # {}
      BY <3>1, <2>1 DEF Lookup
    <3> QED
      BY <3>1, <3>2, <1>1, DeclaredByIs
  <2> QED
    BY <2>2, <2>3
<1> QED
  BY <1>3, <1>4 DEF Passed

\* A call has an argument for every output, and if the LLVM function has no
\* more parameters than that they are in order.
LEMMA ArgumentsAre ==
  ASSUME prog \in Programs, NEW l \in Levels, NEW s \in DOMAIN Body(l), Calls(Body(l)[s]),
         ~NotInferred(l, Body(l)[s]), Emittable
  PROVE  /\ Arguments(l, s) \in Seq(Mine(l) \cup {NullPointer})
         /\ DOMAIN Outputs(l + 1) \subseteq DOMAIN Arguments(l, s)
         /\ ParamCount(l + 1) = Len(Outputs(l + 1)) =>
              \A k \in DOMAIN Outputs(l + 1) : Arguments(l, s)[k] = Passed(l, s, k)
<1> DEFINE n == Len(Outputs(l + 1))
           m == ParamCount(l + 1) - n
           A == [i \in 1 .. m |-> NullPointer]
           B == [k \in 1 .. n |-> Passed(l, s, k)]
<1>1. l + 1 \in Levels /\ l + 1 # 1
  BY CallsAre
<1>2. n \in Nat /\ DOMAIN Outputs(l + 1) = 1 .. n /\ ParamCount(l + 1) \in Nat
  BY <1>1, OutputsAre
<1>3. m \in Nat
  <2>1. ParamCount(l + 1) >= n
    BY <1>1 DEF Emittable
  <2> QED
    BY <2>1, <1>2
<1>4. Arguments(l, s) = A \o B
  BY DEF Arguments
<1>5. \A k \in 1 .. n : Passed(l, s, k) \in Mine(l)
  BY <1>2, PassedIs
<1>6. A \in Seq(Mine(l) \cup {NullPointer}) /\ Len(A) = m
  <2> HIDE DEF m
  <2> QED
    BY <1>3
<1>7. B \in Seq(Mine(l) \cup {NullPointer}) /\ Len(B) = n
  <2> HIDE DEF n
  <2> QED
    BY <1>2, <1>5
<1>8. m = 0 <=> ParamCount(l + 1) = n
  BY <1>2
<1> HIDE DEF A, B, n, m
<1>9. A \o B \in Seq(Mine(l) \cup {NullPointer}) /\ Len(A \o B) = m + n
  BY <1>6, <1>7
<1>10. 1 .. n \subseteq DOMAIN (A \o B)
  BY <1>9, <1>2, <1>3
<1>11. ASSUME m = 0, NEW k \in 1 .. n
       PROVE  (A \o B)[k] = Passed(l, s, k)
  <2>1. (A \o B)[k] = B[k]
    BY <1>11, <1>6, <1>7, <1>2
  <2> QED
    BY <2>1 DEF B
<1> QED
  BY <1>2, <1>4, <1>8, <1>9, <1>10, <1>11 DEF n

-----------------------------------------------------------------------------
(* The checker's verdict.                                                  *)

\* Where the dec lists what the def tunnels, everybody counts the same outputs.
LEMMA Agreed ==
  ASSUME prog \in Programs, DecAgrees, NEW l \in Levels
  PROVE  /\ ParamCount(l) = Len(Outputs(l))
         /\ ToSet(Outputs(l)) = ToSet(BodyOutputs(l))
<1>1. CASE HasDec(l)
  <2>1. l = LastLevel
    BY <1>1 DEF HasDec
  <2>2. /\ ToSet(prog.dec.outputs) = ToSet(BodyOutputs(l))
        /\ Len(prog.dec.outputs) = Len(BodyOutputs(l))
    BY <1>1, <2>1 DEF DecAgrees
  <2> QED
    BY <2>2 DEF ParamCount, Outputs
<1>2. CASE ~HasDec(l)
  BY <1>2 DEF ParamCount, Outputs
<1> QED
  BY <1>1, <1>2

LEMMA SeenByTheChecker ==
  ASSUME AllIsSeen, NEW l \in Levels
  PROVE  Signature(l) = Outputs(l)
BY DEF AllIsSeen, Signature, Outputs

LEMMA AcceptedCanBeEmitted ==
  ASSUME prog \in Programs, Accepted, DecAgrees, AllIsSeen
  PROVE  Emittable /\ \A r \in Reserves : ~NotInferred(r[1], Body(r[1])[r[2]])
<1>1. Emittable
  <2> SUFFICES ASSUME NEW l \in Levels PROVE ParamCount(l) >= Len(Outputs(l))
    BY DEF Emittable
  <2>1. ParamCount(l) \in Nat /\ ParamCount(l) = Len(Outputs(l))
    BY OutputsAre, Agreed
  <2> QED
    BY <2>1
<1>2. ASSUME NEW r \in Reserves
      PROVE  ~NotInferred(r[1], Body(r[1])[r[2]])
  <2>0. PICK l \in Levels : r \in {<<l, s>> : s \in {t \in DOMAIN Body(l) : Body(l)[t].op = "reserve"}}
    BY DEF Reserves
  <2>1. PICK s \in DOMAIN Body(l) : r = <<l, s>> /\ Body(l)[s].op = "reserve"
    BY <2>0
  <2> DEFINE st == Body(l)[s]
  <2>2. ReserveAccepted(l, st)
    BY <2>1 DEF Accepted
  <2>3. l + 1 \in Levels
    BY <2>1, CallsAre DEF Calls
  <2>4. Signature(l + 1) = Outputs(l + 1)
    BY <2>3, SeenByTheChecker
  <2>5. st \in Statements
    BY Bodies
  <2> HIDE DEF st
  <2>6. st.via \in {"plain", "method"}
    BY <2>1, <2>5, Fields DEF st
  <2>7. st.via = "method" => st.type # Infer
    BY <2>1 DEF AllIsSeen, st
  <2>8. ~NotInferred(l, st)
    <3> SUFFICES ASSUME st.op = "reserve", st.type = Infer
                 PROVE  ~(IF st.bind = None THEN Len(Outputs(l + 1)) # 1 ELSE Named(Outputs(l + 1), st.bind) = {})
      BY DEF NotInferred
    <3>1. st.via = "plain"
      BY <2>6, <2>7
    <3>2. CASE st.bind = None
      BY <2>2, <2>4, <3>1, <3>2 DEF ReserveAccepted
    <3>3. CASE st.bind # None
      <4>1. st.bind \in NamesOf(Outputs(l + 1))
        BY <2>2, <2>4, <3>3 DEF ReserveAccepted
      <4> QED
        BY <3>3, <4>1 DEF NamesOf, Named
    <3> QED
      BY <3>2, <3>3
  <2> QED
    BY <2>1, <2>8 DEF st
<1> QED
  BY <1>1, <1>2

-----------------------------------------------------------------------------
(* Steps.                                                                  *)

Past(q, n) == [SubSeq(q, 1, n) EXCEPT ![n] = @ + 1]

\* The first n functions, the last of them past its statement.
LEMMA PastIs ==
  ASSUME NEW q \in Seq(Nat \ {0}), NEW n \in 1 .. Len(q)
  PROVE  /\ Past(q, n) \in Seq(Nat \ {0}) /\ Len(Past(q, n)) = n /\ Past(q, n)[n] = q[n] + 1
         /\ \A l \in 1 .. n - 1 : Past(q, n)[l] = q[l]
<1> DEFINE h == SubSeq(q, 1, n)
           r == Past(q, n)
<1>1. h \in Seq(Nat \ {0}) /\ Len(h) = n /\ \A l \in 1 .. n : h[l] = q[l]
  BY SubSeqProperties
<1>2. n \in Nat \ {0} /\ n \in 1 .. n /\ q[n] \in Nat \ {0}
  OBVIOUS
<1> HIDE DEF h
<1>3. DOMAIN h = 1 .. n /\ h[n] = q[n]
  BY <1>1, <1>2
<1>4. r = [h EXCEPT ![n] = h[n] + 1]
  BY DEF h, Past
<1>5. r \in Seq(Nat \ {0}) /\ Len(r) = n /\ \A l \in 1 .. n : r[l] = IF l = n THEN h[n] + 1 ELSE h[l]
  <2>1. h[n] + 1 \in Nat \ {0}
    BY <1>2, <1>3
  <2> HIDE DEF r
  <2> QED
    BY <2>1, <1>1, <1>2, <1>4, ExceptSeq
<1> HIDE DEF r
<1> QED
  BY <1>1, <1>2, <1>3, <1>5 DEF r

Stands(l, s) == s \in DOMAIN Body(l) /\ Calls(Body(l)[s]) /\ ~NotInferred(l, Body(l)[s])

\* The active functions and their pointers in the next state.
LEMMA Framed ==
  ASSUME prog \in Programs, prog' = prog, phase' \in {"check", "rejected", "emit", "run", "done", "crashed"},
         pc' \in Seq(Nat \ {0}), Len(pc') \in Levels, \A l \in 1 .. Len(pc') - 1 : Stands(l, pc'[l]),
         args' \in Seq(Seq(SlotSpace \cup {NullPointer})), Len(args') = Len(pc'), args'[1] = << >>,
         \A l \in 2 .. Len(pc') : args'[l] = Arguments(l - 1, pc'[l - 1])
  PROVE  Active' /\ Given'
<1>1. Levels' = Levels
  BY DEF Levels
<1>2. ASSUME NEW l \in 1 .. Len(pc') - 1
      PROVE  (pc[l] \in DOMAIN Body(l) /\ Calls(Body(l)[pc[l]]) /\ ~NotInferred(l, Body(l)[pc[l]]))'
  <2>1. \A i : Body(i)' = Body(i)
    BY Frame
  <2>2. (NotInferred(l, Body(l)[pc[l]]))' <=> NotInferred(l, Body(l)[pc'[l]])
    <3>1. \A i, st : NotInferred(i, st)' <=> NotInferred(i, st)
      BY Frame
    <3> QED
      BY <2>1, <3>1
  <2> QED
    BY <2>1, <2>2 DEF Calls, Stands
<1>3. ASSUME NEW l \in 2 .. Len(pc') PROVE args'[l] = Arguments(l - 1, pc[l - 1])'
  <2>1. Arguments(l - 1, pc[l - 1])' = Arguments(l - 1, pc'[l - 1])
    BY Frame DEF Arguments, NullPointer, Passed
  <2> QED
    BY <2>1
<1>4. (SlotSpace \cup {NullPointer})' = SlotSpace \cup {NullPointer}
  BY <1>1 DEF SlotSpace, NullPointer, Slot
<1>5. Active'
  BY <1>1, <1>2 DEF Active
<1>6. Given'
  BY <1>3, <1>4 DEF Given
<1> QED
  BY <1>5, <1>6

\* The active functions and their pointers after a return.
LEMMA Returns ==
  ASSUME Active, Compiled, Given, Latest, phase = "run", Len(pc) > 1,
         NEW m, NEW output, NEW value, Return(m, output, value)
  PROVE  /\ Active' /\ Compiled' /\ Given' /\ Latest'
         /\ Len(pc)' = Len(pc) - 1 /\ prog' = prog /\ mem' = ReadBack(m)
         /\ result' = [level |-> Len(pc) - 1, stmt |-> pc[Len(pc) - 1], output |-> output, value |-> value]
<1> DEFINE n == Len(pc) - 1
<1>1. /\ pc' = [SubSeq(pc, 1, n) EXCEPT ![n] = @ + 1] /\ args' = SubSeq(args, 1, n)
      /\ mem' = ReadBack(m) /\ prog' = prog /\ phase' = phase
      /\ result' = [level |-> n, stmt |-> pc[n], output |-> output, value |-> value]
  BY DEF Return, Level
<1>2. Len(pc) \in Nat /\ n \in 1 .. Len(pc) /\ n \in Nat \ {0} /\ n + 1 = Len(pc)
  BY DEF Active
<1>3. pc \in Seq(Nat \ {0})
  BY DEF Active
<1>4. /\ pc' \in Seq(Nat \ {0}) /\ Len(pc') = n /\ pc'[n] = pc[n] + 1
      /\ \A l \in 1 .. n - 1 : pc'[l] = pc[l]
  <2> HIDE DEF n
  <2>1. pc' = Past(pc, n)
    BY <1>1 DEF Past
  <2>2. n \in 1 .. Len(pc)
    BY <1>2
  <2> QED
    BY <2>1, <2>2, <1>3, PastIs
<1> DEFINE P == SlotSpace \cup {NullPointer}
<1>5. /\ args' \in Seq(Seq(P)) /\ Len(args') = n /\ \A l \in 1 .. n : args'[l] = args[l]
  <2>1. args \in Seq(Seq(P)) /\ Len(args) = Len(pc)
    BY DEF Given
  <2> HIDE DEF n, P
  <2> QED
    BY <1>1, <1>2, <2>1, SubSeqProperties
<1>6. Levels' = Levels /\ LastLevel' = LastLevel
  BY <1>1 DEF Levels, LastLevel
<1>7. n \in Levels
  <2>1. Len(pc) \in 1 .. LastLevel /\ LastLevel \in Nat /\ Levels = 1 .. LastLevel
    BY Bodies DEF Active
  <2>2. n \in 1 .. LastLevel
    BY <2>1, <1>2
  <2> QED
    BY <2>1, <2>2
<1>8. pc[n] \in Nat \ {0}
  BY <1>2, <1>3
<1> HIDE DEF n
<1>9. /\ pc' \in Seq(Nat \ {0}) /\ Len(pc') \in Levels /\ Len(args') = Len(pc')
      /\ \A l \in 1 .. Len(pc') - 1 : Stands(l, pc'[l])
  <2>1. ASSUME NEW l \in 1 .. n - 1 PROVE Stands(l, pc'[l])
    <3>1. l \in 1 .. Len(pc) - 1
      BY <1>2
    <3>2. pc'[l] = pc[l]
      BY <1>4
    <3> QED
      BY <3>1, <3>2 DEF Active, Stands
  <2> QED
    BY <1>4, <1>5, <1>7, <2>1
<1>10. Compiled'
  <2>1. Accepted' = Accepted /\ Emittable' = Emittable
    BY <1>1, Frame
  <2> QED
    BY <1>1, <2>1 DEF Compiled
<1>11. Active' /\ Given'
  <2>1. args'[1] = << >>
    BY <1>2, <1>5 DEF Given
  <2>2. ASSUME NEW l \in 2 .. n PROVE args'[l] = Arguments(l - 1, pc'[l - 1])
    <3>1. l \in 2 .. Len(pc) /\ l \in 1 .. n /\ l - 1 \in 1 .. n - 1
      BY <1>2
    <3> QED
      BY <3>1, <1>4, <1>5 DEF Given
  <2>3. prog \in Programs /\ phase' \in {"check", "rejected", "emit", "run", "done", "crashed"}
    BY <1>1 DEF Active
  <2> QED
    BY <1>1, <1>4, <1>5, <1>9, <2>1, <2>2, <2>3, Framed
<1>12. Latest'
  BY <1>1, <1>2, <1>4, <1>8 DEF Latest
<1> QED
  BY <1>1, <1>4, <1>10, <1>11, <1>12 DEF n

LEMMA StoredIs ==
  \A m, slot, value : /\ DOMAIN Stored(m, slot, value) = DOMAIN m \cup {slot}
                      /\ slot \in DOMAIN Stored(m, slot, value)
                      /\ Stored(m, slot, value)[slot] = value
BY DEF Stored

\* The read back value goes to the caller's reserved slot.
LEMMA ReadBackIsWritten ==
  ASSUME Active, Len(pc) > 1, NEW m, DOMAIN m \subseteq {s \in SlotSpace : s.use # "out"}
  PROVE  DOMAIN ReadBack(m) \subseteq {s \in SlotSpace : s.use # "out"}
<1> DEFINE l == Len(pc) - 1
           s == pc[l]
           o == Outputs(Len(pc))
           slot == Passed(l, s, 1)
           value == IF slot \in DOMAIN m THEN [m[slot] EXCEPT !.type = o[1].type]
                    ELSE [type |-> o[1].type, from |-> Garbage]
           reads == Body(l)[s].op = "reserve" /\ Body(l)[s].via = "plain" /\ Len(o) = 1
<1>1. Len(pc) \in Nat /\ l \in 1 .. Len(pc) - 1 /\ l \in 1 .. Len(pc)
  BY DEF Active
<1>2. s \in DOMAIN Body(l) /\ ~NotInferred(l, Body(l)[s])
  BY <1>1 DEF Active
<1>3. l \in Levels
  <2>1. Len(pc) \in 1 .. LastLevel /\ LastLevel \in Nat /\ Levels = 1 .. LastLevel
    BY Bodies DEF Active
  <2>2. l \in 1 .. LastLevel
    BY <2>1, <1>1
  <2> QED
    BY <2>1, <2>2
<1>4. ReadBack(m) = IF reads THEN Stored(m, VarSlot(l, s), value) ELSE m
  BY DEF ReadBack, Level
<1>5. CASE ~reads
  <2> HIDE DEF reads, value
  <2> QED
    BY <1>4, <1>5
<1>6. CASE reads
  <2>1. Declares(Body(l)[s])
    BY <1>6 DEF Declares
  <2>2. VarSlot(l, s) \in Mine(l)
    <3> HIDE DEF l, s, reads
    <3> QED
      BY <2>1, <1>2, <1>3, DeclaredTypeIs DEF Active
  <2> HIDE DEF reads, value
  <2>3. ReadBack(m) = Stored(m, VarSlot(l, s), value)
    BY <1>4, <1>6
  <2>4. DOMAIN ReadBack(m) = DOMAIN m \cup {VarSlot(l, s)}
    <3> HIDE DEF l, s
    <3> QED
      BY <2>3, StoredIs
  <2> QED
    BY <2>2, <2>4 DEF Mine
<1> QED
  BY <1>5, <1>6

\* Where the dec agrees a tunnel finds a pointer, the one that the caller's
\* emitter has picked for an output of that name.
LEMMA PointerIs ==
  ASSUME Active, Compiled, Given, Len(pc) > 1, DecAgrees,
         NEW at \in DOMAIN Body(Len(pc)), Body(Len(pc))[at].op = "tunnel"
  PROVE  LET l == Len(pc) - 1
             name == Body(Len(pc))[at].name
             ks == Named(Outputs(Len(pc)), name)
         IN  /\ l \in Levels /\ Stands(l, pc[l])
             /\ ks # {} /\ Max(ks) \in DOMAIN Outputs(Len(pc)) /\ Outputs(Len(pc))[Max(ks)].name = name
             /\ args[Len(pc)][Max(ks)] = Passed(l, pc[l], Max(ks))
             /\ \E k \in ks : Outputs(Len(pc))[k].type = Body(Len(pc))[at].type
<1> DEFINE l == Len(pc) - 1
           s == pc[l]
           o == Outputs(Len(pc))
           name == Body(Len(pc))[at].name
           ks == Named(o, name)
           pointer == args[Len(pc)][Max(ks)]
<1>1. prog \in Programs /\ Emittable /\ Len(pc) \in Levels
  BY DEF Active, Compiled
<1>2. Len(pc) \in Nat /\ l \in 1 .. Len(pc) - 1 /\ l + 1 = Len(pc) /\ Len(pc) \in 2 .. Len(pc) /\ Len(pc) - 1 = l
  BY DEF Active
<1>3. s \in DOMAIN Body(l) /\ Calls(Body(l)[s]) /\ ~NotInferred(l, Body(l)[s])
  BY <1>2 DEF Active
<1>4. l \in Levels
  <2>1. Len(pc) \in 1 .. LastLevel /\ LastLevel \in Nat /\ Levels = 1 .. LastLevel
    BY Bodies DEF Active
  <2>2. l \in 1 .. LastLevel
    BY <2>1, <1>2
  <2> QED
    BY <2>1, <2>2
<1>5. args[Len(pc)] = Arguments(l, s)
  BY <1>2 DEF Given
<1>6. ParamCount(Len(pc)) = Len(o) /\ ToSet(o) = ToSet(BodyOutputs(Len(pc)))
  BY <1>1, Agreed
<1>7. ks # {} /\ \E k \in ks : o[k].type = Body(Len(pc))[at].type
  <2>1. at \in Tunnels(Len(pc))
    BY DEF Tunnels
  <2>2. Target(Body(Len(pc))[at]) \in ToSet(BodyOutputs(Len(pc)))
    BY <2>1, <1>1, OutputsAre DEF ToSet
  <2>3. PICK k \in DOMAIN o : o[k] = Target(Body(Len(pc))[at])
    BY <2>2, <1>6 DEF ToSet
  <2>4. o[k].name = name /\ o[k].type = Body(Len(pc))[at].type
    BY <2>3 DEF Target
  <2> HIDE DEF o, name
  <2> QED
    BY <2>4 DEF Named
<1>8. Max(ks) \in DOMAIN o /\ o[Max(ks)].name = name
  <2> HIDE DEF name
  <2> QED
    BY <1>1, <1>7, NamedAre
<1>9. pointer = Passed(l, s, Max(ks))
  <2> HIDE DEF ks, l, s
  <2>1. Arguments(l, s)[Max(ks)] = Passed(l, s, Max(ks))
    BY <1>1, <1>2, <1>3, <1>4, <1>6, <1>8, ArgumentsAre
  <2> QED
    BY <2>1, <1>5
<1> QED
  BY <1>3, <1>4, <1>7, <1>8, <1>9 DEF Stands

\* The value that a tunnel stores through the caller's pointer, in the slots
\* where the caller looks for it.
LEMMA Arrives ==
  ASSUME Active, Compiled, Given, Len(pc) > 1, DecAgrees,
         NEW at \in DOMAIN Body(Len(pc)), Body(Len(pc))[at].op = "tunnel", NEW t, NEW f
  PROVE  LET l == Len(pc) - 1
             s == pc[l]
             name == Body(Len(pc))[at].name
             ks == Named(Outputs(Len(pc)), name)
             pointer == args[Len(pc)][Max(ks)]
             m == ReadBack(Stored(mem, pointer, [type |-> t, from |-> f]))
         IN  /\ ks # {}
             /\ Body(l)[s].op = "reserve" /\ Body(l)[s].via = "plain" /\ Len(Outputs(Len(pc))) = 1 =>
                  VarSlot(l, s) \in DOMAIN m /\ m[VarSlot(l, s)].from = f
             /\ ~IsOwnOutput(l, name) /\ Body(l)[s].op = "reserve" /\ Body(l)[s].bind = name =>
                  VarSlot(l, s) \in DOMAIN m /\ m[VarSlot(l, s)].from = f
             /\ ~IsOwnOutput(l, name) /\ Body(l)[s].op = "call" /\ DeclaredBy(l, s, name) # {} =>
                  Lookup(l, s, name) \in DOMAIN m /\ m[Lookup(l, s, name)].from = f
<1> DEFINE l == Len(pc) - 1
           s == pc[l]
           o == Outputs(Len(pc))
           st == Body(l)[s]
           name == Body(Len(pc))[at].name
           ks == Named(o, name)
           pointer == args[Len(pc)][Max(ks)]
           value == [type |-> t, from |-> f]
           m == Stored(mem, pointer, value)
           slot == Passed(l, s, 1)
           read == IF slot \in DOMAIN m THEN [m[slot] EXCEPT !.type = o[1].type]
                   ELSE [type |-> o[1].type, from |-> Garbage]
           reads == st.op = "reserve" /\ st.via = "plain" /\ Len(o) = 1
<1>1. prog \in Programs /\ Len(pc) \in Levels
  BY DEF Active
<1>2. Len(pc) \in Nat /\ l + 1 = Len(pc) /\ Len(pc) - 1 = l
  BY DEF Active
<1>3. /\ l \in Levels /\ Stands(l, s)
      /\ ks # {} /\ Max(ks) \in DOMAIN o /\ o[Max(ks)].name = name
      /\ pointer = Passed(l, s, Max(ks))
  BY PointerIs
<1>4. pointer \in DOMAIN m /\ m[pointer] = value
  <2>1. m = Stored(mem, pointer, value)
    OBVIOUS
  <2> HIDE DEF pointer, value, m
  <2> QED
    BY <2>1, StoredIs
<1>5. ReadBack(m) = IF reads THEN Stored(m, VarSlot(l, s), read) ELSE m
  BY DEF ReadBack, Level
<1>6. Len(o) = 1 => slot = pointer
  <2> SUFFICES ASSUME Len(o) = 1 PROVE slot = pointer
    OBVIOUS
  <2>1. o \in Seq(Out)
    BY <1>1, OutputsAre
  <2> HIDE DEF o, ks, l, s, pointer
  <2>2. Max(ks) = 1
    BY <2>1, <1>3
  <2> QED
    BY <2>2, <1>3
<1>7. reads => VarSlot(l, s) \in DOMAIN ReadBack(m) /\ ReadBack(m)[VarSlot(l, s)].from = f
  <2> SUFFICES ASSUME reads PROVE VarSlot(l, s) \in DOMAIN ReadBack(m) /\ ReadBack(m)[VarSlot(l, s)].from = f
    OBVIOUS
  <2>1. slot \in DOMAIN m /\ m[slot] = value
    BY <1>4, <1>6
  <2>2. read = [value EXCEPT !.type = o[1].type]
    <3> HIDE DEF m, slot, o, value
    <3> QED
      BY <2>1
  <2>3. read.from = f
    <3> HIDE DEF read, o
    <3> QED
      BY <2>2
  <2> HIDE DEF read, m, reads
  <2>4. ReadBack(m) = Stored(m, VarSlot(l, s), read)
    BY <1>5
  <2> HIDE DEF l, s
  <2> QED
    BY <2>3, <2>4, StoredIs
<1>8. ~reads => ReadBack(m) = m
  <2> HIDE DEF reads, read, m
  <2> QED
    BY <1>5
<1>9. ASSUME ~IsOwnOutput(l, name)
       PROVE  LET found == IF Injected(l, s, name) # NoSlot THEN Injected(l, s, name) ELSE Lookup(l, s, name) IN
              found # NoSlot => pointer = found
  <2> HIDE DEF l, s, name, pointer, ks
  <2> QED
    BY <1>2, <1>3, <1>9 DEF Passed, SlotFor
<1>10. ASSUME ~IsOwnOutput(l, name), st.op = "reserve", st.bind = name
       PROVE  VarSlot(l, s) \in DOMAIN ReadBack(m) /\ ReadBack(m)[VarSlot(l, s)].from = f
  <2>0. Body(Len(pc))[at] \in Statements
    BY <1>1, Bodies
  <2>1. name # None
    BY <2>0, Fields, NamesAssumption
  <2>2. Injected(l, s, name) = VarSlot(l, s)
    BY <1>10, <2>1 DEF Injected
  <2>3. Declares(Body(l)[s])
    BY <1>10 DEF Declares
  <2>4. VarSlot(l, s) # NoSlot
    <3> HIDE DEF l, s
    <3> QED
      BY <1>1, <1>3, <2>3, DeclaredTypeIs DEF Stands
  <2>5. pointer = VarSlot(l, s)
    <3> HIDE DEF l, s, name, pointer
    <3> QED
      BY <1>9, <1>10, <2>2, <2>4
  <2>6. CASE reads
    BY <2>6, <1>7
  <2>7. CASE ~reads
    <3>1. ReadBack(m) = m
      BY <2>7, <1>8
    <3>2. value.from = f
      OBVIOUS
    <3> HIDE DEF m, pointer, value, l, s
    <3> QED
      BY <3>1, <3>2, <2>5, <1>4
  <2> QED
    BY <2>6, <2>7
<1>11. ASSUME ~IsOwnOutput(l, name), st.op = "call", DeclaredBy(l, s, name) # {}
       PROVE  Lookup(l, s, name) \in DOMAIN ReadBack(m) /\ ReadBack(m)[Lookup(l, s, name)].from = f
  <2>1. Injected(l, s, name) = NoSlot
    BY <1>11 DEF Injected
  <2>2. s \in Nat
    <3>1. Body(l) \in Seq(Statements)
      BY <1>1, <1>3, Bodies
    <3> HIDE DEF l, s
    <3> QED
      BY <3>1, <1>3 DEF Stands
  <2>3. Lookup(l, s, name) # NoSlot
    <3> HIDE DEF l, s, name
    <3> QED
      BY <1>1, <1>3, <1>11, <2>2, DeclaredByIs
  <2>4. pointer = Lookup(l, s, name)
    <3> HIDE DEF l, s, name, pointer
    <3> QED
      BY <1>9, <1>11, <2>1, <2>3
  <2>5. ReadBack(m) = m
    BY <1>11, <1>8
  <2>6. value.from = f
    OBVIOUS
  <2> HIDE DEF m, pointer, value, l, s, name
  <2> QED
    BY <2>4, <2>5, <2>6, <1>4
<1> QED
  BY <1>3, <1>7, <1>10, <1>11

-----------------------------------------------------------------------------
(* The invariant.                                                          *)

\* The promises about what has just arrived hold of a state in which nothing has.
LEMMA Quiet ==
  ASSUME ~JustReturned'
  PROVE  ReserveGetsValue' /\ NamedOutputsArrive'
BY DEF ReserveGetsValue, NamedOutputsArrive

LEMMA Unwritten ==
  ASSUME prog' = prog, DOMAIN mem' \subseteq {s \in SlotSpace : s.use # "out"}
  PROVE  Written'
BY DEF Written, SlotSpace, Levels

\* The compiler's steps and the end of the entry.
LEMMA PhaseStep ==
  ASSUME TInv, UNCHANGED <<prog, pc, args, mem, result>>, Compiled',
         phase' \in {"check", "rejected", "emit", "run", "done", "crashed"},
         phase' = "run" => phase = "run" \/ result = NoResult
  PROVE  TInv'
<1> USE DEF TInv
<1>1. Active' /\ Given'
  BY Framed DEF Active, Given, Stands
<1>2. Written'
  BY Unwritten DEF Written
<1>3. Latest'
  BY DEF Latest
<1>4. CASE JustReturned'
  <2>1. phase = "run" /\ phase' = "run"
    BY <1>4 DEF JustReturned, NoResult
  <2>2. prog' = prog /\ phase' = phase /\ pc' = pc /\ args' = args /\ mem' = mem /\ result' = result
    BY <2>1
  <2>3. ReserveGetsValue' = ReserveGetsValue
    BY <2>2, Frame DEF ReserveGetsValue, JustReturned, Level, At, Returned, Holds, Outputs
  <2>4. NamedOutputsArrive' = NamedOutputsArrive
    BY <2>2, Frame DEF NamedOutputsArrive, JustReturned, Level, At, Returned, Holds
  <2> QED
    BY <1>1, <1>2, <1>3, <2>3, <2>4
<1>5. CASE ~JustReturned'
  BY <1>1, <1>2, <1>3, <1>5, Quiet
<1> QED
  BY <1>4, <1>5

\* A statement that is passed by.
LEMMA OnwardStep ==
  ASSUME TInv, Running, Onward, UNCHANGED <<prog, phase, args, mem, result>>
  PROVE  TInv'
<1> USE DEF TInv
<1> DEFINE n == Len(pc)
<1>1. prog' = prog /\ phase' = phase /\ args' = args /\ mem' = mem /\ result' = result
  OBVIOUS
<1>2. pc \in Seq(Nat \ {0}) /\ n \in Levels /\ n \in Nat \ {0} /\ n \in 1 .. Len(pc)
  <2>1. Levels = 1 .. LastLevel /\ LastLevel \in Nat
    BY Bodies DEF Active
  <2> QED
    BY <2>1 DEF Active
<1>3. pc[n] \in Nat \ {0} /\ pc[n] + 1 \in Nat \ {0}
  BY <1>2
<1>4. pc' = [pc EXCEPT ![n] = pc[n] + 1]
  BY DEF Onward, Level
<1>5. pc' \in Seq(Nat \ {0}) /\ Len(pc') = n /\ \A l \in 1 .. n : pc'[l] = IF l = n THEN pc[n] + 1 ELSE pc[l]
  <2> HIDE DEF n
  <2>1. Len(pc) = n
    BY DEF n
  <2> QED
    BY <1>2, <1>3, <1>4, <2>1, ExceptSeq
<1>6. pc'[n] = pc[n] + 1 /\ \A l \in 1 .. n - 1 : pc'[l] = pc[l] /\ l \in 1 .. Len(pc) - 1
  <2>1. \A l \in 1 .. n - 1 : l \in 1 .. n /\ l # n
    BY <1>2
  <2> HIDE DEF n
  <2> QED
    BY <2>1, <1>2, <1>5 DEF n
<1> HIDE DEF n
<1>7. Active' /\ Given'
  <2>1. \A l \in 1 .. n - 1 : Stands(l, pc'[l])
    BY <1>6 DEF Active, Stands
  <2>2. ASSUME NEW l \in 2 .. n PROVE args'[l] = Arguments(l - 1, pc'[l - 1])
    <3>1. l - 1 \in 1 .. n - 1 /\ l \in 2 .. Len(pc)
      BY <1>2 DEF n
    <3> QED
      BY <3>1, <1>1, <1>6 DEF Given
  <2>3. /\ args' \in Seq(Seq(SlotSpace \cup {NullPointer})) /\ Len(args') = n /\ args'[1] = << >>
        /\ prog \in Programs /\ phase' \in {"check", "rejected", "emit", "run", "done", "crashed"}
    BY <1>1 DEF Active, Given, n
  <2> QED
    BY <1>1, <1>2, <1>5, <2>1, <2>2, <2>3, Framed
<1>8. Compiled'
  <2>1. Accepted' = Accepted /\ Emittable' = Emittable
    BY Frame
  <2>2. Len(pc') = Len(pc)
    BY <1>5 DEF n
  <2> QED
    BY <1>1, <2>1, <2>2 DEF Compiled, Running
<1>9. Written'
  BY Unwritten DEF Written
<1>10. result.level = n => pc[n] > result.stmt /\ result.stmt \in Nat
  BY DEF Latest, n
<1>11. Latest'
  <2>1. result.level \in 0 .. n /\ result.stmt \in Nat
    BY DEF Latest, n
  <2>2. result.level = n => pc[n] + 1 > result.stmt
    BY <1>3, <1>10
  <2> QED
    BY <1>1, <1>5, <1>6, <2>1, <2>2 DEF Latest
<1>12. ~JustReturned'
  <2>1. result.level = n => pc[n] + 1 # result.stmt + 1
    BY <1>3, <1>10
  <2>2. Len(pc)' = n /\ pc'[n] = pc[n] + 1
    BY <1>5, <1>6
  <2> QED
    BY <1>1, <2>1, <2>2 DEF JustReturned, Level, At
<1> QED
  BY <1>7, <1>8, <1>9, <1>11, <1>12, Quiet

LEMMA CallStep ==
  ASSUME TInv, Call
  PROVE  TInv'
<1> USE DEF TInv
<1> DEFINE n == Len(pc)
           a == Arguments(n, pc[n])
           P == SlotSpace \cup {NullPointer}
<1>1. /\ phase = "run" /\ pc[n] <= Len(Body(n)) /\ Calls(Body(n)[pc[n]]) /\ ~NotInferred(n, Body(n)[pc[n]])
      /\ pc' = Append(pc, 1) /\ args' = Append(args, a)
      /\ prog' = prog /\ phase' = phase /\ result' = result
      /\ mem' = Restrict(mem, {s \in DOMAIN mem : s.level <= n})
  BY DEF Call, Running, Statement, At, Level
<1>2. pc \in Seq(Nat \ {0}) /\ n \in Levels /\ n \in Nat \ {0} /\ pc[n] \in Nat \ {0} /\ prog \in Programs
  <2>1. Levels = 1 .. LastLevel /\ LastLevel \in Nat
    BY Bodies DEF Active
  <2>2. pc \in Seq(Nat \ {0}) /\ n \in Levels /\ n \in Nat \ {0} /\ prog \in Programs
    BY <2>1 DEF Active
  <2> QED
    BY <2>2
<1>3. Stands(n, pc[n])
  <2>1. Body(n) \in Seq(Statements)
    BY <1>2, Bodies
  <2>2. pc[n] \in DOMAIN Body(n)
    <3> HIDE DEF n
    <3> QED
      BY <1>1, <1>2, <2>1
  <2> QED
    BY <1>1, <2>2 DEF Stands
<1>4. n + 1 \in Levels
  BY <1>2, <1>3, CallsAre DEF Stands
<1>5. Emittable
  BY <1>1 DEF Compiled
<1>6. a \in Seq(P)
  <2>1. a \in Seq(Mine(n) \cup {NullPointer})
    <3> HIDE DEF n
    <3> QED
      BY <1>2, <1>3, <1>5, ArgumentsAre DEF Stands
  <2>2. Mine(n) \cup {NullPointer} \subseteq P
    BY DEF Mine
  <2> HIDE DEF a, P, n
  <2> QED
    BY <2>1, <2>2
<1>7. /\ pc' \in Seq(Nat \ {0}) /\ Len(pc') = n + 1 /\ pc'[n + 1] = 1
      /\ \A l \in 1 .. n : pc'[l] = pc[l]
  BY <1>1, <1>2, AppendProperties
<1>8. /\ args' \in Seq(Seq(P)) /\ Len(args') = n + 1 /\ args'[n + 1] = a
      /\ \A l \in 1 .. n : args'[l] = args[l]
  <2>1. args \in Seq(Seq(P)) /\ Len(args) = n
    BY DEF Given
  <2> HIDE DEF a, P, n
  <2> QED
    BY <1>1, <1>2, <1>6, <2>1, AppendProperties
<1>9. args'[1] = << >>
  <2>1. 1 \in 1 .. n
    BY <1>2
  <2> QED
    BY <2>1, <1>8 DEF Given
<1> HIDE DEF n
<1>10. ASSUME NEW l \in 1 .. n PROVE Stands(l, pc'[l])
  <2>1. CASE l = n
    BY <2>1, <1>3, <1>7
  <2>2. CASE l # n
    <3>1. l \in 1 .. Len(pc) - 1
      BY <2>2, <1>2 DEF n
    <3> QED
      BY <3>1, <1>7 DEF Active, Stands
  <2> QED
    BY <2>1, <2>2
<1>11. ASSUME NEW l \in 2 .. n + 1 PROVE args'[l] = Arguments(l - 1, pc'[l - 1])
  <2>1. CASE l = n + 1
    <3>1. l - 1 = n /\ n \in 1 .. n
      BY <2>1, <1>2
    <3> HIDE DEF P
    <3> QED
      BY <3>1, <2>1, <1>7, <1>8
  <2>2. CASE l # n + 1
    <3>1. l \in 2 .. Len(pc) /\ l - 1 \in 1 .. n /\ l \in 1 .. n
      BY <2>2, <1>2 DEF n
    <3> HIDE DEF P, a
    <3> QED
      BY <3>1, <1>7, <1>8 DEF Given
  <2> QED
    BY <2>1, <2>2
<1>12. Active' /\ Given'
  <2>1. phase' \in {"check", "rejected", "emit", "run", "done", "crashed"}
    BY <1>1
  <2>2. \A l \in 1 .. Len(pc') - 1 : Stands(l, pc'[l])
    BY <1>2, <1>7, <1>10
  <2>3. \A l \in 2 .. Len(pc') : args'[l] = Arguments(l - 1, pc'[l - 1])
    BY <1>7, <1>11
  <2> HIDE DEF a
  <2> QED
    BY <1>1, <1>2, <1>4, <1>7, <1>8, <1>9, <2>1, <2>2, <2>3, Framed
<1>13. Compiled'
  <2>1. Accepted' = Accepted /\ Emittable' = Emittable
    BY <1>1, Frame
  <2> QED
    BY <1>1, <1>5, <2>1 DEF Compiled
<1>14. Written'
  <2>1. DOMAIN mem' \subseteq DOMAIN mem
    BY <1>1 DEF Restrict
  <2> QED
    BY <1>1, <2>1, Unwritten DEF Written
<1>15. result.level \in 0 .. n /\ result.stmt \in Nat
  BY DEF Latest, n
<1>16. result.level # n + 1 /\ result.level \in 0 .. n + 1
  BY <1>2, <1>15
<1>17. Latest' /\ ~JustReturned'
  BY <1>1, <1>7, <1>15, <1>16 DEF Latest, JustReturned, Level
<1> QED
  BY <1>12, <1>13, <1>14, <1>17, Quiet

\* A tunnel of a program whose dec agrees returns, and one of any program
\* writes through no pointer to a pointer.
LEMMA TunnelStep ==
  ASSUME TInv, Tunnel
  PROVE  TInv'
<1> USE DEF TInv
<1> DEFINE n == Len(pc)
           st == Body(n)[pc[n]]
           f == IF st.expr = Literal THEN <<n, pc[n]>> ELSE Load(n, pc[n], st.expr)
           value == [type |-> st.type, from |-> f]
           ks == Named(Outputs(n), st.name)
           pointer == args[n][Max(ks)]
           m == Stored(mem, pointer, value)
<1>1. /\ phase = "run" /\ pc[n] <= Len(Body(n)) /\ st.op = "tunnel"
      /\ \/ /\ ks # {} => pointer # NullPointer
            /\ Return(IF ks = {} THEN mem ELSE m, st.name, value)
         \/ phase' = "crashed" /\ UNCHANGED <<prog, pc, args, mem, result>>
  BY DEF Tunnel, Running, Statement, At, Level
<1>2. /\ pc \in Seq(Nat \ {0}) /\ n \in Levels /\ n \in Nat \ {0} /\ pc[n] \in Nat \ {0}
      /\ prog \in Programs /\ Levels = 1 .. LastLevel /\ LastLevel \in Nat
  <2>1. Levels = 1 .. LastLevel /\ LastLevel \in Nat
    BY Bodies DEF Active
  <2>2. pc \in Seq(Nat \ {0}) /\ n \in Levels /\ n \in Nat \ {0} /\ prog \in Programs
    BY <2>1 DEF Active
  <2> QED
    BY <2>1, <2>2
<1>3. pc[n] \in DOMAIN Body(n)
  <2>1. Body(n) \in Seq(Statements)
    BY <1>2, Bodies
  <2>2. pc[n] <= Len(Body(n))
    BY <1>1
  <2> HIDE DEF n
  <2> QED
    BY <1>2, <2>1, <2>2
<1>4. n > 1
  <2>1. n # 1
    BY <1>1, <1>2, <1>3, Bodies
  <2> HIDE DEF n
  <2> QED
    BY <1>2, <2>1
<1> DEFINE l == n - 1
<1>5. l \in 1 .. Len(pc) - 1 /\ l \in Levels /\ l + 1 = n /\ n \in 2 .. Len(pc)
  BY <1>2, <1>4
<1>6. Stands(l, pc[l])
  BY <1>5 DEF Active, Stands
<1>7. ks # {} /\ pointer # NullPointer => pointer \in Mine(l)
  <2> SUFFICES ASSUME ks # {}, pointer # NullPointer PROVE pointer \in Mine(l)
    OBVIOUS
  <2>1. Max(ks) \in DOMAIN Outputs(n)
    <3> DEFINE name == st.name
    <3> HIDE DEF name
    <3>1. Max(Named(Outputs(n), name)) \in DOMAIN Outputs(n)
      <4>1. Named(Outputs(n), name) # {}
        BY DEF name
      <4> QED
        BY <1>2, <4>1, NamedAre
    <3> QED
      BY <3>1 DEF name
  <2>2. args[n] = Arguments(l, pc[l])
    BY <1>5 DEF Given
  <2>3. Emittable
    BY <1>1 DEF Compiled
  <2> HIDE DEF l, ks
  <2>4. Arguments(l, pc[l]) \in Seq(Mine(l) \cup {NullPointer}) /\ DOMAIN Outputs(l + 1) \subseteq DOMAIN Arguments(l, pc[l])
    BY <1>2, <1>5, <1>6, <2>3, ArgumentsAre DEF Stands
  <2>5. Max(ks) \in DOMAIN args[n] /\ args[n] \in Seq(Mine(l) \cup {NullPointer})
    <3> HIDE DEF n
    <3> QED
      BY <1>5, <2>1, <2>2, <2>4
  <2>6. args[n][Max(ks)] \in Mine(l) \cup {NullPointer}
    <3> HIDE DEF n
    <3> QED
      BY <2>5
  <2> QED
    BY <2>6
<1>8. CASE phase' = "crashed" /\ UNCHANGED <<prog, pc, args, mem, result>>
  <2>1. phase' = "crashed" /\ UNCHANGED <<prog, pc, args, mem, result>>
    BY <1>8
  <2>2. Accepted' = Accepted /\ Emittable' = Emittable
    BY <2>1, Frame
  <2>3. Compiled'
    BY <1>1, <2>1, <2>2 DEF Compiled
  <2> QED
    BY <2>1, <2>3, PhaseStep
<1>9. CASE /\ ks # {} => pointer # NullPointer
           /\ Return(IF ks = {} THEN mem ELSE m, st.name, value)
  <2> DEFINE w == IF ks = {} THEN mem ELSE m
  <2>1. Return(w, st.name, value)
    BY <1>9
  <2>2. DOMAIN w \subseteq {s \in SlotSpace : s.use # "out"}
    <3>1. DOMAIN m = DOMAIN mem \cup {pointer}
      <4>1. m = Stored(mem, pointer, value)
        OBVIOUS
      <4> HIDE DEF m, pointer, value
      <4> QED
        BY <4>1, StoredIs
    <3>2. DOMAIN mem \subseteq {s \in SlotSpace : s.use # "out"}
      BY DEF Written
    <3> HIDE DEF m, pointer, ks
    <3> QED
      BY <1>7, <1>9, <3>1, <3>2 DEF Mine
  <2>3. /\ Active' /\ Compiled' /\ Given' /\ Latest'
        /\ Len(pc)' = l /\ prog' = prog /\ mem' = ReadBack(w)
        /\ result' = [level |-> l, stmt |-> pc[l], output |-> st.name, value |-> value]
    <3> HIDE DEF w, value, st
    <3> QED
      BY <1>1, <1>4, <2>1, Returns
  <2>4. Written'
    <3> HIDE DEF w
    <3> QED
      BY <1>4, <2>2, <2>3, ReadBackIsWritten, Unwritten
  <2>5. result'.level = l /\ result'.stmt = pc[l] /\ result'.output = st.name /\ result'.value.from = f
    <3> HIDE DEF f, st
    <3> QED
      BY <2>3
  <2> DEFINE Arrived(slot) == slot \in DOMAIN mem' /\ mem'[slot].from = f
  <2>6. DecAgrees =>
          /\ Body(l)[pc[l]].op = "reserve" /\ Body(l)[pc[l]].via = "plain" /\ Len(Outputs(n)) = 1 =>
               Arrived(VarSlot(l, pc[l]))
          /\ ~IsOwnOutput(l, st.name) /\ Body(l)[pc[l]].op = "reserve" /\ Body(l)[pc[l]].bind = st.name =>
               Arrived(VarSlot(l, pc[l]))
          /\ ~IsOwnOutput(l, st.name) /\ Body(l)[pc[l]].op = "call" /\ DeclaredBy(l, pc[l], st.name) # {} =>
               Arrived(Lookup(l, pc[l], st.name))
    <3> SUFFICES ASSUME DecAgrees
                 PROVE  /\ Body(l)[pc[l]].op = "reserve" /\ Body(l)[pc[l]].via = "plain" /\ Len(Outputs(n)) = 1 =>
                             Arrived(VarSlot(l, pc[l]))
                        /\ ~IsOwnOutput(l, st.name) /\ Body(l)[pc[l]].op = "reserve" /\ Body(l)[pc[l]].bind = st.name =>
                             Arrived(VarSlot(l, pc[l]))
                        /\ ~IsOwnOutput(l, st.name) /\ Body(l)[pc[l]].op = "call" /\ DeclaredBy(l, pc[l], st.name) # {} =>
                             Arrived(Lookup(l, pc[l], st.name))
      OBVIOUS
    <3> DEFINE Read == ReadBack(m)
    <3> HIDE DEF f
    <3>1. /\ ks # {}
          /\ Body(l)[pc[l]].op = "reserve" /\ Body(l)[pc[l]].via = "plain" /\ Len(Outputs(n)) = 1 =>
               VarSlot(l, pc[l]) \in DOMAIN Read /\ Read[VarSlot(l, pc[l])].from = f
          /\ ~IsOwnOutput(l, st.name) /\ Body(l)[pc[l]].op = "reserve" /\ Body(l)[pc[l]].bind = st.name =>
               VarSlot(l, pc[l]) \in DOMAIN Read /\ Read[VarSlot(l, pc[l])].from = f
          /\ ~IsOwnOutput(l, st.name) /\ Body(l)[pc[l]].op = "call" /\ DeclaredBy(l, pc[l], st.name) # {} =>
               Lookup(l, pc[l], st.name) \in DOMAIN Read /\ Read[Lookup(l, pc[l], st.name)].from = f
      BY <1>1, <1>3, <1>4, Arrives
    <3>2. mem' = Read
      <4>1. ks # {}
        BY <3>1
      <4>2. w = m
        BY <4>1
      <4> HIDE DEF m, w
      <4> QED
        BY <2>3, <4>2
    <3> HIDE DEF Read
    <3> QED
      BY <3>1, <3>2
  <2> HIDE DEF Arrived
  <2>7. DecAgrees' = DecAgrees
    BY <2>3, Frame
  <2>8. ReserveGetsValue'
    <3> SUFFICES ASSUME (DecAgrees /\ JustReturned /\ Returned.op = "reserve" /\ Returned.via = "plain"
                           /\ Len(Outputs(result.level + 1)) = 1)'
                 PROVE  Holds(VarSlot(result.level, result.stmt))'
      BY DEF ReserveGetsValue
    <3>1. Body(l)[pc[l]].op = "reserve" /\ Body(l)[pc[l]].via = "plain"
      BY <2>3, <2>5, Frame DEF Returned
    <3>2. Len(Outputs(n)) = 1
      BY <1>5, <2>3, <2>5, Frame
    <3>3. Arrived(VarSlot(l, pc[l]))
      BY <2>6, <2>7, <3>1, <3>2
    <3> QED
      BY <2>3, <2>5, <3>3, Frame DEF Holds, Arrived
  <2>9. NamedOutputsArrive'
    <3> SUFFICES ASSUME (DecAgrees /\ JustReturned /\ ~IsOwnOutput(result.level, result.output))'
                 PROVE  (/\ Returned.op = "reserve" /\ Returned.bind = result.output =>
                              Holds(VarSlot(result.level, result.stmt))
                         /\ Returned.op = "call" /\ DeclaredBy(result.level, result.stmt, result.output) # {} =>
                              Holds(Lookup(result.level, result.stmt, result.output)))'
      BY DEF NamedOutputsArrive
    <3>1. ~IsOwnOutput(l, st.name)
      BY <2>3, <2>5, Frame
    <3>2. ASSUME (Returned.op = "reserve" /\ Returned.bind = result.output)'
          PROVE  Holds(VarSlot(result.level, result.stmt))'
      <4>1. Body(l)[pc[l]].op = "reserve" /\ Body(l)[pc[l]].bind = st.name
        BY <3>2, <2>3, <2>5, Frame DEF Returned
      <4>2. Arrived(VarSlot(l, pc[l]))
        BY <2>6, <2>7, <3>1, <4>1
      <4> QED
        BY <2>3, <2>5, <4>2, Frame DEF Holds, Arrived
    <3>3. ASSUME (Returned.op = "call" /\ DeclaredBy(result.level, result.stmt, result.output) # {})'
          PROVE  Holds(Lookup(result.level, result.stmt, result.output))'
      <4>1. Body(l)[pc[l]].op = "call" /\ DeclaredBy(l, pc[l], st.name) # {}
        BY <3>3, <2>3, <2>5, Frame DEF Returned
      <4>2. Arrived(Lookup(l, pc[l], st.name))
        BY <2>6, <2>7, <3>1, <4>1
      <4> QED
        BY <2>3, <2>5, <4>2, Frame DEF Holds, Arrived
    <3> QED
      BY <3>2, <3>3
  <2> QED
    BY <2>3, <2>4, <2>8, <2>9
<1> QED
  BY <1>1, <1>8, <1>9

LEMMA FallStep ==
  ASSUME TInv, Fall
  PROVE  TInv'
<1> USE DEF TInv
<1>1. phase = "run" /\ prog \in Programs
  BY DEF Fall, Active
<1>2. CASE Len(pc) > 1
  <2>1. Return(mem, None, None)
    BY <1>2 DEF Fall, Level
  <2>2. /\ Active' /\ Compiled' /\ Given' /\ Latest' /\ prog' = prog /\ mem' = ReadBack(mem)
        /\ result' = [level |-> Len(pc) - 1, stmt |-> pc[Len(pc) - 1], output |-> None, value |-> None]
    BY <1>1, <1>2, <2>1, Returns
  <2>3. Written'
    BY <1>2, <2>2, ReadBackIsWritten, Unwritten DEF Written
  <2>4. ~JustReturned'
    BY <2>2 DEF JustReturned
  <2> QED
    BY <2>2, <2>3, <2>4, Quiet
<1>3. CASE ~(Len(pc) > 1)
  <2>1. phase' = "done" /\ UNCHANGED <<prog, pc, args, mem, result>>
    BY <1>3 DEF Fall, Level
  <2>2. Accepted' = Accepted /\ Emittable' = Emittable
    BY <2>1, Frame
  <2>3. Compiled'
    BY <1>1, <2>1, <2>2 DEF Compiled
  <2> QED
    BY <2>1, <2>3, PhaseStep
<1> QED
  BY <1>2, <1>3

LEMMA InitTInv == Init => TInv
<1> SUFFICES ASSUME Init PROVE TInv
  OBVIOUS
<1>1. /\ prog \in Programs /\ phase = "check" /\ pc = <<1>> /\ args = << << >> >>
      /\ mem = [s \in {} |-> None] /\ result = NoResult
  BY DEF Init
<1>2. Levels = 1 .. LastLevel /\ LastLevel \in Nat \ {0}
  BY <1>1, Bodies
<1>3. Active
  BY <1>1, <1>2 DEF Active
<1>4. Compiled
  BY <1>1 DEF Compiled
<1>5. Given
  BY <1>1 DEF Given
<1>6. Written
  BY <1>1 DEF Written
<1>7. Latest
  BY <1>1 DEF Latest, NoResult
<1>8. ReserveGetsValue /\ NamedOutputsArrive
  BY <1>1 DEF ReserveGetsValue, NamedOutputsArrive, JustReturned
<1> QED
  BY <1>3, <1>4, <1>5, <1>6, <1>7, <1>8 DEF TInv

LEMMA NextTInv == TInv /\ [Next]_vars => TInv'
<1> SUFFICES ASSUME TInv, [Next]_vars PROVE TInv'
  OBVIOUS
<1>1. CASE Check
  <2>1. UNCHANGED <<prog, pc, args, mem, result>> /\ phase = "check"
    BY <1>1 DEF Check
  <2>2. phase' = IF Accepted THEN "emit" ELSE "rejected"
    BY <1>1 DEF Check
  <2>3. Accepted' = Accepted /\ Emittable' = Emittable
    BY <2>1, Frame
  <2>4. Compiled'
    BY <2>1, <2>2, <2>3 DEF Compiled, TInv, NoResult
  <2>5. phase' \in {"rejected", "emit"}
    BY <2>2
  <2> QED
    BY <2>1, <2>4, <2>5, PhaseStep
<1>2. CASE Emit
  <2>1. UNCHANGED <<prog, pc, args, mem, result>> /\ phase = "emit"
    BY <1>2 DEF Emit
  <2>2. phase' = IF Emittable THEN "run" ELSE "crashed"
    BY <1>2 DEF Emit
  <2>3. Accepted' = Accepted /\ Emittable' = Emittable
    BY <2>1, Frame
  <2>4. result = NoResult /\ pc = <<1>> /\ Accepted
    BY <2>1 DEF TInv, Compiled
  <2>5. phase' \in {"run", "crashed"}
    BY <2>2
  <2>6. Compiled'
    BY <2>1, <2>2, <2>3, <2>4, <2>5 DEF Compiled
  <2> QED
    BY <2>1, <2>4, <2>5, <2>6, PhaseStep
<1>3. CASE PassBy
  BY <1>3, OnwardStep DEF PassBy
<1>4. CASE Call
  BY <1>4, CallStep
<1>5. CASE Tunnel
  BY <1>5, TunnelStep
<1>6. CASE Skip
  BY <1>6, OnwardStep DEF Skip
<1>7. CASE Fall
  BY <1>7, FallStep
<1>8. CASE UNCHANGED vars
  <2>1. UNCHANGED <<prog, pc, args, mem, result>> /\ phase' = phase
    BY <1>8 DEF vars
  <2>2. Accepted' = Accepted /\ Emittable' = Emittable
    BY <2>1, Frame
  <2>3. Compiled' /\ phase' \in {"check", "rejected", "emit", "run", "done", "crashed"}
    BY <2>1, <2>2 DEF Compiled, TInv, Active
  <2> QED
    BY <2>1, <2>3, PhaseStep
<1> QED
  BY <1>1, <1>2, <1>3, <1>4, <1>5, <1>6, <1>7, <1>8 DEF Next

LEMMA Invariance == Spec => []TInv
<1>1. Init => TInv
  BY InitTInv
<1>2. TInv /\ [Next]_vars => TInv'
  BY NextTInv
<1> QED
  BY <1>1, <1>2, PTL DEF Spec

-----------------------------------------------------------------------------
(* The theorems.                                                           *)

\* The pointers a function is given lead to its caller, and what is written is
\* an alloca of some function of the chain, with its declared type
\* (emit_reserve, emit_call_val).
THEOREM TunnelTypes == Spec => []TypeOK
<1>1. TInv => TypeOK
  <2> SUFFICES ASSUME TInv PROVE TypeOK
    OBVIOUS
  <2>1. ASSUME NEW l \in DOMAIN args
        PROVE  ToSet(args[l]) \subseteq {p \in SlotSpace : p.level < l} \cup {NullPointer}
    <3>0. l \in 1 .. Len(pc) /\ Len(pc) \in Nat
      BY DEF TInv, Given, Active
    <3>1. CASE l = 1
      BY <3>1 DEF TInv, Given, ToSet
    <3>2. CASE l # 1
      <4>1. l \in 2 .. Len(pc) /\ l - 1 \in 1 .. Len(pc) - 1 /\ Len(pc) > 1
        BY <3>0, <3>2
      <4>2. l - 1 \in Levels
        <5>1. Len(pc) \in 1 .. LastLevel /\ Levels = 1 .. LastLevel /\ LastLevel \in Nat
          BY Bodies DEF TInv, Active
        <5> QED
          BY <4>1, <5>1
      <4>3. Arguments(l - 1, pc[l - 1]) \in Seq(Mine(l - 1) \cup {NullPointer})
        BY <4>1, <4>2, ArgumentsAre DEF TInv, Active, Compiled
      <4>4. args[l] \in Seq(Mine(l - 1) \cup {NullPointer})
        BY <4>1, <4>3 DEF TInv, Given
      <4>5. \A p \in Mine(l - 1) : p \in SlotSpace /\ p.level < l
        BY <4>1 DEF Mine
      <4> QED
        BY <4>4, <4>5 DEF ToSet
    <3> QED
      BY <3>1, <3>2
  <2> QED
    BY <2>1 DEF TypeOK, TInv, Active, Given, Written
<1> QED
  BY <1>1, Invariance, PTL

\* However the names of locals and outputs of a chain coincide, no call passes
\* the alloca in which a function keeps its caller's pointer, so no pointer is
\* overwritten by a value (tunnel_slots in emit_call_val).
THEOREM PointersStay == Spec => []OutputPointersIntact
<1>1. TInv => OutputPointersIntact
  BY DEF TInv, Written, OutputPointersIntact
<1> QED
  BY <1>1, Invariance, PTL

\* What the checker accepts of a program that heeds DecAgrees and AllIsSeen
\* takes none of the emitter's error paths.
THEOREM AcceptedPasses == Spec => []AcceptedIsEmitted
<1>1. TInv => AcceptedIsEmitted
  BY AcceptedCanBeEmitted DEF TInv, Active, Compiled, AcceptedIsEmitted
<1> QED
  BY <1>1, Invariance, PTL

\* reserve x = f(); with one output of f holds what f has tunnelled, whatever
\* the names of the outputs and the locals on both sides.
THEOREM ReservesAreFilled == Spec => []ReserveGetsValue
<1>1. TInv => ReserveGetsValue
  BY DEF TInv
<1> QED
  BY <1>1, Invariance, PTL

\* A named output arrives in the slot the caller means for it.
THEOREM NamedArrive == Spec => []NamedOutputsArrive
<1>1. TInv => NamedOutputsArrive
  BY DEF TInv
<1> QED
  BY <1>1, Invariance, PTL

-----------------------------------------------------------------------------
(* Types.                                                                  *)

Heeds == DecAgrees /\ AllIsSeen /\ TypesAgree

\* In a heedful program the outputs of a name that a call of l binds, the
\* locals of that name and the slot bound to it have one type.
LEMMA Around ==
  ASSUME prog \in Programs, NEW l \in Levels, l + 1 \in Levels
  PROVE  l \in Levels \ {LastLevel}
<1>1. Levels = 1 .. LastLevel /\ LastLevel \in Nat
  BY Bodies
<1> QED
  BY <1>1

LEMMA NamedType ==
  ASSUME prog \in Programs, TypesAgree, NEW l \in Levels, l + 1 \in Levels, NEW s \in DOMAIN Body(l),
         NEW k \in DOMAIN Outputs(l + 1), NEW j \in DOMAIN Outputs(l + 1),
         Outputs(l + 1)[k].name = Outputs(l + 1)[j].name
  PROVE  Outputs(l + 1)[k].type = Outputs(l + 1)[j].type
<1>1. l \in Levels \ {LastLevel}
  BY Around
<1>2. Outputs(l + 1)[k] \in ToSet(Outputs(l + 1)) /\ Outputs(l + 1)[j] \in ToSet(Outputs(l + 1))
  BY DEF ToSet
<1> QED
  BY <1>1, <1>2 DEF TypesAgree

LEMMA LookupType ==
  ASSUME prog \in Programs, TypesAgree, NEW l \in Levels, l + 1 \in Levels, NEW s \in Nat,
         NEW k \in DOMAIN Outputs(l + 1), DeclaredBy(l, s, Outputs(l + 1)[k].name) # {}
  PROVE  Lookup(l, s, Outputs(l + 1)[k].name).type = Outputs(l + 1)[k].type
<1> DEFINE o == Outputs(l + 1)[k]
           D == DeclaredBy(l, s, o.name)
<1>1. Max(D) \in D /\ Lookup(l, s, o.name) = VarSlot(l, Max(D))
  <2> HIDE DEF o
  <2> QED
    BY DeclaredByIs DEF o
<1>2. Max(D) \in DOMAIN Body(l) /\ Declares(Body(l)[Max(D)]) /\ Body(l)[Max(D)].name = o.name
  BY <1>1 DEF DeclaredBy
<1>3. o \in ToSet(Outputs(l)) \cup ToSet(Outputs(l + 1)) /\ l \in Levels \ {LastLevel}
  BY Around DEF ToSet
<1> HIDE DEF D, o
<1>4. DeclaredType(l, Body(l)[Max(D)]) = o.type
  BY <1>2, <1>3 DEF TypesAgree
<1>5. VarSlot(l, Max(D)).type = DeclaredType(l, Body(l)[Max(D)])
  BY DEF VarSlot, Slot
<1> QED
  BY <1>1, <1>4, <1>5 DEF o

LEMMA InjectedType ==
  ASSUME prog \in Programs, TypesAgree, NEW l \in Levels, l + 1 \in Levels, NEW s \in DOMAIN Body(l),
         NEW k \in DOMAIN Outputs(l + 1), Injected(l, s, Outputs(l + 1)[k].name) # NoSlot
  PROVE  Injected(l, s, Outputs(l + 1)[k].name).type = Outputs(l + 1)[k].type
<1> DEFINE out == Outputs(l + 1)
           name == out[k].name
           st == Body(l)[s]
           N == Named(out, name)
<1>1. st.op = "reserve"
  BY DEF Injected
<1>2. VarSlot(l, s).type = DeclaredType(l, st)
  BY DEF VarSlot, Slot
<1>3. st \in ToSet(Body(l)) /\ l \in Levels \ {LastLevel}
  BY Around DEF ToSet
<1>4. \A q \in BoundOutputs(l, st) : DeclaredType(l, st) = q.type
  <2> HIDE DEF st
  <2> QED
    BY <1>3 DEF TypesAgree
<1>5. out[k] \in ToSet(out) /\ out # << >>
  <2>1. out \in Seq(Out)
    BY OutputsAre
  <2> HIDE DEF out
  <2>2. k \in DOMAIN out
    BY DEF out
  <2> QED
    BY <2>1, <2>2 DEF ToSet
<1>6. k \in N
  BY DEF Named
<1>7. CASE st.bind # None
  <2>1. name = st.bind /\ Injected(l, s, name) = VarSlot(l, s)
    BY <1>1, <1>7 DEF Injected
  <2>2. out[k] \in BoundOutputs(l, st)
    BY <1>1, <1>5, <1>7, <2>1 DEF BoundOutputs
  <2> QED
    BY <1>2, <1>4, <2>1, <2>2
<1>8. CASE st.bind = None
  <2>1. N # {}
    BY <1>6
  <2>2. Max(N) \in DOMAIN out /\ out[Max(N)].name = name
    <3> HIDE DEF name
    <3> QED
      BY <2>1, NamedAre
  <2>3. out[Max(N)].type = out[k].type
    <3> HIDE DEF N
    <3> QED
      BY <2>2, NamedType
  <2>4. CASE st.via = "method"
    <3>1. Injected(l, s, name) = VarSlot(l, s)
      BY <1>1, <1>8, <2>1, <2>4 DEF Injected
    <3>2. out[k] \in BoundOutputs(l, st)
      BY <1>1, <1>5, <1>8, <2>4 DEF BoundOutputs
    <3> QED
      BY <1>2, <1>4, <3>1, <3>2
  <2>5. CASE st.via # "method" /\ Max(N) = 1
    <3>1. Injected(l, s, name) = VarSlot(l, s)
      BY <1>1, <1>8, <2>1, <2>5 DEF Injected
    <3>2. out[1] \in BoundOutputs(l, st)
      BY <1>1, <1>5, <1>8, <2>5 DEF BoundOutputs
    <3>3. out[1].type = out[k].type
      BY <2>3, <2>5
    <3>4. DeclaredType(l, st) = out[1].type
      BY <1>4, <3>2
    <3> QED
      BY <1>2, <3>1, <3>3, <3>4
  <2>6. CASE st.via # "method" /\ Max(N) # 1
    <3>1. Injected(l, s, name) = Slot(l, s, Max(N), "scratch", out[Max(N)].type)
      BY <1>1, <1>8, <2>1, <2>6 DEF Injected
    <3>2. Injected(l, s, name).type = out[Max(N)].type
      <4> HIDE DEF N, name, out
      <4> QED
        BY <3>1 DEF Slot
    <3> QED
      BY <2>3, <3>2
  <2> QED
    BY <2>4, <2>5, <2>6
<1> QED
  BY <1>7, <1>8

\* The slot passed for an output has the output's type.
LEMMA PassedType ==
  ASSUME prog \in Programs, TypesAgree, NEW l \in Levels, l + 1 \in Levels, NEW s \in DOMAIN Body(l),
         NEW k \in DOMAIN Outputs(l + 1)
  PROVE  Passed(l, s, k).type = Outputs(l + 1)[k].type
<1> DEFINE o == Outputs(l + 1)[k]
           found == SlotFor(l, s, o.name)
<1>1. s \in Nat
  <2>1. Body(l) \in Seq(Statements)
    BY Bodies
  <2> QED
    BY <2>1
<1>2. CASE found = NoSlot
  <2>1. Passed(l, s, k) = Slot(l, s, k, "temp", o.type)
    BY <1>2 DEF Passed
  <2> HIDE DEF o
  <2>2. Passed(l, s, k).type = o.type
    BY <2>1 DEF Slot
  <2> QED
    BY <2>2 DEF o
<1>3. CASE found # NoSlot
  <2>1. Passed(l, s, k) = found
    BY <1>3 DEF Passed
  <2>2. ~IsOwnOutput(l, o.name)
    BY <1>3 DEF SlotFor
  <2>3. CASE Injected(l, s, o.name) # NoSlot
    <3>1. found = Injected(l, s, o.name)
      BY <2>2, <2>3 DEF SlotFor
    <3> QED
      BY <2>1, <2>3, <3>1, InjectedType
  <2>4. CASE Injected(l, s, o.name) = NoSlot
    <3>1. found = Lookup(l, s, o.name)
      BY <2>2, <2>4 DEF SlotFor
    <3>2. DeclaredBy(l, s, o.name) # {}
      BY <1>3, <2>2, <3>1 DEF Lookup, IsOwnOutput
    <3> QED
      BY <1>1, <2>1, <3>1, <3>2, LookupType
  <2> QED
    BY <2>3, <2>4
<1> QED
  BY <1>2, <1>3

\* The type that the emitter's map has for a local at a tunnel is that of the
\* alloca the local's name leads to.
LEMMA VarTypeIs ==
  ASSUME prog \in Programs, Heeds, Accepted, NEW l \in Levels, NEW s \in DOMAIN Body(l),
         Body(l)[s].op = "tunnel", Body(l)[s].expr # Literal
  PROVE  VarType(l, s, Body(l)[s].expr) = Lookup(l, s, Body(l)[s].expr).type
<1> DEFINE x == Body(l)[s].expr
           D == DeclaredBy(l, s, x)
           binds(u) == x \in NamesOf(Outputs(l + 1)) /\ Injected(l, u, x) # NoSlot
           bound(u) == Body(l)[u].op = "reserve" /\ binds(u)
           E == {u \in 1 .. s - 1 : u \in D \/ bound(u)}
<1>1. Body(l) \in Seq(Statements) /\ s \in Nat \ {0} /\ s <= Len(Body(l)) /\ DOMAIN Body(l) = 1 .. Len(Body(l))
  <2>1. Body(l) \in Seq(Statements)
    BY Bodies
  <2> QED
    BY <2>1
<1>2. D # {}
  <2>1. PICK t \in 1 .. s - 1 : Body(l)[t].op \in {"slot", "reserve"} /\ Body(l)[t].name = x
    <3>1. WellFormed(prog)
      BY ProgramsAssumption
    <3>2. l \in DOMAIN prog.bodies /\ s \in DOMAIN prog.bodies[l]
      BY DEF Levels, Body
    <3>3. \E t \in 1 .. s - 1 : prog.bodies[l][t].op \in {"slot", "reserve"} /\ prog.bodies[l][t].name = prog.bodies[l][s].expr
      BY <3>1, <3>2 DEF WellFormed, Body
    <3> QED
      BY <3>3 DEF Body
  <2>2. t \in DOMAIN Body(l) /\ t <= s /\ Declares(Body(l)[t])
    BY <1>1, <2>1 DEF Declares
  <2>3. ~NotInferred(l, Body(l)[t])
    <3>1. CASE Body(l)[t].op = "reserve"
      <4>1. <<l, t>> \in Reserves
        BY <2>2, <3>1 DEF Reserves
      <4>2. ~NotInferred(<<l, t>>[1], Body(<<l, t>>[1])[<<l, t>>[2]])
        BY <4>1, AcceptedCanBeEmitted DEF Heeds
      <4> QED
        BY <4>2
    <3>2. CASE Body(l)[t].op # "reserve"
      BY <3>2 DEF NotInferred
    <3> QED
      BY <3>1, <3>2
  <2>4. t \in D
    BY <2>1, <2>2, <2>3 DEF DeclaredBy
  <2> QED
    BY <2>4
<1>3. /\ Max(D) \in D /\ \A t \in D : t <= Max(D)
      /\ Lookup(l, s, x) = VarSlot(l, Max(D))
  <2> HIDE DEF x
  <2> QED
    BY <1>1, <1>2, DeclaredByIs
<1>4. D \subseteq 1 .. s - 1
  <2> SUFFICES ASSUME NEW t \in D PROVE t \in 1 .. s - 1
    OBVIOUS
  <2>1. t \in DOMAIN Body(l) /\ t <= s /\ t # s
    BY DEF DeclaredBy, Declares
  <2> QED
    BY <1>1, <2>1
<1>5. D \subseteq E /\ E \subseteq 1 .. s - 1 /\ E # {}
  BY <1>2, <1>4
<1>6. Max(E) \in E /\ \A t \in E : t <= Max(E)
  <2>1. s - 1 \in Nat
    BY <1>1
  <2> HIDE DEF D, E
  <2> QED
    BY <1>5, <2>1, MaxIs
<1>7. VarType(l, s, x) = IF bound(Max(E)) THEN Injected(l, Max(E), x).type ELSE DeclaredType(l, Body(l)[Max(E)])
  BY DEF VarType
<1>8. CASE bound(Max(E))
  <2>1. Max(E) \in DOMAIN Body(l)
    <3> DEFINE e == Max(E)
    <3> HIDE DEF E, D
    <3>1. e \in 1 .. s - 1
      BY <1>5, <1>6
    <3> HIDE DEF e
    <3>2. e \in 1 .. Len(Body(l))
      BY <1>1, <3>1
    <3> QED
      BY <1>1, <3>2 DEF e
  <2>2. l + 1 \in Levels
    <3>1. Body(l)[Max(E)].op = "reserve"
      BY <1>8
    <3> HIDE DEF E, D
    <3> QED
      BY <2>1, <3>1, CallsAre DEF Calls
  <2>3. PICK k \in DOMAIN Outputs(l + 1) : Outputs(l + 1)[k].name = x
    BY <1>8 DEF NamesOf
  <2>4. Injected(l, Max(E), x).type = Outputs(l + 1)[k].type
    <3>1. Injected(l, Max(E), x) # NoSlot
      BY <1>8
    <3> HIDE DEF E, D, x
    <3> QED
      BY <2>1, <2>2, <2>3, <3>1, InjectedType DEF Heeds
  <2>5. Lookup(l, s, x).type = Outputs(l + 1)[k].type
    <3> HIDE DEF x
    <3> QED
      BY <1>1, <1>2, <2>2, <2>3, LookupType DEF Heeds
  <2> QED
    BY <1>7, <1>8, <2>4, <2>5
<1>9. CASE ~bound(Max(E))
  <2>1. Max(E) \in D
    <3> DEFINE e == Max(E)
    <3>1. e \in E
      BY <1>6
    <3>2. ~bound(e)
      BY <1>9
    <3> HIDE DEF e, bound
    <3> QED
      BY <3>1, <3>2 DEF e
  <2>2. Max(E) = Max(D)
    <3>1. Max(E) <= Max(D) /\ Max(D) <= Max(E)
      <4> HIDE DEF D, E
      <4> QED
        BY <1>3, <1>5, <1>6, <2>1
    <3>2. Max(E) \in Int /\ Max(D) \in Int
      <4> HIDE DEF D, E
      <4>1. Max(E) \in 1 .. s - 1 /\ Max(D) \in 1 .. s - 1
        BY <1>3, <1>4, <2>1
      <4>2. 1 .. s - 1 \subseteq Int
        BY <1>1
      <4> QED
        BY <4>1, <4>2
    <3> HIDE DEF D, E
    <3> QED
      BY <3>1, <3>2
  <2>3. VarType(l, s, x) = DeclaredType(l, Body(l)[Max(D)])
    BY <1>7, <1>9, <2>2
  <2>4. VarSlot(l, Max(D)).type = DeclaredType(l, Body(l)[Max(D)])
    <3> HIDE DEF D
    <3> QED
      BY DEF VarSlot, Slot
  <2> QED
    BY <1>3, <2>3, <2>4
<1> QED
  BY <1>8, <1>9

\* Every slot of m holds a value of its type.
Fit(m) == \A s \in DOMAIN m : \E f : m[s] = [type |-> s.type, from |-> f]

\* In a heedful program nothing crashes and every value fits its slot.
Fitting == Heeds => phase # "crashed" /\ Fit(mem)

LEMMA StoredFits ==
  ASSUME NEW m, Fit(m), NEW slot, NEW f, NEW t, slot.type = t
  PROVE  Fit(Stored(m, slot, [type |-> t, from |-> f]))
<1> DEFINE value == [type |-> t, from |-> f]
           n == Stored(m, slot, value)
<1> SUFFICES ASSUME NEW s \in DOMAIN n PROVE \E g : n[s] = [type |-> s.type, from |-> g]
  BY DEF Fit
<1>1. DOMAIN n = DOMAIN m \cup {slot} /\ n[s] = IF s = slot THEN value ELSE m[s]
  <2> HIDE DEF value
  <2> QED
    BY DEF Stored
<1> HIDE DEF n
<1>2. CASE s = slot
  BY <1>1, <1>2
<1>3. CASE s # slot
  <2> HIDE DEF value
  <2> QED
    BY <1>1, <1>3 DEF Fit
<1> QED
  BY <1>2, <1>3

\* What is read back has the type of the reserved slot.
LEMMA ReadBackFits ==
  ASSUME Active, Compiled, phase = "run", Len(pc) > 1, Heeds,
         NEW m, Fit(m)
  PROVE  Fit(ReadBack(m))
<1> DEFINE n == Len(pc)
           l == n - 1
           s == pc[l]
           o == Outputs(n)
           st == Body(l)[s]
           slot == Passed(l, s, 1)
           read == IF slot \in DOMAIN m THEN [m[slot] EXCEPT !.type = o[1].type]
                   ELSE [type |-> o[1].type, from |-> Garbage]
           reads == st.op = "reserve" /\ st.via = "plain" /\ Len(o) = 1
<1>1. n \in Nat /\ l \in 1 .. Len(pc) - 1 /\ l + 1 = n
  BY DEF Active
<1>2. s \in DOMAIN Body(l) /\ Calls(st) /\ ~NotInferred(l, st)
  BY <1>1 DEF Active
<1>3. l \in Levels /\ n \in Levels /\ prog \in Programs
  <2>1. n \in 1 .. LastLevel /\ LastLevel \in Nat /\ Levels = 1 .. LastLevel
    BY Bodies DEF Active
  <2>2. l \in 1 .. LastLevel
    BY <2>1, <1>1
  <2> QED
    BY <2>1, <2>2 DEF Active
<1>4. ReadBack(m) = IF reads THEN Stored(m, VarSlot(l, s), read) ELSE m
  BY DEF ReadBack, Level
<1>5. CASE ~reads
  <2>1. ReadBack(m) = m
    <3> HIDE DEF reads, read
    <3> QED
      BY <1>4, <1>5
  <2> QED
    BY <2>1
<1>6. CASE reads
  <2>1. o \in Seq(Out) /\ 1 \in DOMAIN o
    <3>1. o \in Seq(Out)
      BY <1>3, OutputsAre
    <3>2. Len(o) = 1
      BY <1>6
    <3> HIDE DEF o
    <3> QED
      BY <3>1, <3>2
  <2>2. o[1] \in BoundOutputs(l, st)
    <3>1. o[1] \in ToSet(o) /\ o # << >>
      <4> HIDE DEF o
      <4> QED
        BY <2>1 DEF ToSet
    <3>2. CASE st.bind = None
      BY <1>1, <1>6, <3>1, <3>2 DEF BoundOutputs
    <3>3. CASE st.bind # None
      <4>1. <<l, s>> \in Reserves
        <5> HIDE DEF l, s
        <5> QED
          BY <1>2, <1>3, <1>6 DEF Reserves
      <4>2. ReserveAccepted(l, st)
        <5>1. Accepted
          BY DEF Compiled
        <5>2. ReserveAccepted(<<l, s>>[1], Body(<<l, s>>[1])[<<l, s>>[2]])
          BY <4>1, <5>1 DEF Accepted
        <5> QED
          BY <5>2
      <4>3. Signature(l + 1) = o
        BY <1>1, <1>3, SeenByTheChecker DEF Heeds
      <4>4. st.bind \in NamesOf(o)
        <5> HIDE DEF st, o
        <5> QED
          BY <3>3, <4>2, <4>3 DEF ReserveAccepted
      <4>5. o[1].name = st.bind
        <5>1. Len(o) = 1
          BY <1>6
        <5> HIDE DEF o, st
        <5>2. DOMAIN o = {1}
          BY <2>1, <5>1
        <5> QED
          BY <4>4, <5>2 DEF NamesOf
      <4> QED
        BY <1>1, <1>6, <3>1, <3>3, <4>5 DEF BoundOutputs
    <3> QED
      BY <3>2, <3>3
  <2>3. l \in Levels \ {LastLevel} /\ st \in ToSet(Body(l))
    <3>1. st \in ToSet(Body(l))
      <4> HIDE DEF l, s
      <4> QED
        BY <1>2 DEF ToSet
    <3> QED
      BY <1>1, <1>3, <3>1, Around
  <2>4. VarSlot(l, s).type = o[1].type
    <3>1. VarSlot(l, s).type = DeclaredType(l, st)
      BY DEF VarSlot, Slot
    <3> HIDE DEF o, st, l
    <3>2. DeclaredType(l, st) = o[1].type
      BY <2>2, <2>3 DEF TypesAgree, Heeds
    <3> QED
      BY <3>1, <3>2
  <2>5. \E f : read = [type |-> o[1].type, from |-> f]
    <3>1. CASE slot \in DOMAIN m
      <4>1. PICK f : m[slot] = [type |-> slot.type, from |-> f]
        <5> HIDE DEF slot
        <5> QED
          BY <3>1 DEF Fit
      <4>2. read = [m[slot] EXCEPT !.type = o[1].type]
        BY <3>1
      <4> HIDE DEF read, o, slot
      <4>3. read = [type |-> o[1].type, from |-> f]
        BY <4>1, <4>2
      <4> QED
        BY <4>3
    <3>2. CASE slot \notin DOMAIN m
      BY <3>2
    <3> QED
      BY <3>1, <3>2
  <2>6. PICK f : read = [type |-> o[1].type, from |-> f]
    <3> HIDE DEF read, o
    <3> QED
      BY <2>5
  <2>7. ReadBack(m) = Stored(m, VarSlot(l, s), [type |-> o[1].type, from |-> f])
    <3> HIDE DEF read, reads
    <3> QED
      BY <1>4, <1>6, <2>6
  <2> HIDE DEF o, l, s
  <2> QED
    BY <2>4, <2>7, StoredFits
<1> QED
  BY <1>5, <1>6

LEMMA TunnelFits ==
  ASSUME TInv, Fitting, Heeds, Tunnel
  PROVE  phase' # "crashed" /\ Fit(mem')
<1> USE DEF TInv
<1> DEFINE n == Len(pc)
           st == Body(n)[pc[n]]
           f == IF st.expr = Literal THEN <<n, pc[n]>> ELSE Load(n, pc[n], st.expr)
           value == [type |-> st.type, from |-> f]
           ks == Named(Outputs(n), st.name)
           pointer == args[n][Max(ks)]
           m == Stored(mem, pointer, value)
           l == n - 1
           s == pc[l]
<1>1. /\ phase = "run" /\ pc[n] <= Len(Body(n)) /\ st.op = "tunnel"
      /\ \/ Return(IF ks = {} THEN mem ELSE m, st.name, value)
         \/ ks # {} => pointer = NullPointer
  BY DEF Tunnel, Running, Statement, At, Level
<1>2. /\ pc \in Seq(Nat \ {0}) /\ n \in Levels /\ n \in Nat \ {0} /\ pc[n] \in Nat \ {0}
      /\ prog \in Programs /\ Levels = 1 .. LastLevel /\ LastLevel \in Nat
  <2>1. Levels = 1 .. LastLevel /\ LastLevel \in Nat
    BY Bodies DEF Active
  <2>2. pc \in Seq(Nat \ {0}) /\ n \in Levels /\ n \in Nat \ {0} /\ prog \in Programs
    BY <2>1 DEF Active
  <2> QED
    BY <2>1, <2>2
<1>3. pc[n] \in DOMAIN Body(n)
  <2>1. Body(n) \in Seq(Statements)
    BY <1>2, Bodies
  <2>2. pc[n] <= Len(Body(n))
    BY <1>1
  <2> HIDE DEF n
  <2> QED
    BY <1>2, <2>1, <2>2
<1>4. n > 1
  <2>1. n # 1
    BY <1>1, <1>2, <1>3, Bodies
  <2> HIDE DEF n
  <2> QED
    BY <1>2, <2>1
<1>5. l \in 1 .. Len(pc) - 1 /\ l \in Levels /\ l + 1 = n /\ l + 1 \in Levels
  BY <1>2, <1>4
<1>6. Stands(l, s)
  BY <1>5 DEF Active, Stands
<1>7. /\ ks # {} /\ Max(ks) \in DOMAIN Outputs(n) /\ Outputs(n)[Max(ks)].name = st.name
      /\ pointer = Passed(l, s, Max(ks))
      /\ \E k \in ks : Outputs(n)[k].type = st.type
  <2> HIDE DEF f
  <2> QED
    BY <1>1, <1>3, <1>4, PointerIs DEF Heeds
<1>8. PICK k \in DOMAIN Outputs(n) : Outputs(n)[k].name = st.name /\ Outputs(n)[k].type = st.type
  BY <1>7 DEF Named
<1>9. Outputs(n)[Max(ks)].type = st.type
  <2> HIDE DEF ks, st, l, s
  <2> QED
    BY <1>2, <1>5, <1>6, <1>7, <1>8, NamedType DEF Heeds, Stands
<1>10. pointer.type = st.type
  <2> HIDE DEF ks, st, l, s, pointer
  <2> QED
    BY <1>2, <1>5, <1>6, <1>7, <1>9, PassedType DEF Heeds, Stands
<1>11. pointer # NullPointer
  <2>1. Passed(l, s, Max(ks)) \in Mine(l)
    <3> HIDE DEF ks, l, s
    <3> QED
      BY <1>2, <1>5, <1>6, <1>7, PassedIs DEF Stands
  <2>2. pointer.use # "null"
    <3> HIDE DEF pointer
    <3> QED
      BY <2>1, <1>7 DEF Mine, SlotSpace
  <2> QED
    BY <2>2 DEF NullPointer, Slot
<1>12. Return(m, st.name, value)
  <2> HIDE DEF m, pointer, value, st, ks
  <2> QED
    BY <1>1, <1>7, <1>11
<1>13. mem' = ReadBack(m) /\ phase' = phase
  <2> HIDE DEF m
  <2> QED
    BY <1>12 DEF Return
<1>14. Fit(m)
  <2>1. Fit(mem)
    BY DEF Fitting
  <2> HIDE DEF f, pointer, st
  <2> QED
    BY <1>10, <2>1, StoredFits
<1>15. Fit(ReadBack(m))
  <2> HIDE DEF m
  <2> QED
    BY <1>1, <1>4, <1>14, ReadBackFits
<1> QED
  BY <1>1, <1>13, <1>15

LEMMA FittingStep == TInv /\ Fitting /\ [Next]_vars => Fitting'
<1> SUFFICES ASSUME TInv, Fitting, [Next]_vars PROVE Fitting'
  OBVIOUS
<1>1. prog' = prog
  BY DEF Next, vars, Check, Emit, PassBy, Call, Tunnel, Skip, Fall, Return
<1>2. Heeds' = Heeds
  BY <1>1, Frame DEF Heeds
<1> SUFFICES ASSUME Heeds PROVE phase' # "crashed" /\ Fit(mem')
  BY <1>2 DEF Fitting, Fit
<1>3. phase # "crashed" /\ Fit(mem)
  BY DEF Fitting
<1>4. CASE Check
  BY <1>3, <1>4 DEF Check
<1>5. CASE Emit
  <2>1. Accepted
    BY <1>5 DEF Emit, TInv, Compiled
  <2>2. Emittable
    BY <2>1, AcceptedCanBeEmitted DEF TInv, Active, Heeds
  <2> QED
    BY <1>3, <1>5, <2>2 DEF Emit
<1>6. CASE PassBy
  BY <1>3, <1>6 DEF PassBy
<1>7. CASE Call
  <2>1. mem' = Restrict(mem, {s \in DOMAIN mem : s.level <= Level}) /\ phase' = phase
    BY <1>7 DEF Call
  <2>2. Fit(mem')
    BY <1>3, <2>1 DEF Restrict, Fit
  <2> QED
    BY <1>3, <2>1, <2>2
<1>8. CASE Tunnel
  BY <1>8, TunnelFits
<1>9. CASE Skip
  BY <1>3, <1>9 DEF Skip
<1>10. CASE Fall
  <2>1. CASE Len(pc) > 1
    <3>1. phase = "run" /\ mem' = ReadBack(mem) /\ phase' = phase
      BY <1>10, <2>1 DEF Fall, Return, Level
    <3>2. Fit(ReadBack(mem))
      BY <1>3, <2>1, <3>1, ReadBackFits DEF TInv
    <3> QED
      BY <3>1, <3>2
  <2>2. CASE ~(Len(pc) > 1)
    BY <1>3, <1>10, <2>2 DEF Fall, Level
  <2> QED
    BY <2>1, <2>2
<1>11. CASE UNCHANGED vars
  BY <1>3, <1>11 DEF vars
<1> QED
  BY <1>4, <1>5, <1>6, <1>7, <1>8, <1>9, <1>10, <1>11 DEF Next

\* A heedful program that the checker accepts does not crash at a hidden
\* parameter, every value fits the slot it is stored into, and every local is
\* loaded with its own type (emit_tunnel, emit_reserve, eval_token).
THEOREM ValuesFit == Spec => []TypesFit
<1>1. Init => Fitting
  BY DEF Init, Fitting, Fit
<1>2. TInv /\ Fitting => TypesFit
  <2> SUFFICES ASSUME TInv, Fitting, Heeds, phase \notin {"check", "rejected"}
               PROVE  /\ phase # "crashed"
                      /\ \A s \in DOMAIN mem : mem[s].type = s.type
                      /\ Running /\ Statement.op = "tunnel" /\ Statement.expr # Literal =>
                           VarType(Level, At, Statement.expr) = Lookup(Level, At, Statement.expr).type
    BY DEF TypesFit, Heeds
  <2>1. phase # "crashed" /\ Fit(mem)
    BY DEF Fitting
  <2>2. ASSUME NEW s \in DOMAIN mem PROVE mem[s].type = s.type
    <3>1. PICK f : mem[s] = [type |-> s.type, from |-> f]
      BY <2>1 DEF Fit
    <3> QED
      BY <3>1
  <2>3. ASSUME Running, Statement.op = "tunnel", Statement.expr # Literal
        PROVE  VarType(Level, At, Statement.expr) = Lookup(Level, At, Statement.expr).type
    <3>1. Accepted /\ prog \in Programs /\ Level \in Levels /\ pc \in Seq(Nat \ {0}) /\ Level = Len(pc)
      BY DEF TInv, Active, Compiled, Level
    <3>2. Body(Level) \in Seq(Statements) /\ Levels = 1 .. LastLevel /\ LastLevel \in Nat
      BY <3>1, Bodies
    <3>3. At \in Nat \ {0} /\ At <= Len(Body(Level))
      <4>1. Len(pc) \in 1 .. Len(pc)
        BY <3>1, <3>2
      <4> QED
        BY <2>3, <3>1, <4>1 DEF Running, At
    <3>4. At \in DOMAIN Body(Level)
      <4> HIDE DEF Level, At
      <4> QED
        BY <3>2, <3>3
    <3> QED
      BY <2>3, <3>1, <3>4, VarTypeIs DEF Statement
  <2> QED
    BY <2>1, <2>2, <2>3
<1> QED
  BY <1>1, <1>2, Invariance, FittingStep, PTL DEF Spec
=============================================================================
