-------------------------- MODULE VoidedCheckProofs --------------------------
(***************************************************************************)
(* What the checker says of the voided state is true of the runs.          *)
(*                                                                         *)
(* First the checker: its single pass leaves, at every statement, the      *)
(* state of the symbols that the statement before it makes of the one      *)
(* before (Recorded), because the snapshots on the frame stack are those   *)
(* of the blocks around (Framed).  Then the text: over a closed block the  *)
(* states keep what the moves of the block allow (KeptByBlock).  Then the  *)
(* run: at the statement, and at the heads of the blocks around it, what   *)
(* the symbols say holds of the variables (UnmovedAt, MovedAt).            *)
(***************************************************************************)
EXTENDS VoidedCheck, BlocksProofs, SequenceTheorems

-----------------------------------------------------------------------------
(***************************************************************************)
(* The text of a function.                                                 *)
(***************************************************************************)
\* The declarations on the scope stack at s.
InScope(p, s) == {t \in Declarations(p) : Seen(p, t, s)}

LEMMA Shape ==
  ASSUME NEW p, WellFormed(p)
  PROVE  /\ Armed(p) /\ Balanced(p)
         /\ Len(p) \in Nat /\ DOMAIN p = 1 .. Len(p)
         /\ Openers(p) \subseteq 1 .. Len(p) /\ Arms(p) \subseteq 1 .. Len(p)
         /\ Ends(p) \subseteq 1 .. Len(p) /\ Declarations(p) \subseteq 1 .. Len(p)
         /\ Moves(p) \subseteq 1 .. Len(p)
         /\ Declarations(p) \cap (Openers(p) \cup Arms(p) \cup Ends(p)) = {}
         /\ Moves(p) \cap (Openers(p) \cup Arms(p) \cup Ends(p)) = {}
         /\ \A i \in Openers(p) : \A a \in ArmsOf(p, i) :
              /\ ArmsOf(p, i) = {a}
              /\ p[i].op = IF p[a].op = "else" THEN "if" ELSE "switch"
<1>1. Armed(p) /\ Balanced(p)
  BY DEF WellFormed, Armed
<1>2. Len(p) \in Nat /\ DOMAIN p = 1 .. Len(p)
  BY <1>1, Depths
<1>3. \A i \in Openers(p) : \A a \in ArmsOf(p, i) : a \in Arms(p) /\ i = OpenerOf(p, a)
  BY <1>1, ArmIs
<1> QED
  BY <1>1, <1>2, <1>3 DEF WellFormed, Openers, Arms, Ends, Declarations, Moves

LEMMA InScopeFlow ==
  ASSUME NEW p, WellFormed(p)
  PROVE  /\ \A s : \A t \in InScope(p, s) : t \in Declarations(p) /\ t \in 1 .. Len(p) /\ t < s
         /\ \A s \in 1 .. Len(p) : s \notin Openers(p) \cup Ends(p) \cup Arms(p) =>
              /\ \A t \in InScope(p, s+1) : t = s \/ t \in InScope(p, s)
              /\ InScope(p, s) \subseteq InScope(p, s+1)
         /\ \A i \in Openers(p) :
              /\ InScope(p, i+1) \subseteq InScope(p, i)
              /\ InScope(p, EndOf(p, i) + 1) \subseteq InScope(p, i)
              /\ \A a \in ArmsOf(p, i) : InScope(p, a+1) \subseteq InScope(p, i)
              /\ \A s \in i .. EndOf(p, i) + 1 : InScope(p, i) \subseteq InScope(p, s)
<1>1. /\ Armed(p) /\ Declarations(p) \subseteq 1 .. Len(p)
      /\ \A i \in Openers(p) : i \notin Declarations(p)
      /\ \A i \in Openers(p) : \A a \in ArmsOf(p, i) : a \notin Declarations(p)
  BY Shape, ArmIs
<1>2. ASSUME NEW s, NEW t \in InScope(p, s)
      PROVE  t \in Declarations(p) /\ t \in 1 .. Len(p) /\ t < s
  BY <1>1, <1>2 DEF InScope, Seen
<1>3. ASSUME NEW s \in 1 .. Len(p), s \notin Openers(p) \cup Ends(p) \cup Arms(p)
      PROVE  /\ \A t \in InScope(p, s+1) : t = s \/ t \in InScope(p, s)
             /\ InScope(p, s) \subseteq InScope(p, s+1)
  <2>1. \A t \in Declarations(p) : Seen(p, t, s+1) <=> t = s \/ Seen(p, t, s)
    BY <1>1, <1>3, SeenFlow
  <2> QED
    BY <2>1 DEF InScope
<1>4. ASSUME NEW i \in Openers(p)
      PROVE  /\ InScope(p, i+1) \subseteq InScope(p, i)
             /\ InScope(p, EndOf(p, i) + 1) \subseteq InScope(p, i)
             /\ \A a \in ArmsOf(p, i) : InScope(p, a+1) \subseteq InScope(p, i)
             /\ \A s \in i .. EndOf(p, i) + 1 : InScope(p, i) \subseteq InScope(p, s)
  <2>1. \A t \in Declarations(p) :
          /\ t # i /\ \A a \in ArmsOf(p, i) : t # a
          /\ \A s \in i .. EndOf(p, i) + 1 : Seen(p, t, i) => Seen(p, t, s)
          /\ Seen(p, t, i+1) => t = i \/ Seen(p, t, i)
          /\ Seen(p, t, EndOf(p, i) + 1) => t = i \/ Seen(p, t, i)
          /\ \A a \in ArmsOf(p, i) : Seen(p, t, a+1) => t \in {i, a} \/ Seen(p, t, i)
    BY <1>1, SeenFlow
  <2> QED
    BY <2>1 DEF InScope
<1> QED
  BY <1>2, <1>3, <1>4

\* The scope stack of the checker at s.
LEMMA StackIs ==
  ASSUME NEW p, WellFormed(p), NEW s \in 1 .. Len(p) + 1
  PROVE  {t \in Declarations(p) : t < s /\ ScopeOf(p, t) \in OpenScopes(p, s)} = InScope(p, s)
<1>1. Armed(p) /\ \A t \in Declarations(p) : t \in 1 .. Len(p) /\ t \notin Arms(p)
  BY Shape
<1>2. \A t \in Declarations(p) :
        t < s => (ScopeOf(p, t) \in OpenScopes(p, s) <=> Seen(p, t, s))
  BY <1>1, InScopeIs
<1>3. \A t : Seen(p, t, s) => t < s
  BY DEF Seen
<1> QED
  BY <1>2, <1>3 DEF InScope

\* Without shadowing, a name stands for one declaration only.
LEMMA OneName ==
  ASSUME NEW p, WellFormed(p), Shadowless(p), NEW s \in 1 .. Len(p) + 1,
         NEW t \in InScope(p, s), NEW u \in InScope(p, s), p[t].x = p[u].x
  PROVE  t = u
<1>1. /\ Armed(p) /\ t \in 1 .. Len(p) /\ u \in 1 .. Len(p) /\ t < s /\ u < s
      /\ t \in Declarations(p) /\ u \in Declarations(p) /\ Seen(p, t, s) /\ Seen(p, u, s)
      /\ Len(p) \in Nat /\ t \notin Arms(p) /\ u \notin Arms(p)
      /\ t \in DOMAIN p /\ u \in DOMAIN p
  BY Shape, InScopeFlow DEF InScope
<1>2. ASSUME NEW b \in 1 .. Len(p), NEW c \in 1 .. Len(p), b < c, c < s, Seen(p, b, s),
             b \in Declarations(p), c \in Declarations(p), b \notin Arms(p), b \in DOMAIN p,
             p[b].x = p[c].x
      PROVE  FALSE
  <2>1. c \in 1 .. Len(p) + 1 /\ c <= s
    BY <1>1, <1>2
  <2>2. Seen(p, b, c)
    BY <1>1, <1>2, <2>1, SeenFlow
  <2>3. ScopeOf(p, b) \in OpenScopes(p, c)
    BY <1>1, <1>2, <2>1, <2>2, InScopeIs
  <2>4. b \in Visible(p, c, p[c].x)
    BY <1>2, <2>3 DEF Visible, Decls, Declarations
  <2> QED
    BY <1>2, <2>4 DEF Shadowless
<1> QED
  BY <1>1, <1>2

\* The declaration that an accessed name denotes is on the stack.
LEMMA VarIs ==
  ASSUME NEW p, WellFormed(p), NEW s \in 1 .. Len(p),
         p[s].op \in {"use", "assign", "move", "switch"}
  PROVE  /\ VarAt(p, s) \in InScope(p, s) /\ VarAt(p, s) \in Declarations(p)
         /\ Shadowless(p) => Visible(p, s, p[s].x) = {VarAt(p, s)}
<1> DEFINE V == Visible(p, s, p[s].x)
<1>1. /\ Armed(p) /\ Len(p) \in Nat /\ s \in 1 .. Len(p) + 1 /\ s \in DOMAIN p
      /\ Declarations(p) \subseteq 1 .. Len(p)
      /\ V # {}
  <2>1. s \in 1 .. Len(p) + 1 /\ s \in DOMAIN p
    BY Shape
  <2>2. V # {}
    BY <2>1 DEF WellFormed
  <2> QED
    BY <2>1, <2>2, Shape
<1>2. V = {t \in InScope(p, s) : p[t].x = p[s].x}
  <2>1. V = {t \in {u \in Declarations(p) : u < s /\ ScopeOf(p, u) \in OpenScopes(p, s)} :
               p[t].x = p[s].x}
    BY DEF Visible, Decls, Declarations
  <2> QED
    BY <1>1, <2>1, StackIs
<1>3. V \subseteq 1 .. Len(p)
  BY <1>1, <1>2 DEF InScope
<1> HIDE DEF V
<1>4. PICK t \in V : \A u \in V : u <= t
  BY <1>1, <1>3, GreatestNumber
<1>5. LastOf(V) = t
  <2>1. V \subseteq Int
    BY <1>1, <1>3
  <2> QED
    BY <1>4, <2>1, LastIs
<1>6. VarAt(p, s) = t
  BY <1>5 DEF VarAt, V
<1>7. Shadowless(p) => V = {t}
  BY <1>1, <1>2, <1>4, OneName
<1> QED
  BY <1>2, <1>4, <1>6, <1>7 DEF V, InScope

-----------------------------------------------------------------------------
(***************************************************************************)
(* Symbols.                                                                *)
(***************************************************************************)
\* What is known of a variable whose symbol goes from f to g over a stretch
\* of the text that moves it (mv) or does not.
Keeps(f, g, mv) ==
  /\ g = Valid => f = Valid /\ ~mv
  /\ g.voided => f.voided \/ mv
  /\ f.maybe => g.maybe

LEMMA SymbolIs ==
  /\ Valid \in Symbols /\ Maybe \in Symbols
  /\ \A f \in Symbols : f.voided \in BOOLEAN /\ f.maybe \in BOOLEAN
  /\ \A f \in Symbols : f = Valid <=> ~f.voided /\ ~f.maybe
  /\ Valid.voided = FALSE /\ Valid.maybe = FALSE
  /\ Maybe.voided = FALSE /\ Maybe.maybe = TRUE /\ Maybe # Valid
  /\ \A f \in Symbols : \A v \in BOOLEAN :
       /\ [f EXCEPT !.voided = v] \in Symbols
       /\ [f EXCEPT !.voided = v].voided = v /\ [f EXCEPT !.voided = v].maybe = f.maybe
BY DEF Symbols, Valid, Maybe

\* An if without else; e is the state at its end, y that of the branch that
\* is not there.
LEMMA MergeOne ==
  ASSUME NEW f \in Symbols, NEW e \in Symbols, NEW y \in Symbols, NEW g, NEW mv \in BOOLEAN,
         Keeps(f, e, mv), y.voided = f.voided, y.maybe = e.maybe,
         g = Merge(y, e.voided, f.voided, FALSE)
  PROVE  /\ Keeps(f, g, mv)
         /\ g = Valid => e = Valid
         /\ g.voided => f.voided
<1>1. g = IF (e.voided \/ f.voided) /\ ~f.voided THEN Maybe ELSE y
  BY DEF Merge
<1>2. CASE g = Maybe /\ e.voided /\ ~f.voided
  BY <1>2, SymbolIs DEF Keeps
<1>3. CASE g = y /\ ~(e.voided /\ ~f.voided)
  BY <1>3, SymbolIs DEF Keeps
<1> QED
  BY <1>1, <1>2, <1>3

\* An if with else: x is the state at the else, y that restored for the other
\* branch, e that at the end.
LEMMA MergeTwo ==
  ASSUME NEW f \in Symbols, NEW x \in Symbols, NEW y \in Symbols, NEW e \in Symbols, NEW g,
         NEW m1 \in BOOLEAN, NEW m2 \in BOOLEAN,
         Keeps(f, x, m1), y.voided = f.voided, y.maybe = x.maybe, Keeps(y, e, m2),
         g = Merge(e, x.voided, f.voided, TRUE)
  PROVE  /\ Keeps(f, g, m1 \/ m2)
         /\ y = Valid => f = Valid
         /\ g = Valid => x = Valid /\ e = Valid
         /\ g.voided => (x.voided \/ f.voided) /\ (e.voided \/ f.voided)
<1>1. \/ g = e /\ x.voided /\ e.voided
      \/ g = Maybe /\ (x.voided \/ e.voided) /\ ~f.voided
      \/ g = e /\ ~((x.voided \/ e.voided) /\ ~f.voided)
  BY DEF Merge
<1>2. y = Valid => f = Valid
  BY SymbolIs DEF Keeps
<1>3. CASE g = Maybe
  BY <1>2, <1>3, SymbolIs DEF Keeps
<1>4. CASE g = e /\ x.voided /\ e.voided
  BY <1>2, <1>4, SymbolIs DEF Keeps
<1>5. CASE g = e /\ ~((x.voided \/ e.voided) /\ ~f.voided)
  BY <1>2, <1>5, SymbolIs DEF Keeps
<1> QED
  BY <1>1, <1>2, <1>3, <1>4, <1>5

\* A while.
LEMMA PromoteKeeps ==
  ASSUME NEW f \in Symbols, NEW e \in Symbols, NEW g, NEW mv \in BOOLEAN, Keeps(f, e, mv),
         g = Promote(e, f.voided)
  PROVE  Keeps(f, g, mv) /\ (g.voided => f.voided)
<1>1. CASE g = Maybe
  BY <1>1, SymbolIs DEF Keeps
<1>2. CASE g = e /\ ~(e.voided /\ ~f.voided)
  BY <1>2, SymbolIs DEF Keeps
<1> QED
  BY <1>1, <1>2 DEF Promote

-----------------------------------------------------------------------------
(***************************************************************************)
(* What the checker leaves behind.  S[s] is the state of the symbols at s, *)
(* and m the annotations of the guards.                                    *)
(***************************************************************************)
Histories(p) == [1 .. Len(p) + 1 -> [Declarations(p) -> Symbols]]

Ops == {"decl", "use", "assign", "move", "if", "while", "for", "switch", "else", "voided", "end"}

\* The state g at the end of the valid arm of guard i, whose head has state f.
LeftArm(p, i, f, g) ==
  IF f[VarAt(p, i)] = Valid THEN g ELSE [g EXCEPT ![VarAt(p, i)] = f[VarAt(p, i)]]

RecordedStep(p, S, m, s) ==
  /\ p[s].op \in Ops
  /\ p[s].op = "decl" => S[s+1] = [S[s] EXCEPT ![s] = Valid]
  /\ p[s].op = "use" => Usable(S[s][VarAt(p, s)])
  /\ p[s].op \in {"use", "assign", "if", "while", "for"} => S[s+1] = S[s]
  /\ p[s].op = "move" => S[s+1] = [S[s] EXCEPT ![VarAt(p, s)].voided = TRUE]
  /\ p[s].op = "switch" => /\ m[s] = Annotation(S[s][VarAt(p, s)])
                           /\ S[s+1] = [S[s] EXCEPT ![VarAt(p, s)] = Valid]

RecordedArm(p, S, i, a) ==
  /\ p[i].op = "if" /\ Shadowless(p) =>
       \A t \in InScope(p, i) : S[a+1][t] = [S[a][t] EXCEPT !.voided = S[i][t].voided]
  /\ p[i].op = "switch" => S[a+1] = LeftArm(p, i, S[i], S[a])

RecordedEnd(p, S, i, e) ==
  /\ p[i].op = "if" /\ Shadowless(p) /\ ArmsOf(p, i) = {} =>
       \A t \in InScope(p, i) :
         S[e+1][t] = Merge([S[e][t] EXCEPT !.voided = S[i][t].voided],
                           S[e][t].voided, S[i][t].voided, FALSE)
  /\ p[i].op = "if" /\ Shadowless(p) =>
       \A a \in ArmsOf(p, i) : \A t \in InScope(p, i) :
         S[e+1][t] = Merge(S[e][t], S[a][t].voided, S[i][t].voided, TRUE)
  /\ p[i].op = "while" /\ Shadowless(p) =>
       \A t \in InScope(p, i) : S[e+1][t] = Promote(S[e][t], S[i][t].voided)
  /\ p[i].op = "for" => S[e+1] = S[e]
  /\ p[i].op = "switch" /\ ArmsOf(p, i) # {} => S[e+1] = S[e]
  /\ p[i].op = "switch" /\ ArmsOf(p, i) = {} => S[e+1] = LeftArm(p, i, S[i], S[e])

Recorded(p, S, m, s) ==
  /\ RecordedStep(p, S, m, s)
  /\ s \in Arms(p) => RecordedArm(p, S, OpenerOf(p, s), s)
  /\ s \in Ends(p) => RecordedEnd(p, S, OpenerOf(p, s), s)

\* The whole function has been checked.
Told(p, S, m) ==
  /\ WellFormed(p) /\ Shadowless(p) /\ S \in Histories(p)
  /\ \A s \in 1 .. Len(p) : Recorded(p, S, m, s)

MovedBetween(p, t, b, s) == \E m \in Moves(p) : b < m /\ m < s /\ VarAt(p, m) = t

\* What s, in a block i but in none inside it, knows of the variables declared
\* before the block: what the start b of the arm of s knew, but for the moves.
KeptTo(p, S, s) ==
  \A i \in Openers(p) : \A b \in {i} \cup ArmsOf(p, i) :
    /\ b < s /\ s <= EndOf(p, i) /\ Depth(p, s) = Depth(p, i) + 1
    /\ \A a \in ArmsOf(p, i) : b < a => s <= a
    => \A t \in InScope(p, i) : Keeps(S[b+1][t], S[s][t], MovedBetween(p, t, b, s))

\* What the statements after and inside block i know of a variable t declared
\* before it.
KeptByBlock(p, S, i, t) ==
  LET e == EndOf(p, i)
      mv == MovedBetween(p, t, i, e)
  IN
  /\ Keeps(S[i][t], S[e+1][t], mv)
  /\ \A a \in ArmsOf(p, i) : S[a+1][t] = Valid => S[i][t] = Valid
  /\ p[i].op \in {"if", "switch"} /\ S[e+1][t] = Valid =>
       S[e][t] = Valid /\ \A a \in ArmsOf(p, i) : S[a][t] = Valid
  /\ p[i].op \in {"if", "while"} \/ ~mv =>
       /\ S[e+1][t].voided => S[i][t].voided \/ (ArmsOf(p, i) # {} /\ S[e][t].voided)
       /\ \A a \in ArmsOf(p, i) :
            /\ S[a+1][t].voided => S[i][t].voided
            /\ S[e+1][t].voided => S[i][t].voided \/ S[a][t].voided

LEMMA BlockPositions ==
  ASSUME NEW p, WellFormed(p), NEW i \in Openers(p)
  PROVE  /\ i \in 1 .. Len(p) /\ EndOf(p, i) \in 1 .. Len(p) /\ i < EndOf(p, i)
         /\ {i, i + 1, EndOf(p, i), EndOf(p, i) + 1} \subseteq 1 .. Len(p) + 1
         /\ EndOf(p, i) \in Ends(p) /\ OpenerOf(p, EndOf(p, i)) = i
         /\ Depth(p, EndOf(p, i)) = Depth(p, i) + 1
         /\ \A a \in ArmsOf(p, i) :
              /\ a \in Arms(p) /\ i < a /\ a + 1 <= EndOf(p, i) /\ a < EndOf(p, i)
              /\ {a, a + 1} \subseteq 1 .. Len(p) + 1 /\ a \in 1 .. Len(p)
              /\ OpenerOf(p, a) = i
              /\ Depth(p, a) = Depth(p, i) + 1
<1>1. /\ Armed(p) /\ Balanced(p) /\ Len(p) \in Nat /\ Openers(p) \subseteq 1 .. Len(p)
      /\ Arms(p) \subseteq 1 .. Len(p) /\ Ends(p) \subseteq 1 .. Len(p)
  BY Shape
<1>2. /\ EndOf(p, i) \in Ends(p) /\ i < EndOf(p, i)
      /\ Depth(p, EndOf(p, i)) = Depth(p, i) + 1
  BY <1>1, BlockEnd
<1>3. OpenerOf(p, EndOf(p, i)) = i
  <2>1. i \in 1 .. Len(p) + 1 /\ EndOf(p, i) \in 1 .. Len(p) /\ EndOf(p, i) \in 1 .. Len(p) + 1
    BY <1>1, <1>2
  <2>2. Depth(p, i) \in Nat
    BY <1>1, <2>1, Depths
  <2>3. Inside(p, i, EndOf(p, i)) /\ Depth(p, EndOf(p, i)) > 0
    BY <1>1, <1>2, <2>1, <2>2, BlockSpan
  <2> QED
    BY <1>1, <1>2, <2>1, <2>3, OpenerIs
<1>4. \A a \in ArmsOf(p, i) :
        /\ a \in Arms(p) /\ i < a /\ a + 1 <= EndOf(p, i) /\ OpenerOf(p, a) = i
        /\ Depth(p, a) = Depth(p, i) + 1
  BY <1>1, ArmIs
<1>5. /\ i \in 1 .. Len(p) /\ EndOf(p, i) \in 1 .. Len(p)
      /\ {i, i + 1, EndOf(p, i), EndOf(p, i) + 1} \subseteq 1 .. Len(p) + 1
  BY <1>1, <1>2
<1>6. ASSUME NEW a \in ArmsOf(p, i)
      PROVE  a < EndOf(p, i) /\ {a, a + 1} \subseteq 1 .. Len(p) + 1 /\ a \in 1 .. Len(p)
  BY <1>1, <1>4, <1>5
<1> QED
  BY <1>2, <1>3, <1>4, <1>5, <1>6

\* What the stretches of a block add up to.
LEMMA MovedSplit ==
  ASSUME NEW p, WellFormed(p), NEW t, NEW b \in 1 .. Len(p) + 1, NEW j \in 1 .. Len(p) + 1,
         NEW s \in 1 .. Len(p) + 1, b < j, j < s, j \notin Moves(p)
  PROVE  MovedBetween(p, t, b, s) <=> MovedBetween(p, t, b, j) \/ MovedBetween(p, t, j, s)
<1>1. Moves(p) \subseteq 1 .. Len(p) /\ Len(p) \in Nat
  BY Shape
<1>2. \A k \in Moves(p) : b < k /\ k < s <=> (b < k /\ k < j) \/ (j < k /\ k < s)
  BY <1>1
<1> QED
  BY <1>2 DEF MovedBetween

\* The next statement moves nothing that has not been moved before.
LEMMA MovedNext ==
  ASSUME NEW p, WellFormed(p), NEW t, NEW b \in 1 .. Len(p), NEW r \in 1 .. Len(p), b < r
  PROVE  MovedBetween(p, t, b, r+1) <=>
           MovedBetween(p, t, b, r) \/ (r \in Moves(p) /\ VarAt(p, r) = t)
<1>1. Moves(p) \subseteq 1 .. Len(p) /\ Len(p) \in Nat
  BY Shape
<1>2. \A k \in Moves(p) : b < k /\ k < r+1 <=> (b < k /\ k < r) \/ k = r
  BY <1>1
<1> QED
  BY <1>2 DEF MovedBetween

LEMMA LeftArmIs ==
  ASSUME NEW p, NEW i, NEW f \in [Declarations(p) -> Symbols], NEW g \in [Declarations(p) -> Symbols],
         VarAt(p, i) \in Declarations(p)
  PROVE  /\ LeftArm(p, i, f, g) \in [Declarations(p) -> Symbols]
         /\ \A t \in Declarations(p) :
              LeftArm(p, i, f, g)[t] = IF t = VarAt(p, i) /\ f[t] # Valid THEN f[t] ELSE g[t]
BY DEF LeftArm

\* The state of a variable where a guard, whose arms have the states x to y
\* and z to e, ends: h is the state at the head, as the valid arm sees it.
LEMMA GuardKeeps ==
  ASSUME NEW f \in Symbols, NEW h \in Symbols, NEW x \in Symbols, NEW y \in Symbols,
         NEW m1 \in BOOLEAN, Keeps(h, x, m1),
         \/ h = f /\ y = x
         \/ f # Valid /\ y = f
  PROVE  /\ Keeps(f, y, m1)
         /\ y = Valid => x = Valid /\ f = Valid
BY SymbolIs DEF Keeps

LEMMA OverIf ==
  ASSUME NEW p, NEW S, NEW m, Told(p, S, m), NEW i \in Openers(p),
         \A s \in i+1 .. EndOf(p, i) : KeptTo(p, S, s),
         NEW t \in InScope(p, i), p[i].op = "if"
  PROVE  KeptByBlock(p, S, i, t)
<1> DEFINE e == EndOf(p, i)
           mv == MovedBetween(p, t, i, e)
           D == Declarations(p)
<1>1. /\ WellFormed(p) /\ Shadowless(p) /\ S \in Histories(p) /\ t \in D
      /\ \A s \in 1 .. Len(p) : Recorded(p, S, m, s)
  BY DEF Told, InScope
<1>2. /\ i \in 1 .. Len(p) /\ e \in 1 .. Len(p) /\ i < e
      /\ {i, i + 1, e, e + 1} \subseteq 1 .. Len(p) + 1
      /\ e \in Ends(p) /\ OpenerOf(p, e) = i /\ Depth(p, e) = Depth(p, i) + 1
      /\ \A a \in ArmsOf(p, i) :
           /\ a \in Arms(p) /\ i < a /\ a + 1 <= e /\ a < e
           /\ {a, a + 1} \subseteq 1 .. Len(p) + 1 /\ a \in 1 .. Len(p)
           /\ OpenerOf(p, a) = i
           /\ Depth(p, a) = Depth(p, i) + 1
      /\ e \in i+1 .. e /\ \A a \in ArmsOf(p, i) : a \in i+1 .. e
  BY <1>1, BlockPositions
<1>3. \A s \in 1 .. Len(p) + 1 : S[s][t] \in Symbols
  BY <1>1 DEF Histories
<1>4. mv \in BOOLEAN
  BY DEF MovedBetween
<1>5. S[i+1][t] = S[i][t]
  BY <1>1, <1>2 DEF Recorded, RecordedStep
<1>6. RecordedEnd(p, S, i, e)
  BY <1>1, <1>2 DEF Recorded
<1>7. CASE ArmsOf(p, i) = {}
  <2>1. Keeps(S[i][t], S[e][t], mv)
    <3>1. KeptTo(p, S, e)
      BY <1>2
    <3> QED
      BY <1>2, <1>5, <1>7, <3>1 DEF KeptTo
  <2>2. S[e+1][t] = Merge([S[e][t] EXCEPT !.voided = S[i][t].voided],
                          S[e][t].voided, S[i][t].voided, FALSE)
    BY <1>1, <1>6, <1>7 DEF RecordedEnd
  <2>3. S[i][t] \in Symbols /\ S[e][t] \in Symbols
    BY <1>2, <1>3
  <2>4. /\ Keeps(S[i][t], S[e+1][t], mv)
        /\ S[e+1][t] = Valid => S[e][t] = Valid
        /\ S[e+1][t].voided => S[i][t].voided
    <3> DEFINE f == S[i][t]
               x == S[e][t]
               g == S[e+1][t]
               y == [x EXCEPT !.voided = f.voided]
    <3>1. /\ f \in Symbols /\ x \in Symbols /\ mv \in BOOLEAN /\ Keeps(f, x, mv)
          /\ g = Merge(y, x.voided, f.voided, FALSE)
          /\ y \in Symbols /\ y.voided = f.voided /\ y.maybe = x.maybe
      BY <1>4, <2>1, <2>2, <2>3, SymbolIs
    <3> HIDE DEF f, x, y, g, mv
    <3>2. Keeps(f, g, mv) /\ (g = Valid => x = Valid) /\ (g.voided => f.voided)
      BY <3>1, MergeOne DEF Merge
    <3> QED
      BY <3>2 DEF f, x, g
  <2> QED
    BY <1>7, <2>4 DEF KeptByBlock
<1>8. ASSUME NEW a \in ArmsOf(p, i)
      PROVE  KeptByBlock(p, S, i, t)
  <2> DEFINE m1 == MovedBetween(p, t, i, a)
             m2 == MovedBetween(p, t, a, e)
  <2>1. m1 \in BOOLEAN /\ m2 \in BOOLEAN /\ ArmsOf(p, i) = {a}
    BY <1>1, Shape DEF MovedBetween
  <2>2. Keeps(S[i][t], S[a][t], m1)
    <3>1. KeptTo(p, S, a)
      BY <1>2
    <3>2. \A c \in ArmsOf(p, i) : i < c => a <= c
      BY <1>2, <2>1
    <3> QED
      BY <1>2, <1>5, <3>1, <3>2 DEF KeptTo
  <2>3. Keeps(S[a+1][t], S[e][t], m2)
    <3>1. KeptTo(p, S, e)
      BY <1>2
    <3>2. \A c \in ArmsOf(p, i) : a < c => e <= c
      BY <1>2, <2>1
    <3> QED
      BY <1>2, <3>1, <3>2 DEF KeptTo
  <2>4. S[a+1][t] = [S[a][t] EXCEPT !.voided = S[i][t].voided]
    <3>1. RecordedArm(p, S, i, a)
      BY <1>1, <1>2 DEF Recorded
    <3> QED
      BY <1>1, <3>1 DEF RecordedArm
  <2>5. S[e+1][t] = Merge(S[e][t], S[a][t].voided, S[i][t].voided, TRUE)
    BY <1>1, <1>6 DEF RecordedEnd
  <2>6. S[i][t] \in Symbols /\ S[a][t] \in Symbols /\ S[e][t] \in Symbols
    BY <1>2, <1>3
  <2>7. mv <=> m1 \/ m2
    <3>1. a \notin Moves(p)
      BY <1>1, <1>2, Shape
    <3> QED
      BY <1>1, <1>2, <3>1, MovedSplit
  <2> HIDE DEF m1, m2, mv, e
  <2>8. /\ Keeps(S[i][t], S[e+1][t], m1 \/ m2)
        /\ S[a+1][t] = Valid => S[i][t] = Valid
        /\ S[a+1][t].voided = S[i][t].voided
        /\ S[e+1][t] = Valid => S[a][t] = Valid /\ S[e][t] = Valid
        /\ S[e+1][t].voided =>
             (S[a][t].voided \/ S[i][t].voided) /\ (S[e][t].voided \/ S[i][t].voided)
    <3> DEFINE f == S[i][t]
               x == S[a][t]
               y == S[a+1][t]
               z == S[e][t]
               g == S[e+1][t]
    <3>1. /\ f \in Symbols /\ x \in Symbols /\ z \in Symbols /\ m1 \in BOOLEAN /\ m2 \in BOOLEAN
          /\ Keeps(f, x, m1) /\ Keeps(y, z, m2)
          /\ y \in Symbols /\ y.voided = f.voided /\ y.maybe = x.maybe
          /\ g = Merge(z, x.voided, f.voided, TRUE)
      BY <2>1, <2>2, <2>3, <2>4, <2>5, <2>6, SymbolIs
    <3> HIDE DEF f, x, y, z, g
    <3>2. /\ Keeps(f, g, m1 \/ m2)
          /\ y = Valid => f = Valid
          /\ g = Valid => x = Valid /\ z = Valid
          /\ g.voided => (x.voided \/ f.voided) /\ (z.voided \/ f.voided)
      BY <3>1, MergeTwo DEF Merge
    <3> QED
      BY <3>1, <3>2 DEF f, x, y, z, g
  <2>9. Keeps(S[i][t], S[e+1][t], mv)
    BY <2>7, <2>8 DEF Keeps
  <2> QED
    BY <2>1, <2>8, <2>9 DEF KeptByBlock, mv, e
<1> QED
  BY <1>7, <1>8

LEMMA OverLoop ==
  ASSUME NEW p, NEW S, NEW m, Told(p, S, m), NEW i \in Openers(p),
         \A s \in i+1 .. EndOf(p, i) : KeptTo(p, S, s),
         NEW t \in InScope(p, i), p[i].op \in {"while", "for"}
  PROVE  KeptByBlock(p, S, i, t)
<1> DEFINE e == EndOf(p, i)
           mv == MovedBetween(p, t, i, e)
<1>1. /\ WellFormed(p) /\ Shadowless(p) /\ S \in Histories(p) /\ t \in Declarations(p)
      /\ \A s \in 1 .. Len(p) : Recorded(p, S, m, s)
      /\ ArmsOf(p, i) = {}
  <2>1. WellFormed(p) /\ Shadowless(p) /\ S \in Histories(p) /\ t \in Declarations(p)
    BY DEF Told, InScope
  <2>2. \A a \in ArmsOf(p, i) : FALSE
    BY <2>1, Shape
  <2> QED
    BY <2>1, <2>2 DEF Told
<1>2. /\ i \in 1 .. Len(p) /\ e \in 1 .. Len(p) /\ i < e
      /\ {i, i + 1, e, e + 1} \subseteq 1 .. Len(p) + 1
      /\ e \in Ends(p) /\ OpenerOf(p, e) = i /\ Depth(p, e) = Depth(p, i) + 1
      /\ e \in i+1 .. e
  BY <1>1, BlockPositions
<1>3. S[i][t] \in Symbols /\ S[e][t] \in Symbols /\ S[e+1][t] \in Symbols
  BY <1>1, <1>2 DEF Histories
<1>4. mv \in BOOLEAN
  BY DEF MovedBetween
<1>5. S[i+1][t] = S[i][t]
  BY <1>1, <1>2 DEF Recorded, RecordedStep
<1>6. RecordedEnd(p, S, i, e)
  BY <1>1, <1>2 DEF Recorded
<1>7. Keeps(S[i][t], S[e][t], mv)
  <2>1. KeptTo(p, S, e)
    BY <1>2
  <2> QED
    BY <1>1, <1>2, <1>5, <2>1 DEF KeptTo
<1>8. CASE p[i].op = "while"
  <2>1. S[e+1][t] = Promote(S[e][t], S[i][t].voided)
    BY <1>1, <1>6, <1>8 DEF RecordedEnd
  <2>2. Keeps(S[i][t], S[e+1][t], mv) /\ (S[e+1][t].voided => S[i][t].voided)
    BY <1>3, <1>4, <1>7, <2>1, PromoteKeeps
  <2> QED
    BY <1>1, <1>8, <2>2 DEF KeptByBlock
<1>9. CASE p[i].op = "for"
  <2>1. S[e+1] = S[e]
    BY <1>6, <1>9 DEF RecordedEnd
  <2>2. Keeps(S[i][t], S[e+1][t], mv)
    BY <1>7, <2>1
  <2> QED
    BY <1>1, <1>9, <2>2 DEF KeptByBlock, Keeps
<1> QED
  BY <1>8, <1>9

LEMMA OverGuard ==
  ASSUME NEW p, NEW S, NEW m, Told(p, S, m), NEW i \in Openers(p),
         \A s \in i+1 .. EndOf(p, i) : KeptTo(p, S, s),
         NEW t \in InScope(p, i), p[i].op = "switch"
  PROVE  KeptByBlock(p, S, i, t)
<1> DEFINE e == EndOf(p, i)
           mv == MovedBetween(p, t, i, e)
           v == VarAt(p, i)
<1>1. /\ WellFormed(p) /\ S \in Histories(p) /\ t \in Declarations(p)
      /\ \A s \in 1 .. Len(p) : Recorded(p, S, m, s)
  BY DEF Told, InScope
<1>2. /\ i \in 1 .. Len(p) /\ e \in 1 .. Len(p) /\ i < e
      /\ {i, i + 1, e, e + 1} \subseteq 1 .. Len(p) + 1
      /\ e \in Ends(p) /\ OpenerOf(p, e) = i /\ Depth(p, e) = Depth(p, i) + 1
      /\ \A a \in ArmsOf(p, i) :
           /\ a \in Arms(p) /\ i < a /\ a + 1 <= e /\ a < e
           /\ {a, a + 1} \subseteq 1 .. Len(p) + 1 /\ a \in 1 .. Len(p)
           /\ OpenerOf(p, a) = i
           /\ Depth(p, a) = Depth(p, i) + 1
      /\ e \in i+1 .. e /\ \A a \in ArmsOf(p, i) : a \in i+1 .. e
  BY <1>1, BlockPositions
<1>3. \A s \in 1 .. Len(p) + 1 :
        S[s] \in [Declarations(p) -> Symbols] /\ S[s][t] \in Symbols
  BY <1>1 DEF Histories
<1>4. v \in Declarations(p)
  BY <1>1, <1>2, VarIs
<1>5. S[i+1][t] \in Symbols /\ S[i+1][t] = IF t = v THEN Valid ELSE S[i][t]
  <2>1. S[i+1] = [S[i] EXCEPT ![v] = Valid]
    BY <1>1, <1>2 DEF Recorded, RecordedStep
  <2>2. S[i] \in [Declarations(p) -> Symbols] /\ S[i+1][t] \in Symbols
    BY <1>2, <1>3
  <2> QED
    BY <1>1, <2>1, <2>2
<1>6. RecordedEnd(p, S, i, e)
  BY <1>1, <1>2 DEF Recorded
\* At the end of the arm that starts at b, where the guard leaves the state y.
<1>7. ASSUME NEW b \in i+1 .. e, b \in 1 .. Len(p), \A c \in ArmsOf(p, i) : b <= c,
             Depth(p, b) = Depth(p, i) + 1, S[b+1] = LeftArm(p, i, S[i], S[b])
      PROVE  /\ Keeps(S[i][t], S[b+1][t], MovedBetween(p, t, i, b))
             /\ S[b+1][t] = Valid => S[b][t] = Valid /\ S[i][t] = Valid
  <2> DEFINE f == S[i][t]
             h == S[i+1][t]
             x == S[b][t]
             y == S[b+1][t]
             m1 == MovedBetween(p, t, i, b)
  <2>1. m1 \in BOOLEAN /\ f \in Symbols /\ h \in Symbols /\ x \in Symbols /\ y \in Symbols
    <3>1. b \in 1 .. Len(p) + 1 /\ b + 1 \in 1 .. Len(p) + 1
      BY <1>7
    <3> QED
      BY <1>2, <1>3, <1>5, <3>1 DEF MovedBetween
  <2>2. Keeps(h, x, m1)
    <3>1. KeptTo(p, S, b)
      BY <1>7
    <3>2. i < b /\ b <= e
      BY <1>2, <1>7
    <3> QED
      BY <1>7, <3>1, <3>2 DEF KeptTo
  <2>3. \/ h = f /\ y = x
        \/ f # Valid /\ y = f
    <3>1. y = IF t = v /\ f # Valid THEN f ELSE x
      <4>1. /\ S[i] \in [Declarations(p) -> Symbols]
            /\ S[b] \in [Declarations(p) -> Symbols]
        <5>1. b \in 1 .. Len(p) + 1
          BY <1>7
        <5> QED
          BY <1>2, <1>3, <5>1
      <4> QED
        BY <1>1, <1>4, <1>7, <4>1, LeftArmIs
    <3> QED
      BY <1>5, <3>1
  <2> HIDE DEF f, h, x, y, m1
  <2>4. Keeps(f, y, m1) /\ (y = Valid => x = Valid /\ f = Valid)
    BY <2>1, <2>2, <2>3, GuardKeeps
  <2> QED
    BY <2>4 DEF f, x, y, m1
<1>8. CASE ArmsOf(p, i) = {}
  <2>1. S[e+1] = LeftArm(p, i, S[i], S[e])
    BY <1>6, <1>8 DEF RecordedEnd
  <2>2. /\ Keeps(S[i][t], S[e+1][t], mv)
        /\ S[e+1][t] = Valid => S[e][t] = Valid /\ S[i][t] = Valid
    BY <1>2, <1>7, <1>8, <2>1
  <2> QED
    BY <1>8, <2>2 DEF KeptByBlock, Keeps
<1>9. ASSUME NEW a \in ArmsOf(p, i)
      PROVE  KeptByBlock(p, S, i, t)
  <2> DEFINE m1 == MovedBetween(p, t, i, a)
             m2 == MovedBetween(p, t, a, e)
  <2>1. m1 \in BOOLEAN /\ m2 \in BOOLEAN /\ mv \in BOOLEAN /\ ArmsOf(p, i) = {a}
    BY <1>1, Shape DEF MovedBetween
  <2>2. S[a+1] = LeftArm(p, i, S[i], S[a])
    <3>1. RecordedArm(p, S, i, a)
      BY <1>1, <1>2 DEF Recorded
    <3> QED
      BY <3>1 DEF RecordedArm
  <2>3. /\ Keeps(S[i][t], S[a+1][t], m1)
        /\ S[a+1][t] = Valid => S[a][t] = Valid /\ S[i][t] = Valid
    <3>1. \A c \in ArmsOf(p, i) : a <= c
      BY <1>2, <2>1
    <3> QED
      BY <1>2, <1>7, <2>2, <3>1
  <2>4. Keeps(S[a+1][t], S[e][t], m2)
    <3>1. KeptTo(p, S, e)
      BY <1>2
    <3>2. \A c \in ArmsOf(p, i) : a < c => e <= c
      BY <1>2, <2>1
    <3> QED
      BY <1>2, <3>1, <3>2 DEF KeptTo
  <2>5. S[e+1] = S[e]
    BY <1>6, <2>1 DEF RecordedEnd
  <2>6. mv <=> m1 \/ m2
    <3>1. a \notin Moves(p)
      BY <1>1, <1>2, Shape
    <3> QED
      BY <1>1, <1>2, <3>1, MovedSplit
  <2> HIDE DEF m1, m2, mv, e
  <2>7. Keeps(S[i][t], S[e+1][t], mv)
    BY <2>1, <2>3, <2>4, <2>5, <2>6 DEF Keeps
  <2>8. S[e+1][t] = Valid => S[e][t] = Valid /\ S[a][t] = Valid
    BY <2>3, <2>4, <2>5 DEF Keeps
  <2>9. ~mv => /\ S[a+1][t].voided => S[i][t].voided
               /\ S[e+1][t].voided => S[i][t].voided
    BY <2>3, <2>6, <2>7 DEF Keeps
  <2> QED
    BY <2>1, <2>3, <2>7, <2>8, <2>9 DEF KeptByBlock, mv, e
<1> QED
  BY <1>8, <1>9

LEMMA OverBlock ==
  ASSUME NEW p, NEW S, NEW m, Told(p, S, m), NEW i \in Openers(p),
         \A s \in i+1 .. EndOf(p, i) : KeptTo(p, S, s), NEW t \in InScope(p, i)
  PROVE  KeptByBlock(p, S, i, t)
<1>1. p[i].op \in {"if", "while", "for", "switch"}
  BY DEF Openers
<1> QED
  BY <1>1, OverIf, OverLoop, OverGuard

\* One more statement of an arm.
LEMMA KeptNext ==
  ASSUME NEW p, NEW S, NEW m, Told(p, S, m), NEW s \in 1 .. Len(p) + 1,
         \A u \in 1 .. s - 1 : KeptTo(p, S, u)
  PROVE  KeptTo(p, S, s)
<1>1. /\ WellFormed(p) /\ Armed(p) /\ Balanced(p) /\ S \in Histories(p)
      /\ Len(p) \in Nat /\ DOMAIN p = 1 .. Len(p)
      /\ Openers(p) \subseteq 1 .. Len(p) /\ Arms(p) \subseteq 1 .. Len(p)
      /\ Ends(p) \subseteq 1 .. Len(p)
      /\ \A r \in 1 .. Len(p) : Recorded(p, S, m, r)
  <2>1. WellFormed(p) /\ S \in Histories(p) /\ \A r \in 1 .. Len(p) : Recorded(p, S, m, r)
    BY DEF Told
  <2> QED
    BY <2>1, Shape
<1> SUFFICES ASSUME NEW i \in Openers(p), NEW b \in {i} \cup ArmsOf(p, i),
                    b < s, s <= EndOf(p, i), Depth(p, s) = Depth(p, i) + 1,
                    \A a \in ArmsOf(p, i) : b < a => s <= a,
                    NEW t \in InScope(p, i)
             PROVE  Keeps(S[b+1][t], S[s][t], MovedBetween(p, t, b, s))
  BY DEF KeptTo
<1> DEFINE e == EndOf(p, i)
           r == s - 1
<1>2. /\ i \in 1 .. Len(p) /\ e \in 1 .. Len(p) /\ i < e
      /\ \A a \in ArmsOf(p, i) : a \in Arms(p) /\ a \in 1 .. Len(p) /\ i < a /\ Depth(p, a) = Depth(p, i) + 1
  BY <1>1, BlockPositions
<1>3. b \in 1 .. Len(p) /\ i <= b
  BY <1>2
<1>4. t \in Declarations(p) /\ t < i
  BY <1>1, InScopeFlow
<1>5. CASE s = b + 1
  <2>1. ~MovedBetween(p, t, b, s)
    <3>1. \A k \in 1 .. Len(p) : ~(b < k /\ k < s)
      BY <1>3, <1>5
    <3> QED
      BY <1>1, <3>1, Shape DEF MovedBetween
  <2> QED
    BY <1>5, <2>1 DEF Keeps
<1>6. CASE s # b + 1
  <2>1. /\ r \in 1 .. Len(p) /\ r \in 1 .. s - 1 /\ r \in 1 .. Len(p) + 1 /\ b < r /\ i < r /\ r < s /\ r <= e
        /\ s = r + 1 /\ r \in i+1 .. e /\ r \in DOMAIN p
    BY <1>1, <1>2, <1>3, <1>6
  <2>2. /\ Depth(p, r) \in Nat /\ Depth(p, i) \in Nat /\ Depth(p, i) < Depth(p, r)
        /\ r \in Openers(p) => Depth(p, s) = Depth(p, r) + 1
        /\ r \in Ends(p) => Depth(p, s) = Depth(p, r) - 1
        /\ r \notin Openers(p) \cup Ends(p) => Depth(p, s) = Depth(p, r)
    <3>1. i \in 1 .. Len(p) + 1
      BY <1>2
    <3> QED
      BY <1>1, <2>1, <3>1, Depths, BlockEnd
  <2>3. r \notin Openers(p)
    BY <2>2
  <2>4. r \notin Arms(p)
    <3>1. SUFFICES ASSUME r \in Arms(p)
                   PROVE  FALSE
      OBVIOUS
    <3>2. r \notin Ends(p)
      BY <2>1, <3>1 DEF Arms, Ends
    <3>3. Inside(p, i, r) /\ Depth(p, r) = Depth(p, i) + 1 /\ Depth(p, r) > 0
      BY <1>1, <2>1, <2>2, <2>3, <3>2, BlockSpan
    <3>4. i = OpenerOf(p, r)
      BY <1>1, <2>1, <3>3, OpenerIs
    <3>5. r \in ArmsOf(p, i)
      BY <1>1, <3>1, <3>4, ArmIs
    <3> QED
      BY <2>1, <3>5
  <2>5. S[r] \in [Declarations(p) -> Symbols] /\ S[r][t] \in Symbols
    BY <1>1, <1>4, <2>1 DEF Histories
  <2>6. CASE r \in Ends(p)
    <3> DEFINE j == OpenerOf(p, r)
    <3>1. j \in Openers(p) /\ EndOf(p, j) = r /\ j \in 1 .. Len(p) /\ j < r
      BY <1>1, <2>6, EndCloses, BlockPositions
    <3>2. Depth(p, j) = Depth(p, i) + 1 /\ Depth(p, j) \in Nat
      <4>1. Depth(p, r) = Depth(p, j) + 1
        BY <1>1, <3>1, BlockEnd
      <4>2. j \in 1 .. Len(p) + 1
        BY <3>1
      <4>3. Depth(p, j) \in Nat
        BY <1>1, <4>2, Depths
      <4> QED
        BY <2>2, <2>6, <4>1, <4>3
    <3>3. \A k \in j+1 .. r : Depth(p, j) < Depth(p, k)
      BY <1>1, <3>1, BlockEnd
    <3> HIDE DEF j
    <3>4. b < j
      <4>1. b # j
        BY <1>2, <2>2, <3>1, <3>2 DEF Arms, Openers
      <4>2. Depth(p, b) <= Depth(p, i) + 1 /\ Depth(p, b) \in Nat
        BY <1>2, <2>2
      <4>3. b \notin j+1 .. r
        BY <2>2, <3>2, <3>3, <4>2
      <4> QED
        BY <1>3, <2>1, <3>1, <4>1, <4>3
    <3>5. Keeps(S[b+1][t], S[j][t], MovedBetween(p, t, b, j))
      <4>1. j \in 1 .. s - 1 /\ j <= e /\ \A a \in ArmsOf(p, i) : b < a => j <= a
        <5>1. ASSUME NEW a \in ArmsOf(p, i), b < a
              PROVE  j <= a
          BY <1>2, <2>1, <3>1, <5>1
        <5>2. j \in 1 .. s - 1 /\ j <= e
          BY <1>2, <2>1, <3>1
        <5> QED
          BY <5>1, <5>2
      <4>2. KeptTo(p, S, j)
        BY <4>1
      <4> QED
        BY <3>2, <3>4, <4>1, <4>2 DEF KeptTo
    <3>6. Keeps(S[j][t], S[s][t], MovedBetween(p, t, j, r))
      <4>1. t \in InScope(p, j)
        <5>1. j \in i .. e + 1
          BY <1>2, <1>3, <2>1, <3>1, <3>4
        <5> QED
          BY <1>1, <5>1, InScopeFlow
      <4>2. \A u \in j+1 .. EndOf(p, j) : KeptTo(p, S, u)
        BY <2>1, <3>1
      <4>3. KeptByBlock(p, S, j, t)
        BY <3>1, <4>1, <4>2, OverBlock
      <4> QED
        BY <2>1, <3>1, <4>3 DEF KeptByBlock
    <3>7. MovedBetween(p, t, b, s) <=> MovedBetween(p, t, b, j) \/ MovedBetween(p, t, j, r)
      <4>1. j \notin Moves(p) /\ r \notin Moves(p)
        BY <1>1, <2>6, <3>1, Shape
      <4>2. MovedBetween(p, t, b, r) <=> MovedBetween(p, t, b, j) \/ MovedBetween(p, t, j, r)
        <5>1. b \in 1 .. Len(p) + 1 /\ j \in 1 .. Len(p) + 1
          BY <1>3, <3>1
        <5> QED
          BY <1>1, <2>1, <3>1, <3>4, <4>1, <5>1, MovedSplit
      <4>3. MovedBetween(p, t, b, s) <=> MovedBetween(p, t, b, r)
        BY <1>1, <1>3, <2>1, <4>1, MovedNext
      <4> QED
        BY <4>2, <4>3
    <3> QED
      BY <3>5, <3>6, <3>7 DEF Keeps
  <2>7. CASE r \notin Ends(p)
    <3>1. Keeps(S[b+1][t], S[r][t], MovedBetween(p, t, b, r))
      <4>1. \A a \in ArmsOf(p, i) : b < a => r <= a
        BY <1>2, <2>1
      <4>2. KeptTo(p, S, r) /\ Depth(p, r) = Depth(p, i) + 1
        BY <2>1, <2>2, <2>3, <2>7
      <4> QED
        BY <2>1, <4>1, <4>2 DEF KeptTo
    <3>2. RecordedStep(p, S, m, r) /\ p[r].op \in {"decl", "use", "assign", "move"}
      <4>1. RecordedStep(p, S, m, r)
        BY <1>1, <2>1 DEF Recorded
      <4> QED
        BY <2>1, <2>3, <2>4, <2>7, <4>1 DEF RecordedStep, Ops, Openers, Arms, Ends
    <3>3. CASE p[r].op = "move" /\ VarAt(p, r) = t
      <4>1. S[s] = [S[r] EXCEPT ![t].voided = TRUE]
        BY <2>1, <3>2, <3>3 DEF RecordedStep
      <4>2. S[s][t] = [S[r][t] EXCEPT !.voided = TRUE]
        BY <1>4, <2>5, <4>1
      <4>3. S[s][t].voided = TRUE /\ S[s][t].maybe = S[r][t].maybe
        BY <2>5, <4>2, SymbolIs
      <4>4. MovedBetween(p, t, b, s)
        BY <2>1, <3>3 DEF MovedBetween, Moves
      <4> QED
        BY <3>1, <4>3, <4>4, SymbolIs DEF Keeps
    <3>4. CASE ~(p[r].op = "move" /\ VarAt(p, r) = t)
      <4>1. S[s][t] = S[r][t]
        <5>1. CASE p[r].op = "decl"
          <6>1. S[s] = [S[r] EXCEPT ![r] = Valid]
            BY <2>1, <3>2, <5>1 DEF RecordedStep
          <6>2. t # r
            BY <1>2, <1>4, <2>1
          <6> QED
            BY <1>4, <2>5, <6>1, <6>2
        <5>2. CASE p[r].op \in {"use", "assign"}
          BY <2>1, <3>2, <5>2 DEF RecordedStep
        <5>3. CASE p[r].op = "move"
          <6>1. S[s] = [S[r] EXCEPT ![VarAt(p, r)].voided = TRUE] /\ VarAt(p, r) # t
            BY <2>1, <3>2, <3>4, <5>3 DEF RecordedStep
          <6> QED
            BY <1>4, <2>5, <6>1
        <5> QED
          BY <3>2, <5>1, <5>2, <5>3
      <4>2. MovedBetween(p, t, b, s) <=> MovedBetween(p, t, b, r)
        BY <1>1, <1>3, <2>1, <3>4, MovedNext DEF Moves
      <4> QED
        BY <3>1, <4>1, <4>2 DEF Keeps
    <3> QED
      BY <3>3, <3>4
  <2> QED
    BY <2>6, <2>7
<1> QED
  BY <1>5, <1>6

\* By induction over the text, blocks keep what their moves allow.
LEMMA BlocksKeep ==
  ASSUME NEW p, NEW S, NEW m, Told(p, S, m)
  PROVE  \A i \in Openers(p) : \A t \in InScope(p, i) : KeptByBlock(p, S, i, t)
<1> DEFINE F == {s \in 1 .. Len(p) + 1 : ~KeptTo(p, S, s)}
<1>1. WellFormed(p) /\ Len(p) \in Nat
  <2>1. WellFormed(p)
    BY DEF Told
  <2> QED
    BY <2>1, Shape
<1>2. F = {}
  <2> SUFFICES ASSUME F # {}
               PROVE  FALSE
    OBVIOUS
  <2>1. F \subseteq Nat
    BY <1>1
  <2>2. PICK s \in F : \A u \in F : s <= u
    <3> HIDE DEF F
    <3> QED
      BY <2>1, LeastNumber
  <2>3. \A u \in 1 .. s - 1 : KeptTo(p, S, u)
    <3>1. \A u \in 1 .. s - 1 : u \in 1 .. Len(p) + 1 /\ ~(s <= u)
      BY <1>1
    <3> QED
      BY <2>2, <3>1
  <2>4. KeptTo(p, S, s)
    BY <2>3, KeptNext
  <2> QED
    BY <2>4
<1>3. ASSUME NEW i \in Openers(p)
      PROVE  \A s \in i+1 .. EndOf(p, i) : KeptTo(p, S, s)
  <2>1. i \in 1 .. Len(p) /\ EndOf(p, i) \in 1 .. Len(p)
    BY <1>1, BlockPositions
  <2>2. \A s \in i+1 .. EndOf(p, i) : s \in 1 .. Len(p) + 1
    BY <1>1, <2>1
  <2> QED
    BY <1>2, <2>2
<1> QED
  BY <1>3, OverBlock

-----------------------------------------------------------------------------
(***************************************************************************)
(* The pass of the checker.                                                *)
(***************************************************************************)
\* The statement that the checker has not recorded yet.
Frontier == IF phase \in {"check", "rejected"} THEN pc ELSE Len(prog) + 1

\* The state of the symbols at each statement.
History == [s \in 1 .. Len(prog) + 1 |-> IF s < Frontier THEN facts[s] ELSE sym]

SnapshotIn(p, s, f) ==
  [x \in {p[t].x : t \in InScope(p, s)} |->
     f[LastOf({t \in InScope(p, s) : p[t].x = x})].voided]

Snapshots(p) == UNION {[N -> BOOLEAN] : N \in SUBSET {p[t].x : t \in Declarations(p)}}
Frame(p) == [before : Snapshots(p), then : Snapshots(p), saved : Symbols]

\* f is what the block that i opens has put on the stack before statement u.
FrameIs(p, S, u, i, f) ==
  /\ p[i].op # "switch" =>
       /\ f.before = SnapshotIn(p, i, S[i])
       /\ \A a \in ArmsOf(p, i) : a < u => f.then = SnapshotIn(p, i, S[a])
  /\ p[i].op = "switch" => f.saved = S[i][VarAt(p, i)]

\* One frame for each block around u.
Framed(p, S, u, fr) ==
  /\ Len(fr) = Depth(p, u)
  /\ \A i \in Openers(p) : Inside(p, i, u) => FrameIs(p, S, u, i, fr[Depth(p, i) + 1])

CheckTypes ==
  /\ prog \in Programs
  /\ phase \in {"check", "rejected", "run", "done"}
  /\ pc \in 1 .. Len(prog) + 1
  /\ sym \in [Declarations(prog) -> Symbols]
  /\ facts \in [DOMAIN prog -> [Declarations(prog) -> Symbols]]
  /\ meta \in [Guards(prog) -> {"none", "valid", "voided", "unknown"}]
  /\ frames \in Seq(Frame(prog))
  /\ phase \in {"run", "done"} => frames = << >>

RunTypes ==
  /\ moved \in [Declarations(prog) -> BOOLEAN]
  /\ flag \in [{u \in Declarations(prog) : ~prog[u].managed} -> BOOLEAN]
  /\ trips \in 0 .. MaxTrips

CheckInv ==
  /\ CheckTypes
  /\ phase = "check" => Framed(prog, History, pc, frames)
  /\ \A s \in 1 .. Frontier - 1 : Recorded(prog, History, meta, s)

LEMMA SnapshotIs ==
  ASSUME NEW p, WellFormed(p), NEW s \in 1 .. Len(p) + 1,
         NEW f \in [Declarations(p) -> Symbols]
  PROVE  /\ SnapshotIn(p, s, f) \in Snapshots(p)
         /\ \A t \in InScope(p, s) :
              /\ SnapshotIn(p, s, f)[p[t].x] \in BOOLEAN
              /\ Shadowless(p) => SnapshotIn(p, s, f)[p[t].x] = f[t].voided
<1> DEFINE N == {p[t].x : t \in InScope(p, s)}
           Of(x) == {t \in InScope(p, s) : p[t].x = x}
<1>1. /\ Len(p) \in Nat
      /\ \A t \in InScope(p, s) : t \in Declarations(p) /\ t \in 1 .. Len(p)
  BY Shape, InScopeFlow
<1>2. ASSUME NEW x \in N
      PROVE  LastOf(Of(x)) \in Of(x)
  <2>1. Of(x) \subseteq 1 .. Len(p) /\ Of(x) # {} /\ Of(x) \subseteq Int
    BY <1>1
  <2> HIDE DEF Of
  <2>2. PICK t \in Of(x) : \A u \in Of(x) : u <= t
    BY <1>1, <2>1, GreatestNumber
  <2>3. LastOf(Of(x)) = t
    BY <2>1, <2>2, LastIs
  <2> QED
    BY <2>3
<1>3. SnapshotIn(p, s, f) = [x \in N |-> f[LastOf(Of(x))].voided]
  BY DEF SnapshotIn
<1>4. ASSUME NEW x \in N
      PROVE  f[LastOf(Of(x))].voided \in BOOLEAN
  <2>1. LastOf(Of(x)) \in Declarations(p)
    BY <1>1, <1>2
  <2> QED
    BY <2>1, SymbolIs
<1>5. N \subseteq {p[t].x : t \in Declarations(p)}
  BY <1>1
<1>6. ASSUME NEW t \in InScope(p, s), Shadowless(p)
      PROVE  LastOf(Of(p[t].x)) = t
  <2>1. LastOf(Of(p[t].x)) \in InScope(p, s) /\ p[LastOf(Of(p[t].x))].x = p[t].x
    BY <1>2
  <2> QED
    BY <1>6, <2>1, OneName
<1> HIDE DEF N, Of
<1>7. SnapshotIn(p, s, f) \in [N -> BOOLEAN]
  BY <1>3, <1>4
<1>8. \A t \in InScope(p, s) : p[t].x \in N
  BY DEF N
<1> QED
  BY <1>3, <1>5, <1>6, <1>7, <1>8 DEF Snapshots

\* Recording one more statement leaves what has been recorded.
LEMMA RecordedSame ==
  ASSUME NEW p, WellFormed(p), NEW S, NEW S2, NEW m, NEW m2, NEW u \in 1 .. Len(p),
         \A s \in 1 .. u : S2[s] = S[s], \A i \in Guards(p) : i < u => m2[i] = m[i],
         NEW s \in 1 .. u - 1, Recorded(p, S, m, s)
  PROVE  Recorded(p, S2, m2, s)
<1>1. /\ Len(p) \in Nat /\ DOMAIN p = 1 .. Len(p) /\ Armed(p) /\ Balanced(p)
      /\ s \in 1 .. Len(p) /\ s \in DOMAIN p /\ s < u
      /\ S2[s] = S[s] /\ S2[s+1] = S[s+1]
  <2>1. /\ Len(p) \in Nat /\ DOMAIN p = 1 .. Len(p) /\ Armed(p) /\ Balanced(p)
        /\ Openers(p) \subseteq 1 .. Len(p)
    BY Shape
  <2>2. s \in 1 .. Len(p) /\ s < u /\ s \in 1 .. u /\ s + 1 \in 1 .. u
    BY <2>1
  <2> QED
    BY <2>1, <2>2
<1>2. RecordedStep(p, S2, m2, s)
  <2>1. p[s].op = "switch" => m2[s] = m[s]
    BY <1>1 DEF Guards
  <2> QED
    BY <1>1, <2>1 DEF Recorded, RecordedStep
<1>3. ASSUME s \in Arms(p)
      PROVE  RecordedArm(p, S2, OpenerOf(p, s), s)
  <2> DEFINE i == OpenerOf(p, s)
  <2>1. i \in Openers(p) /\ s \in ArmsOf(p, i)
    BY <1>1, <1>3, ArmIs
  <2>2. i \in 1 .. Len(p) /\ i < s
    BY <2>1, BlockPositions
  <2>3. i \in 1 .. u
    BY <1>1, <2>2
  <2>4. S2[i] = S[i]
    BY <2>3
  <2> QED
    BY <1>1, <1>3, <2>4 DEF Recorded, RecordedArm
<1>4. ASSUME s \in Ends(p)
      PROVE  RecordedEnd(p, S2, OpenerOf(p, s), s)
  <2> DEFINE i == OpenerOf(p, s)
  <2>1. i \in Openers(p) /\ EndOf(p, i) = s
    BY <1>1, <1>4, EndCloses
  <2>2. /\ i \in 1 .. Len(p) /\ i < s
        /\ \A a \in ArmsOf(p, i) : a \in 1 .. Len(p) /\ a < s
    BY <2>1, BlockPositions
  <2>3. i \in 1 .. u /\ \A a \in ArmsOf(p, i) : a \in 1 .. u
    BY <1>1, <2>2
  <2>4. S2[i] = S[i] /\ \A a \in ArmsOf(p, i) : S2[a] = S[a]
    BY <2>3
  <2> QED
    BY <1>1, <1>4, <2>4 DEF Recorded, RecordedEnd
<1> QED
  BY <1>2, <1>3, <1>4 DEF Recorded

\* The frame of the innermost block is on top.
LEMMA TopIs ==
  ASSUME NEW p, WellFormed(p), NEW S, NEW u \in Arms(p) \cup Ends(p), NEW fr,
         Framed(p, S, u, fr)
  PROVE  /\ OpenerOf(p, u) \in Openers(p) /\ OpenerOf(p, u) \in 1 .. Len(p) /\ OpenerOf(p, u) < u
         /\ Inside(p, OpenerOf(p, u), u)
         /\ Len(fr) = Depth(p, OpenerOf(p, u)) + 1
         /\ Depth(p, OpenerOf(p, u)) \in Nat
         /\ FrameIs(p, S, u, OpenerOf(p, u), fr[Len(fr)])
<1> DEFINE i == OpenerOf(p, u)
<1>1. /\ Armed(p) /\ Balanced(p) /\ Len(p) \in Nat
      /\ Openers(p) \subseteq 1 .. Len(p) /\ u \in 1 .. Len(p) /\ u \in 1 .. Len(p) + 1
  BY Shape
<1>2. Depth(p, u) > 0
  <2>1. CASE u \in Arms(p)
    BY <2>1 DEF WellFormed
  <2>2. CASE u \in Ends(p)
    <3>1. Depth(p, u+1) = Depth(p, u) - 1 /\ Depth(p, u+1) \in Nat /\ Depth(p, u) \in Nat
      BY <1>1, <2>2, Depths
    <3> QED
      BY <3>1
  <2> QED
    BY <2>1, <2>2
<1>3. Inside(p, i, u) /\ Depth(p, u) = Depth(p, i) + 1
  BY <1>1, <1>2, OpenerIs
<1>4. i \in Openers(p) /\ i < u
  BY <1>3 DEF Inside
<1>5. Depth(p, i) \in Nat
  <2>1. i \in 1 .. Len(p) + 1
    BY <1>1, <1>4
  <2> QED
    BY <1>1, <2>1, Depths
<1> QED
  BY <1>1, <1>3, <1>4, <1>5 DEF Framed

\* The frame of a block stays what it is while no arm of the block ends.
LEMMA FrameSame ==
  ASSUME NEW p, WellFormed(p), NEW S, NEW S2, NEW u \in 1 .. Len(p),
         \A s \in 1 .. u : S2[s] = S[s],
         NEW i \in Openers(p), i < u, NEW f, FrameIs(p, S, u, i, f),
         u \in ArmsOf(p, i) => p[i].op = "switch"
  PROVE  FrameIs(p, S2, u + 1, i, f)
<1>1. /\ Len(p) \in Nat /\ i \in 1 .. Len(p) /\ i \in 1 .. u
      /\ \A a \in ArmsOf(p, i) : a \in 1 .. Len(p) /\ (a < u + 1 => a = u \/ a < u)
      /\ \A a \in ArmsOf(p, i) : a < u => a \in 1 .. u
  <2>1. Len(p) \in Nat /\ i \in 1 .. Len(p) /\ \A a \in ArmsOf(p, i) : a \in 1 .. Len(p)
    BY Shape, BlockPositions
  <2> QED
    BY <2>1
<1>2. S2[i] = S[i] /\ \A a \in ArmsOf(p, i) : a < u => S2[a] = S[a]
  BY <1>1
<1> QED
  BY <1>1, <1>2 DEF FrameIs

LEMMA FramedNext ==
  ASSUME NEW p, WellFormed(p), NEW S, NEW S2, NEW u \in 1 .. Len(p),
         \A s \in 1 .. u : S2[s] = S[s],
         NEW fr, NEW fr2, Framed(p, S, u, fr),
         \/ /\ u \notin Openers(p) \cup Ends(p)
            /\ u \in Arms(p) => p[OpenerOf(p, u)].op = "switch"
            /\ fr2 = fr
         \/ /\ u \in Openers(p)
            /\ Len(fr2) = Len(fr) + 1
            /\ \A k \in 1 .. Len(fr) : fr2[k] = fr[k]
            /\ p[u].op # "switch" => fr2[Len(fr) + 1].before = SnapshotIn(p, u, S[u])
            /\ p[u].op = "switch" => fr2[Len(fr) + 1].saved = S[u][VarAt(p, u)]
         \/ /\ u \in Arms(p) /\ p[OpenerOf(p, u)].op # "switch"
            /\ Len(fr2) = Len(fr)
            /\ \A k \in 1 .. Len(fr) - 1 : fr2[k] = fr[k]
            /\ fr2[Len(fr)].before = fr[Len(fr)].before
            /\ fr2[Len(fr)].then = SnapshotIn(p, OpenerOf(p, u), S[u])
         \/ /\ u \in Ends(p)
            /\ Len(fr2) = Len(fr) - 1
            /\ \A k \in 1 .. Len(fr) - 1 : fr2[k] = fr[k]
  PROVE  Framed(p, S2, u + 1, fr2)
<1>1. /\ Armed(p) /\ Balanced(p) /\ Len(p) \in Nat
      /\ Openers(p) \subseteq 1 .. Len(p) /\ Arms(p) \subseteq 1 .. Len(p)
      /\ Openers(p) \cap Arms(p) = {} /\ Ends(p) \cap Arms(p) = {} /\ Openers(p) \cap Ends(p) = {}
      /\ u \in 1 .. Len(p) + 1
      /\ \A i \in Openers(p) : Depth(p, i) \in Nat
  <2>1. /\ Armed(p) /\ Balanced(p) /\ Len(p) \in Nat
        /\ Openers(p) \subseteq 1 .. Len(p) /\ Arms(p) \subseteq 1 .. Len(p)
    BY Shape
  <2>2. \A i \in Openers(p) : i \in 1 .. Len(p) + 1
    BY <2>1
  <2> QED
    BY <2>1, <2>2, Depths DEF Openers, Arms, Ends
<1>2. /\ Len(fr) = Depth(p, u) /\ Depth(p, u) \in Nat /\ Depth(p, u + 1) \in Nat
      /\ u \in Openers(p) => Depth(p, u+1) = Depth(p, u) + 1
      /\ u \in Ends(p) => Depth(p, u+1) = Depth(p, u) - 1
      /\ u \notin Openers(p) \cup Ends(p) => Depth(p, u+1) = Depth(p, u)
  <2>1. u + 1 \in 1 .. Len(p) + 1
    BY <1>1
  <2> QED
    BY <1>1, <2>1, Depths DEF Framed
<1>3. Len(fr2) = Depth(p, u + 1)
  BY <1>1, <1>2
\* A block around u that is around u + 1 too keeps its place.
<1>4. ASSUME NEW i \in Openers(p), Inside(p, i, u + 1), i # u
      PROVE  /\ Inside(p, i, u) /\ i < u
             /\ FrameIs(p, S, u, i, fr[Depth(p, i) + 1])
             /\ Depth(p, i) + 1 \in 1 .. Len(fr)
             /\ u \in Ends(p) => Depth(p, i) + 1 \in 1 .. Len(fr) - 1
  <2>1. Inside(p, i, u)
    BY <1>1, <1>4, InsideFlow
  <2>2. i < u /\ Depth(p, i) < Depth(p, u) /\ Depth(p, i) < Depth(p, u + 1)
    <3>1. i \in 1 .. Len(p) /\ i < u
      BY <1>1, <2>1 DEF Inside
    <3>2. u \in i+1 .. u /\ u + 1 \in i+1 .. u+1
      BY <1>1, <3>1
    <3> QED
      BY <1>4, <2>1, <3>1, <3>2 DEF Inside
  <2>3. FrameIs(p, S, u, i, fr[Depth(p, i) + 1])
    BY <2>1 DEF Framed
  <2>4. Depth(p, i) + 1 \in 1 .. Len(fr) /\ (u \in Ends(p) => Depth(p, i) + 1 \in 1 .. Len(fr) - 1)
    BY <1>1, <1>2, <2>2
  <2> QED
    BY <2>1, <2>2, <2>3, <2>4
<1> SUFFICES ASSUME NEW i \in Openers(p), Inside(p, i, u + 1)
             PROVE  FrameIs(p, S2, u + 1, i, fr2[Depth(p, i) + 1])
  BY <1>3 DEF Framed
<1>5. CASE u \notin Openers(p) \cup Ends(p) /\ fr2 = fr
           /\ (u \in Arms(p) => p[OpenerOf(p, u)].op = "switch")
  <2>1. i # u
    BY <1>5
  <2>2. u \in ArmsOf(p, i) => p[i].op = "switch"
    BY <1>1, <1>5, ArmIs
  <2> QED
    BY <1>4, <1>5, <2>1, <2>2, FrameSame
<1>6. CASE u \in Openers(p) /\ Len(fr2) = Len(fr) + 1
           /\ (\A k \in 1 .. Len(fr) : fr2[k] = fr[k])
           /\ (p[u].op # "switch" => fr2[Len(fr) + 1].before = SnapshotIn(p, u, S[u]))
           /\ (p[u].op = "switch" => fr2[Len(fr) + 1].saved = S[u][VarAt(p, u)])
  <2>1. CASE i = u
    <3>1. S2[u] = S[u] /\ \A a \in ArmsOf(p, u) : ~(a < u + 1)
      <4>1. \A a \in ArmsOf(p, u) : a \in 1 .. Len(p) /\ u < a
        BY <1>6, BlockPositions
      <4>2. u \in 1 .. u
        OBVIOUS
      <4> QED
        BY <4>1, <4>2
    <3> QED
      BY <1>2, <1>6, <2>1, <3>1 DEF FrameIs
  <2>2. CASE i # u
    <3>1. u \notin ArmsOf(p, i)
      BY <1>1, <1>6 DEF ArmsOf
    <3>2. fr2[Depth(p, i) + 1] = fr[Depth(p, i) + 1]
      BY <1>4, <1>6, <2>2
    <3> QED
      BY <1>4, <2>2, <3>1, <3>2, FrameSame
  <2> QED
    BY <2>1, <2>2
<1>7. CASE u \in Arms(p) /\ p[OpenerOf(p, u)].op # "switch"
           /\ Len(fr2) = Len(fr)
           /\ (\A k \in 1 .. Len(fr) - 1 : fr2[k] = fr[k])
           /\ fr2[Len(fr)].before = fr[Len(fr)].before
           /\ fr2[Len(fr)].then = SnapshotIn(p, OpenerOf(p, u), S[u])
  <2>1. i # u
    BY <1>1, <1>7
  <2>2. /\ Inside(p, OpenerOf(p, u), u) /\ Len(fr) = Depth(p, OpenerOf(p, u)) + 1
        /\ FrameIs(p, S, u, OpenerOf(p, u), fr[Len(fr)])
    BY <1>7, TopIs
  <2>3. CASE i = OpenerOf(p, u)
    <3>1. i \in 1 .. Len(p) /\ i \in 1 .. u /\ ArmsOf(p, i) = {u} /\ u \in 1 .. u
      <4>1. i \in 1 .. Len(p) /\ i \in 1 .. u
        BY <1>1, <1>4, <2>1
      <4>2. u \in ArmsOf(p, i)
        BY <1>1, <1>7, <2>3, ArmIs
      <4> QED
        BY <4>1, <4>2, Shape
    <3>2. S2[i] = S[i] /\ S2[u] = S[u]
      BY <3>1
    <3> QED
      BY <1>7, <2>2, <2>3, <3>1, <3>2 DEF FrameIs
  <2>4. CASE i # OpenerOf(p, u)
    <3>1. u \notin ArmsOf(p, i)
      BY <1>1, <2>4, ArmIs
    <3>2. Depth(p, i) + 1 # Len(fr)
      <4>1. Depth(p, u) > 0
        BY <1>2, <1>4, <2>1
      <4>2. Inside(p, i, u) /\ Depth(p, u) = Depth(p, i) + 1 => i = OpenerOf(p, u)
        BY <1>1, <4>1, OpenerIs
      <4> QED
        BY <1>2, <1>4, <2>1, <2>4, <4>2
    <3>3. fr2[Depth(p, i) + 1] = fr[Depth(p, i) + 1]
      <4>1. Depth(p, i) + 1 \in 1 .. Len(fr) - 1
        BY <1>1, <1>2, <1>4, <2>1, <3>2
      <4> QED
        BY <1>7, <4>1
    <3> QED
      BY <1>4, <2>1, <3>1, <3>3, FrameSame
  <2> QED
    BY <2>3, <2>4
<1>8. CASE u \in Ends(p) /\ Len(fr2) = Len(fr) - 1
           /\ (\A k \in 1 .. Len(fr) - 1 : fr2[k] = fr[k])
  <2>1. i # u /\ u \notin ArmsOf(p, i)
    BY <1>1, <1>8 DEF ArmsOf
  <2>2. fr2[Depth(p, i) + 1] = fr[Depth(p, i) + 1]
    BY <1>4, <1>8, <2>1
  <2> QED
    BY <1>4, <2>1, <2>2, FrameSame
<1> QED
  BY <1>5, <1>6, <1>7, <1>8

LEMMA CheckFacts ==
  ASSUME CheckInv
  PROVE  /\ WellFormed(prog) /\ Len(prog) \in Nat /\ DOMAIN prog = 1 .. Len(prog)
         /\ History \in Histories(prog)
         /\ \A s \in 1 .. Len(prog) + 1 : Stack(s) = InScope(prog, s)
         /\ phase = "check" => Frontier = pc /\ History[pc] = sym
<1>1. WellFormed(prog)
  BY ProgramsAssumption DEF CheckInv, CheckTypes
<1>2. Len(prog) \in Nat /\ DOMAIN prog = 1 .. Len(prog)
  BY <1>1, Shape
<1>3. \A s \in 1 .. Len(prog) + 1 : Stack(s) = InScope(prog, s)
  BY <1>1, StackIs DEF Stack
<1>4. Frontier \in 1 .. Len(prog) + 1
  BY <1>2 DEF Frontier, CheckInv, CheckTypes
<1>5. ASSUME NEW s \in 1 .. Len(prog) + 1
      PROVE  (IF s < Frontier THEN facts[s] ELSE sym) \in [Declarations(prog) -> Symbols]
  <2>1. s < Frontier => s \in DOMAIN prog
    BY <1>2, <1>4
  <2> QED
    BY <2>1 DEF CheckInv, CheckTypes
<1>6. History \in Histories(prog)
  BY <1>5 DEF History, Histories
<1>7. phase = "check" => Frontier = pc /\ History[pc] = sym
  <2>1. pc \in 1 .. Len(prog) + 1
    BY DEF CheckInv, CheckTypes
  <2>2. ~(pc < pc)
    BY <1>2, <2>1
  <2>3. phase = "check" => Frontier = pc
    BY DEF Frontier
  <2> QED
    BY <2>1, <2>2, <2>3 DEF History
<1> QED
  BY <1>1, <1>2, <1>3, <1>6, <1>7

\* A statement that passes the check is recorded.
LEMMA Passing ==
  ASSUME CheckInv, phase = "check", pc \in DOMAIN prog, Pass,
         sym' \in [Declarations(prog) -> Symbols],
         meta' \in [Guards(prog) -> {"none", "valid", "voided", "unknown"}],
         \A i \in Guards(prog) : i < pc => meta'[i] = meta[i],
         frames' \in Seq(Frame(prog)),
         \A S2 : S2[pc+1] = sym' /\ (\A s \in 1 .. pc : S2[s] = History[s]) =>
           Recorded(prog, S2, meta', pc) /\ Framed(prog, S2, pc + 1, frames')
  PROVE  CheckInv'
<1>1. /\ WellFormed(prog) /\ Len(prog) \in Nat /\ DOMAIN prog = 1 .. Len(prog)
      /\ Frontier = pc /\ History[pc] = sym /\ pc \in 1 .. Len(prog)
  BY CheckFacts
<1>2. /\ pc' = pc + 1 /\ facts' = [facts EXCEPT ![pc] = sym]
      /\ prog' = prog /\ phase' = "check"
      /\ Frontier' = pc + 1
  BY DEF Pass, Frontier
<1>3. History'[pc+1] = sym' /\ \A s \in 1 .. pc : History'[s] = History[s]
  <2>1. pc + 1 \in 1 .. Len(prog) + 1 /\ ~(pc + 1 < pc + 1)
    BY <1>1
  <2>2. History' = [s \in 1 .. Len(prog) + 1 |-> IF s < pc + 1 THEN facts'[s] ELSE sym']
    BY <1>2 DEF History
  <2>3. ASSUME NEW s \in 1 .. pc
        PROVE  History'[s] = History[s]
    <3>1. s \in 1 .. Len(prog) + 1 /\ s < pc + 1 /\ s \in DOMAIN prog /\ (s < pc \/ s = pc)
      BY <1>1
    <3>2. History'[s] = facts'[s]
      BY <2>2, <3>1
    <3>3. facts'[s] = IF s = pc THEN sym ELSE facts[s]
      BY <1>2, <3>1 DEF CheckInv, CheckTypes
    <3>4. s < pc => History[s] = facts[s]
      BY <1>1, <3>1 DEF History
    <3> QED
      BY <1>1, <3>1, <3>2, <3>3, <3>4
  <2> QED
    BY <2>1, <2>2, <2>3
<1>4. Recorded(prog, History', meta', pc) /\ Framed(prog, History', pc + 1, frames')
  BY <1>3
<1>5. ASSUME NEW s \in 1 .. pc
      PROVE  Recorded(prog, History', meta', s)
  <2>1. s = pc \/ s \in 1 .. pc - 1
    BY <1>1
  <2>2. CASE s \in 1 .. pc - 1
    <3>1. Recorded(prog, History, meta, s)
      BY <1>1, <2>2 DEF CheckInv
    <3> QED
      BY <1>1, <1>3, <2>2, <3>1, RecordedSame
  <2> QED
    BY <1>4, <2>1, <2>2
<1>6. CheckTypes'
  <2>1. pc + 1 \in 1 .. Len(prog) + 1
    BY <1>1
  <2>2. facts' \in [DOMAIN prog -> [Declarations(prog) -> Symbols]]
    BY <1>2 DEF CheckInv, CheckTypes
  <2> QED
    BY <1>2, <2>1, <2>2 DEF CheckInv, CheckTypes
<1>7. \A s \in 1 .. Frontier' - 1 : Recorded(prog, History', meta', s)
  <2>1. Frontier' - 1 = pc
    BY <1>1, <1>2
  <2> QED
    BY <1>5, <2>1
<1> QED
  BY <1>2, <1>4, <1>6, <1>7 DEF CheckInv

\* What holds of every statement that is not an arm or an end.
LEMMA RecordedSimple ==
  ASSUME NEW p, NEW S, NEW m, NEW s, p[s].op \notin {"else", "voided", "end"},
         RecordedStep(p, S, m, s)
  PROVE  Recorded(p, S, m, s)
BY DEF Recorded, Arms, Ends

LEMMA CheckSimple ==
  ASSUME CheckInv, CheckDecl \/ CheckUse \/ CheckAssign \/ CheckMove, Pass
  PROVE  CheckInv'
<1>1. /\ phase = "check" /\ pc \in DOMAIN prog /\ prog[pc].op \in {"decl", "use", "assign", "move"}
      /\ UNCHANGED <<frames, meta>>
  BY DEF CheckDecl, CheckUse, CheckAssign, CheckMove, Checking, Pass, Reject
<1>2. /\ WellFormed(prog) /\ pc \in 1 .. Len(prog) /\ Frontier = pc /\ History[pc] = sym
      /\ sym \in [Declarations(prog) -> Symbols] /\ Framed(prog, History, pc, frames)
      /\ Len(prog) \in Nat
  BY <1>1, CheckFacts DEF CheckInv, CheckTypes
<1>3. /\ pc \notin Openers(prog) \cup Ends(prog) /\ pc \notin Arms(prog)
      /\ prog[pc].op # "decl" => Here \in Declarations(prog)
  <2>1. prog[pc].op # "decl" => VarAt(prog, pc) \in Declarations(prog)
    BY <1>1, <1>2, VarIs
  <2> QED
    BY <1>1, <2>1 DEF Openers, Ends, Arms, Here
<1>4. /\ prog[pc].op = "decl" => sym' = [sym EXCEPT ![pc] = Valid]
      /\ prog[pc].op = "use" => sym' = sym /\ Usable(sym[Here])
      /\ prog[pc].op = "assign" => sym' = sym
      /\ prog[pc].op = "move" => sym' = [sym EXCEPT ![Here].voided = TRUE]
  BY <1>1 DEF CheckDecl, CheckUse, CheckAssign, CheckMove, Checking, Pass, Reject
<1>5. sym' \in [Declarations(prog) -> Symbols]
  <2>1. CASE prog[pc].op = "move"
    <3>1. [sym[Here] EXCEPT !.voided = TRUE] \in Symbols
      BY <1>2, <1>3, <2>1, SymbolIs
    <3> QED
      BY <1>2, <1>4, <2>1, <3>1
  <2>2. CASE prog[pc].op # "move"
    BY <1>1, <1>2, <1>4, <2>2, SymbolIs
  <2> QED
    BY <2>1, <2>2
<1>6. ASSUME NEW S2, S2[pc+1] = sym', \A s \in 1 .. pc : S2[s] = History[s]
      PROVE  Recorded(prog, S2, meta', pc) /\ Framed(prog, S2, pc + 1, frames')
  <2>1. S2[pc] = sym
    <3>1. pc \in 1 .. pc
      BY <1>2
    <3> QED
      BY <1>2, <1>6, <3>1
  <2>2. RecordedStep(prog, S2, meta', pc)
    BY <1>1, <1>4, <1>6, <2>1 DEF RecordedStep, Ops, Here
  <2>3. Framed(prog, S2, pc + 1, frames')
    BY <1>1, <1>2, <1>3, <1>6, FramedNext
  <2> QED
    BY <1>1, <2>2, <2>3, RecordedSimple
<1> QED
  BY <1>1, <1>5, <1>6, Passing DEF CheckInv, CheckTypes

LEMMA Popping ==
  ASSUME NEW F, NEW fr \in Seq(F), Len(fr) > 0
  PROVE  /\ SubSeq(fr, 1, Len(fr) - 1) \in Seq(F)
         /\ Len(SubSeq(fr, 1, Len(fr) - 1)) = Len(fr) - 1
         /\ \A k \in 1 .. Len(fr) - 1 : SubSeq(fr, 1, Len(fr) - 1)[k] = fr[k]
<1> DEFINE n == Len(fr) - 1
<1>1. n \in Int /\ 1 \in Int /\ n - 1 + 1 = n /\ n + 1 = Len(fr) /\ n >= 0
  OBVIOUS
<1>2. \A k \in 1 .. n : fr[k] \in F /\ 1 + k - 1 = k
  OBVIOUS
<1> HIDE DEF n
<1>3. /\ SubSeq(fr, 1, n) \in Seq(F)
      /\ Len(SubSeq(fr, 1, n)) = IF 1 <= n THEN n - 1 + 1 ELSE 0
      /\ \A k \in 1 .. n - 1 + 1 : SubSeq(fr, 1, n)[k] = fr[1 + k - 1]
  BY <1>1, <1>2, SubSeqProperties
<1>4. Len(SubSeq(fr, 1, n)) = n /\ \A k \in 1 .. n : SubSeq(fr, 1, n)[k] = fr[k]
  BY <1>1, <1>2, <1>3
<1> QED
  BY <1>3, <1>4 DEF n

LEMMA NoSnapshotIs ==
  ASSUME NEW p
  PROVE  NoSnapshot \in Snapshots(p)
<1>1. NoSnapshot \in [{} -> BOOLEAN] /\ {} \in SUBSET {p[t].x : t \in Declarations(p)}
  BY DEF NoSnapshot
<1> QED
  BY <1>1 DEF Snapshots

LEMMA CheckOpens ==
  ASSUME CheckInv, CheckBranch \/ CheckGuard
  PROVE  CheckInv'
<1> DEFINE D == Declarations(prog)
<1>1. /\ phase = "check" /\ pc \in DOMAIN prog
      /\ prog[pc].op \in {"if", "while", "for", "switch"} /\ Pass
  BY DEF CheckBranch, CheckGuard, Checking
<1>2. /\ WellFormed(prog) /\ pc \in 1 .. Len(prog) /\ Frontier = pc /\ History[pc] = sym
      /\ sym \in [D -> Symbols] /\ Framed(prog, History, pc, frames)
      /\ Len(prog) \in Nat /\ Stack(pc) = InScope(prog, pc) /\ pc \in 1 .. Len(prog) + 1
      /\ frames \in Seq(Frame(prog))
      /\ meta \in [Guards(prog) -> {"none", "valid", "voided", "unknown"}]
  BY <1>1, CheckFacts DEF CheckInv, CheckTypes
<1>3. pc \in Openers(prog)
  BY <1>1 DEF Openers
<1>4. \A S2 : (\A s \in 1 .. pc : S2[s] = History[s]) => S2[pc] = sym
  <2>1. pc \in 1 .. pc
    BY <1>2
  <2> QED
    BY <1>2, <2>1
<1>5. ASSUME CheckBranch
      PROVE  CheckInv'
  <2> DEFINE f == [before |-> Snapshot(pc), then |-> NoSnapshot, saved |-> Valid]
  <2>1. /\ prog[pc].op \in {"if", "while", "for"} /\ UNCHANGED <<sym, meta>>
        /\ frames' = Append(frames, f)
    BY <1>5 DEF CheckBranch, Checking, Push
  <2>2. Snapshot(pc) = SnapshotIn(prog, pc, sym)
    BY <1>2 DEF Snapshot, SnapshotIn
  <2>3. f \in Frame(prog)
    BY <1>2, <2>2, NoSnapshotIs, SnapshotIs, SymbolIs DEF Frame
  <2>4. f.before = SnapshotIn(prog, pc, sym)
    BY <2>2
  <2> HIDE DEF f
  <2>5. /\ frames' \in Seq(Frame(prog)) /\ Len(frames') = Len(frames) + 1
        /\ \A k \in 1 .. Len(frames) : frames'[k] = frames[k]
        /\ frames'[Len(frames) + 1] = f
    BY <1>2, <2>1, <2>3, AppendProperties
  <2>6. ASSUME NEW S2, S2[pc+1] = sym', \A s \in 1 .. pc : S2[s] = History[s]
        PROVE  Recorded(prog, S2, meta', pc) /\ Framed(prog, S2, pc + 1, frames')
    <3>1. S2[pc] = sym
      BY <1>4, <2>6
    <3>2. RecordedStep(prog, S2, meta', pc)
      BY <2>1, <2>6, <3>1 DEF RecordedStep, Ops
    <3>3. Framed(prog, S2, pc + 1, frames')
      BY <1>2, <1>3, <2>1, <2>4, <2>5, <2>6, FramedNext
    <3> QED
      BY <2>1, <3>2, <3>3, RecordedSimple
  <2> QED
    BY <1>1, <1>2, <2>1, <2>5, <2>6, Passing
<1>6. ASSUME CheckGuard
      PROVE  CheckInv'
  <2> DEFINE f == [before |-> NoSnapshot, then |-> NoSnapshot, saved |-> sym[Here]]
  <2>1. /\ prog[pc].op = "switch" /\ meta' = [meta EXCEPT ![pc] = Annotation(sym[Here])]
        /\ frames' = Append(frames, f) /\ sym' = [sym EXCEPT ![Here] = Valid]
    BY <1>6 DEF CheckGuard, Checking, Push
  <2>2. Here \in D
    BY <1>2, <2>1, VarIs DEF Here
  <2>3. f \in Frame(prog) /\ f.saved = sym[Here]
    BY <1>2, <2>2, NoSnapshotIs DEF Frame
  <2> HIDE DEF f
  <2>4. /\ frames' \in Seq(Frame(prog)) /\ Len(frames') = Len(frames) + 1
        /\ \A k \in 1 .. Len(frames) : frames'[k] = frames[k]
        /\ frames'[Len(frames) + 1] = f
    BY <1>2, <2>1, <2>3, AppendProperties
  <2>5. /\ sym' \in [D -> Symbols]
        /\ meta' \in [Guards(prog) -> {"none", "valid", "voided", "unknown"}]
        /\ meta'[pc] = Annotation(sym[Here])
        /\ \A i \in Guards(prog) : i < pc => meta'[i] = meta[i]
    <3>1. Annotation(sym[Here]) \in {"none", "valid", "voided", "unknown"} /\ pc \in Guards(prog)
      BY <1>1, <2>1 DEF Annotation, Guards
    <3>2. sym' \in [D -> Symbols]
      BY <1>2, <2>1, SymbolIs
    <3>3. \A i \in Guards(prog) : i < pc => i # pc
      BY <1>2
    <3> QED
      BY <1>2, <2>1, <3>1, <3>2, <3>3
  <2>6. ASSUME NEW S2, S2[pc+1] = sym', \A s \in 1 .. pc : S2[s] = History[s]
        PROVE  Recorded(prog, S2, meta', pc) /\ Framed(prog, S2, pc + 1, frames')
    <3>1. S2[pc] = sym
      BY <1>4, <2>6
    <3>2. RecordedStep(prog, S2, meta', pc)
      BY <2>1, <2>5, <2>6, <3>1 DEF RecordedStep, Ops, Here
    <3>3. Framed(prog, S2, pc + 1, frames')
      <4>1. frames'[Len(frames) + 1].saved = History[pc][VarAt(prog, pc)]
        BY <1>2, <2>3, <2>4 DEF Here
      <4> QED
        BY <1>2, <1>3, <2>1, <2>4, <2>6, <4>1, FramedNext
    <3> QED
      BY <2>1, <3>2, <3>3, RecordedSimple
  <2> QED
    BY <1>1, <2>4, <2>5, <2>6, Passing
<1> QED
  BY <1>5, <1>6

\* What the checker finds at an arm or an end of block i.
LEMMA AtTheTop ==
  ASSUME CheckInv, phase = "check", pc \in Arms(prog) \cup Ends(prog)
  PROVE  LET i == OpenerOf(prog, pc) IN
         /\ WellFormed(prog) /\ Len(prog) \in Nat /\ pc \in 1 .. Len(prog) /\ pc \in DOMAIN prog
         /\ i \in Openers(prog) /\ i < pc /\ i \in 1 .. Len(prog)
         /\ frames \in Seq(Frame(prog)) /\ Len(frames) > 0 /\ Top = frames[Len(frames)]
         /\ Top \in Frame(prog) /\ FrameIs(prog, History, pc, i, Top)
         /\ Framed(prog, History, pc, frames)
         /\ History \in Histories(prog) /\ History[pc] = sym
         /\ sym \in [Declarations(prog) -> Symbols]
         /\ History[i] \in [Declarations(prog) -> Symbols]
         /\ Stack(i) = InScope(prog, i) /\ Stack(i) \subseteq Declarations(prog)
         /\ Snapshot(i) = SnapshotIn(prog, i, sym)
         /\ ArmsOf(prog, i) \subseteq 1 .. Len(prog)
         /\ pc \in Arms(prog) => ArmsOf(prog, i) = {pc}
         /\ pc \in Ends(prog) => \A a \in ArmsOf(prog, i) : a < pc
         /\ meta \in [Guards(prog) -> {"none", "valid", "voided", "unknown"}]
<1> DEFINE i == OpenerOf(prog, pc)
<1>1. /\ WellFormed(prog) /\ Len(prog) \in Nat /\ pc \in 1 .. Len(prog) /\ pc \in DOMAIN prog
      /\ History \in Histories(prog) /\ History[pc] = sym
      /\ Framed(prog, History, pc, frames)
      /\ frames \in Seq(Frame(prog)) /\ sym \in [Declarations(prog) -> Symbols]
      /\ meta \in [Guards(prog) -> {"none", "valid", "voided", "unknown"}]
      /\ \A s \in 1 .. Len(prog) + 1 : Stack(s) = InScope(prog, s)
      /\ Armed(prog) /\ Balanced(prog)
  <2>1. WellFormed(prog)
    BY CheckFacts
  <2>2. pc \in 1 .. Len(prog)
    BY <2>1, Shape
  <2> QED
    BY <2>1, <2>2, CheckFacts, Shape DEF CheckInv, CheckTypes
<1>2. /\ i \in Openers(prog) /\ i < pc /\ i \in 1 .. Len(prog)
      /\ Len(frames) = Depth(prog, i) + 1 /\ Depth(prog, i) \in Nat
      /\ FrameIs(prog, History, pc, i, frames[Len(frames)])
  BY <1>1, TopIs
<1>3. Top = frames[Len(frames)] /\ Len(frames) > 0 /\ Top \in Frame(prog)
  <2>1. Len(frames) > 0 /\ Len(frames) \in 1 .. Len(frames)
    BY <1>2
  <2> QED
    BY <1>1, <2>1 DEF Top
<1>4. i \in 1 .. Len(prog) + 1
  BY <1>2
<1>5. /\ Stack(i) = InScope(prog, i) /\ Stack(i) \subseteq Declarations(prog)
      /\ Snapshot(i) = SnapshotIn(prog, i, sym)
      /\ History[i] \in [Declarations(prog) -> Symbols]
  BY <1>1, <1>4 DEF Snapshot, SnapshotIn, InScope, Histories
<1>6. \A a \in ArmsOf(prog, i) : a \in 1 .. Len(prog) /\ a < EndOf(prog, i)
  BY <1>1, <1>2, BlockPositions
<1>7. pc \in Arms(prog) => ArmsOf(prog, i) = {pc}
  <2>1. pc \in Arms(prog) => pc \in ArmsOf(prog, i)
    BY <1>1, ArmIs
  <2> QED
    BY <1>1, <1>2, <2>1, Shape
<1>8. pc \in Ends(prog) => EndOf(prog, i) = pc
  BY <1>1, EndCloses
<1> QED
  BY <1>1, <1>2, <1>3, <1>5, <1>6, <1>7, <1>8

\* The states at i and at the arm are those that the next record refers to.
LEMMA Earlier ==
  ASSUME CheckInv, phase = "check", pc \in DOMAIN prog,
         NEW S2, \A s \in 1 .. pc : S2[s] = History[s]
  PROVE  S2[pc] = sym /\ \A s \in 1 .. Len(prog) : s < pc => S2[s] = History[s]
<1>1. pc \in 1 .. Len(prog) /\ History[pc] = sym /\ Len(prog) \in Nat
  BY CheckFacts
<1>2. pc \in 1 .. pc /\ \A s \in 1 .. Len(prog) : s < pc => s \in 1 .. pc
  BY <1>1
<1> QED
  BY <1>1, <1>2

\* Restored takes the voided state of the names on the stack from the head.
LEMMA RestoredIs ==
  ASSUME CheckInv, phase = "check", pc \in Arms(prog) \cup Ends(prog),
         prog[OpenerOf(prog, pc)].op # "switch"
  PROVE  LET i == OpenerOf(prog, pc) IN
         /\ \A t \in Stack(i) :
              /\ Top.before[prog[t].x] \in BOOLEAN
              /\ Shadowless(prog) => Top.before[prog[t].x] = History[i][t].voided
              /\ Restored(i)[t] = [sym[t] EXCEPT !.voided = Top.before[prog[t].x]]
         /\ Restored(i) \in [Declarations(prog) -> Symbols]
<1> DEFINE i == OpenerOf(prog, pc)
<1>1. /\ WellFormed(prog) /\ i \in 1 .. Len(prog) + 1 /\ FrameIs(prog, History, pc, i, Top)
      /\ sym \in [Declarations(prog) -> Symbols]
      /\ History[i] \in [Declarations(prog) -> Symbols]
      /\ Stack(i) = InScope(prog, i) /\ Stack(i) \subseteq Declarations(prog)
  BY AtTheTop
<1>2. Top.before = SnapshotIn(prog, i, History[i])
  BY <1>1 DEF FrameIs
<1>3. \A t \in Stack(i) :
        /\ Top.before[prog[t].x] \in BOOLEAN
        /\ Shadowless(prog) => Top.before[prog[t].x] = History[i][t].voided
  BY <1>1, <1>2, SnapshotIs
<1>4. DOMAIN sym = Declarations(prog)
  BY <1>1
<1> HIDE DEF i
<1>5. ASSUME NEW t \in Declarations(prog)
      PROVE  (IF t \in Stack(i) THEN [sym[t] EXCEPT !.voided = Top.before[prog[t].x]] ELSE sym[t])
               \in Symbols
  <2>1. sym[t] \in Symbols
    BY <1>1
  <2> QED
    BY <1>3, <2>1, SymbolIs
<1>6. /\ Restored(i) \in [Declarations(prog) -> Symbols]
      /\ \A t \in Stack(i) : Restored(i)[t] = [sym[t] EXCEPT !.voided = Top.before[prog[t].x]]
  BY <1>1, <1>4, <1>5 DEF Restored
<1> QED
  BY <1>3, <1>6 DEF i

LEMMA CheckArms ==
  ASSUME CheckInv, CheckElse \/ CheckVoidedArm
  PROVE  CheckInv'
<1> DEFINE i == OpenerOf(prog, pc)
           D == Declarations(prog)
<1>1. phase = "check" /\ pc \in DOMAIN prog /\ pc \in Arms(prog) /\ Pass /\ UNCHANGED meta
  BY DEF CheckElse, CheckVoidedArm, Checking, Arms
<1>2. /\ WellFormed(prog) /\ Len(prog) \in Nat /\ pc \in 1 .. Len(prog)
      /\ i \in Openers(prog) /\ i < pc /\ i \in 1 .. Len(prog)
      /\ frames \in Seq(Frame(prog)) /\ Len(frames) > 0 /\ Top = frames[Len(frames)]
      /\ Top \in Frame(prog) /\ FrameIs(prog, History, pc, i, Top)
      /\ Framed(prog, History, pc, frames)
      /\ History[pc] = sym /\ sym \in [D -> Symbols] /\ History[i] \in [D -> Symbols]
      /\ Stack(i) = InScope(prog, i) /\ Snapshot(i) = SnapshotIn(prog, i, sym)
      /\ ArmsOf(prog, i) = {pc}
      /\ meta \in [Guards(prog) -> {"none", "valid", "voided", "unknown"}]
      /\ prog[i].op = IF prog[pc].op = "else" THEN "if" ELSE "switch"
  <2>1. WellFormed(prog) /\ i \in Openers(prog) /\ ArmsOf(prog, i) = {pc}
    BY <1>1, AtTheTop
  <2>2. prog[i].op = IF prog[pc].op = "else" THEN "if" ELSE "switch"
    BY <2>1, Shape
  <2> QED
    BY <1>1, <2>2, AtTheTop
<1>3. pc \notin Ends(prog) /\ pc \notin Openers(prog)
  BY <1>1 DEF Arms, Ends, Openers
<1>4. ASSUME CheckElse
      PROVE  CheckInv'
  <2>1. /\ prog[pc].op = "else" /\ sym' = Restored(i)
        /\ frames' = [frames EXCEPT ![Len(frames)].then = Snapshot(i)]
    BY <1>4 DEF CheckElse, Checking
  <2>2. prog[i].op = "if"
    BY <1>2, <2>1
  <2>3. /\ sym' \in [D -> Symbols]
        /\ Shadowless(prog) =>
             \A t \in InScope(prog, i) : sym'[t] = [sym[t] EXCEPT !.voided = History[i][t].voided]
    BY <1>1, <1>2, <2>1, <2>2, RestoredIs
  <2> DEFINE f == [Top EXCEPT !.then = Snapshot(i)]
  <2>4. f \in Frame(prog) /\ f.before = Top.before /\ f.then = SnapshotIn(prog, i, sym)
    <3>1. Snapshot(i) \in Snapshots(prog)
      <4>1. i \in 1 .. Len(prog) + 1
        BY <1>2
      <4> QED
        BY <1>2, <4>1, SnapshotIs
    <3> QED
      BY <1>2, <3>1 DEF Frame
  <2>5. frames' = [frames EXCEPT ![Len(frames)] = f]
    BY <1>2, <2>1
  <2> HIDE DEF f
  <2>6. /\ frames' \in Seq(Frame(prog)) /\ Len(frames') = Len(frames)
        /\ \A k \in 1 .. Len(frames) - 1 : frames'[k] = frames[k]
        /\ frames'[Len(frames)] = f
    <3>1. Len(frames) \in 1 .. Len(frames) /\ \A k \in 1 .. Len(frames) - 1 : k \in 1 .. Len(frames) /\ k # Len(frames)
      BY <1>2
    <3> QED
      BY <1>2, <2>4, <2>5, <3>1, ExceptSeq
  <2>7. ASSUME NEW S2, S2[pc+1] = sym', \A s \in 1 .. pc : S2[s] = History[s]
        PROVE  Recorded(prog, S2, meta', pc) /\ Framed(prog, S2, pc + 1, frames')
    <3>1. S2[pc] = sym /\ S2[i] = History[i]
      BY <1>1, <1>2, <2>7, Earlier
    <3>2. RecordedStep(prog, S2, meta', pc)
      BY <2>1, <2>7, <3>1 DEF RecordedStep, Ops
    <3>3. RecordedArm(prog, S2, i, pc)
      BY <2>2, <2>3, <2>7, <3>1 DEF RecordedArm
    <3>4. Framed(prog, S2, pc + 1, frames')
      <4>1. /\ frames'[Len(frames)].before = frames[Len(frames)].before
            /\ frames'[Len(frames)].then = SnapshotIn(prog, i, History[pc])
        BY <1>2, <2>4, <2>6
      <4> QED
        BY <1>1, <1>2, <2>2, <2>6, <2>7, <4>1, FramedNext
    <3> QED
      BY <1>3, <3>2, <3>3, <3>4 DEF Recorded
  <2> QED
    BY <1>1, <1>2, <2>3, <2>6, <2>7, Passing
<1>5. ASSUME CheckVoidedArm
      PROVE  CheckInv'
  <2>1. prog[pc].op = "voided" /\ LeaveValidArm(i) /\ UNCHANGED frames
    BY <1>5 DEF CheckVoidedArm, Checking
  <2>2. prog[i].op = "switch"
    BY <1>2, <2>1
  <2>3. sym' = LeftArm(prog, i, History[i], sym) /\ sym' \in [D -> Symbols]
    <3>1. VarAt(prog, i) \in D
      BY <1>2, <2>2, VarIs
    <3>2. Top.saved = History[i][VarAt(prog, i)]
      BY <1>2, <2>2 DEF FrameIs
    <3>3. sym' = LeftArm(prog, i, History[i], sym)
      BY <2>1, <3>2 DEF LeaveValidArm, LeftArm
    <3> QED
      BY <1>2, <3>1, <3>3, LeftArmIs
  <2>4. ASSUME NEW S2, S2[pc+1] = sym', \A s \in 1 .. pc : S2[s] = History[s]
        PROVE  Recorded(prog, S2, meta', pc) /\ Framed(prog, S2, pc + 1, frames')
    <3>1. S2[pc] = sym /\ S2[i] = History[i]
      BY <1>1, <1>2, <2>4, Earlier
    <3>2. RecordedStep(prog, S2, meta', pc)
      BY <2>1, <2>4, <3>1 DEF RecordedStep, Ops
    <3>3. RecordedArm(prog, S2, i, pc)
      BY <2>2, <2>3, <2>4, <3>1 DEF RecordedArm
    <3>4. Framed(prog, S2, pc + 1, frames')
      BY <1>1, <1>2, <1>3, <2>1, <2>2, <2>4, FramedNext
    <3> QED
      BY <1>3, <3>2, <3>3, <3>4 DEF Recorded
  <2> QED
    BY <1>1, <1>2, <2>1, <2>3, <2>4, Passing
<1> QED
  BY <1>4, <1>5

\* What the end of a block makes of the symbols.
LEMMA EndRecords ==
  ASSUME CheckInv, CheckEnd, NEW S2, S2[pc+1] = sym', \A s \in 1 .. pc : S2[s] = History[s]
  PROVE  RecordedEnd(prog, S2, OpenerOf(prog, pc), pc) /\ sym' \in [Declarations(prog) -> Symbols]
<1> DEFINE i == OpenerOf(prog, pc)
           D == Declarations(prog)
<1>1. phase = "check" /\ pc \in DOMAIN prog /\ pc \in Ends(prog)
  BY DEF CheckEnd, Checking, Ends
<1>2. /\ WellFormed(prog) /\ Len(prog) \in Nat
      /\ i \in Openers(prog) /\ i < pc /\ i \in 1 .. Len(prog)
      /\ Top \in Frame(prog) /\ FrameIs(prog, History, pc, i, Top)
      /\ sym \in [D -> Symbols] /\ History[i] \in [D -> Symbols]
      /\ History \in Histories(prog)
      /\ Stack(i) = InScope(prog, i) /\ Snapshot(i) = SnapshotIn(prog, i, sym)
      /\ Stack(i) \subseteq D
      /\ \A a \in ArmsOf(prog, i) : a \in 1 .. Len(prog) /\ a < pc
      /\ DOMAIN sym = D
  BY <1>1, AtTheTop
<1>3. S2[pc] = sym /\ S2[i] = History[i] /\ \A a \in ArmsOf(prog, i) : S2[a] = History[a]
  BY <1>1, <1>2, Earlier
<1>4. i \in 1 .. Len(prog) + 1
  BY <1>2
<1>5. CheckEndIf(i) \/ CheckEndWhile(i) \/ CheckEndFor(i) \/ CheckEndGuard(i)
  BY DEF CheckEnd
<1> HIDE DEF i, D
<1>6. ASSUME prog[i].op # "switch"
      PROVE  \A t \in Stack(i) :
               /\ Top.before[prog[t].x] \in BOOLEAN
               /\ Shadowless(prog) => Top.before[prog[t].x] = History[i][t].voided
  BY <1>1, <1>6, RestoredIs DEF i
<1>7. ASSUME prog[i].op # "switch"
      PROVE  /\ \A t \in Stack(i) :
                  Restored(i)[t] = [sym[t] EXCEPT !.voided = Top.before[prog[t].x]]
             /\ Restored(i) \in [D -> Symbols]
  BY <1>1, <1>7, RestoredIs DEF i, D
<1>8. \A t \in Stack(i) :
        /\ Snapshot(i)[prog[t].x] \in BOOLEAN
        /\ Shadowless(prog) => Snapshot(i)[prog[t].x] = sym[t].voided
  BY <1>2, <1>4, SnapshotIs DEF D
<1>9. ASSUME CheckEndIf(i), ArmsOf(prog, i) = {}
       PROVE  RecordedEnd(prog, S2, i, pc) /\ sym' \in [D -> Symbols]
  <2>1. /\ prog[i].op = "if"
        /\ sym' = [t \in D |->
                     IF t \in Stack(i)
                     THEN Merge(Restored(i)[t], Snapshot(i)[prog[t].x], Top.before[prog[t].x], FALSE)
                     ELSE sym[t]]
    BY <1>2, <1>9 DEF CheckEndIf
  <2>2. ASSUME NEW t \in D
        PROVE  (IF t \in Stack(i)
                THEN Merge(Restored(i)[t], Snapshot(i)[prog[t].x], Top.before[prog[t].x], FALSE)
                ELSE sym[t]) \in Symbols
    <3>1. Restored(i)[t] \in Symbols /\ sym[t] \in Symbols
      BY <1>2, <1>7, <2>1
    <3>2. t \in Stack(i) => Snapshot(i)[prog[t].x] \in BOOLEAN /\ Top.before[prog[t].x] \in BOOLEAN
      BY <1>6, <1>8, <2>1
    <3> QED
      BY <3>1, <3>2, SymbolIs DEF Merge
  <2>3. ASSUME Shadowless(prog), NEW t \in InScope(prog, i)
        PROVE  sym'[t] = Merge([sym[t] EXCEPT !.voided = History[i][t].voided],
                               sym[t].voided, History[i][t].voided, FALSE)
    <3>1. /\ Top.before[prog[t].x] = History[i][t].voided /\ Snapshot(i)[prog[t].x] = sym[t].voided
          /\ Restored(i)[t] = [sym[t] EXCEPT !.voided = Top.before[prog[t].x]]
      BY <1>2, <1>6, <1>7, <1>8, <2>1, <2>3
    <3>2. t \in D /\ t \in Stack(i)
      BY <1>2, <2>3
    <3>3. sym'[t] = Merge(Restored(i)[t], Snapshot(i)[prog[t].x], Top.before[prog[t].x], FALSE)
      BY <2>1, <3>2
    <3> QED
      BY <3>1, <3>3 DEF Merge
  <2> QED
    BY <1>3, <1>9, <2>1, <2>2, <2>3 DEF RecordedEnd
<1>10. ASSUME CheckEndIf(i), NEW a \in ArmsOf(prog, i)
       PROVE  RecordedEnd(prog, S2, i, pc) /\ sym' \in [D -> Symbols]
  <2>1. /\ prog[i].op = "if"
        /\ sym' = [t \in D |->
                     IF t \in Stack(i)
                     THEN Merge(sym[t], Top.then[prog[t].x], Top.before[prog[t].x], TRUE)
                     ELSE sym[t]]
    <3>1. ArmsOf(prog, i) # {}
      BY <1>10
    <3> QED
      BY <1>2, <1>10, <3>1 DEF CheckEndIf
  <2>2. Top.then = SnapshotIn(prog, i, History[a]) /\ ArmsOf(prog, i) = {a}
    <3>1. ArmsOf(prog, i) = {a}
      BY <1>2, <1>10, Shape
    <3> QED
      BY <1>2, <2>1, <3>1 DEF FrameIs
  <2>3. \A t \in Stack(i) :
          /\ Top.then[prog[t].x] \in BOOLEAN
          /\ Shadowless(prog) => Top.then[prog[t].x] = History[a][t].voided
    <3>1. History[a] \in [D -> Symbols]
      <4>1. a \in 1 .. Len(prog) + 1
        BY <1>2, <1>10
      <4> QED
        BY <1>2, <4>1 DEF Histories, D
    <3> QED
      BY <1>2, <1>4, <2>2, <3>1, SnapshotIs DEF D
  <2>4. ASSUME NEW t \in D
        PROVE  (IF t \in Stack(i)
                THEN Merge(sym[t], Top.then[prog[t].x], Top.before[prog[t].x], TRUE)
                ELSE sym[t]) \in Symbols
    <3>1. sym[t] \in Symbols
      BY <1>2
    <3>2. t \in Stack(i) => Top.then[prog[t].x] \in BOOLEAN /\ Top.before[prog[t].x] \in BOOLEAN
      BY <1>6, <2>1, <2>3
    <3> QED
      BY <3>1, <3>2, SymbolIs DEF Merge
  <2>5. ASSUME Shadowless(prog), NEW t \in InScope(prog, i)
        PROVE  sym'[t] = Merge(sym[t], History[a][t].voided, History[i][t].voided, TRUE)
    <3>1. Top.before[prog[t].x] = History[i][t].voided /\ Top.then[prog[t].x] = History[a][t].voided
      BY <1>2, <1>6, <2>1, <2>3, <2>5
    <3>2. t \in D /\ t \in Stack(i)
      BY <1>2, <2>5
    <3> QED
      BY <2>1, <3>1, <3>2
  <2> QED
    BY <1>3, <2>1, <2>2, <2>4, <2>5 DEF RecordedEnd
<1>11. ASSUME CheckEndWhile(i)
       PROVE  RecordedEnd(prog, S2, i, pc) /\ sym' \in [D -> Symbols]
  <2>1. /\ prog[i].op = "while"
        /\ sym' = [t \in D |->
                     IF t \in Stack(i) THEN Promote(sym[t], Top.before[prog[t].x]) ELSE sym[t]]
    BY <1>2, <1>11 DEF CheckEndWhile
  <2>2. \A t \in D : sym[t] \in Symbols /\ Promote(sym[t], Top.before[prog[t].x]) \in Symbols
    BY <1>2, SymbolIs DEF Promote
  <2>3. ASSUME Shadowless(prog), NEW t \in InScope(prog, i)
        PROVE  sym'[t] = Promote(sym[t], History[i][t].voided)
    BY <1>2, <1>6, <2>1, <2>3
  <2> QED
    BY <1>3, <2>1, <2>2, <2>3 DEF RecordedEnd
<1>12. ASSUME CheckEndFor(i)
       PROVE  RecordedEnd(prog, S2, i, pc) /\ sym' \in [D -> Symbols]
  BY <1>2, <1>3, <1>12 DEF CheckEndFor, RecordedEnd
<1>13. ASSUME CheckEndGuard(i)
       PROVE  RecordedEnd(prog, S2, i, pc) /\ sym' \in [D -> Symbols]
  <2>1. /\ prog[i].op = "switch"
        /\ ArmsOf(prog, i) # {} => sym' = sym
        /\ ArmsOf(prog, i) = {} => LeaveValidArm(i)
    BY <1>13 DEF CheckEndGuard
  <2>2. ArmsOf(prog, i) = {} => sym' = LeftArm(prog, i, History[i], sym)
    <3>1. Top.saved = History[i][VarAt(prog, i)]
      BY <1>2, <2>1 DEF FrameIs
    <3> QED
      BY <2>1, <3>1 DEF LeaveValidArm, LeftArm
  <2>3. LeftArm(prog, i, History[i], sym) \in [D -> Symbols]
    <3>1. VarAt(prog, i) \in D
      BY <1>2, <2>1, VarIs DEF D
    <3> QED
      BY <1>2, <3>1, LeftArmIs DEF D
  <2> QED
    BY <1>2, <1>3, <2>1, <2>2, <2>3 DEF RecordedEnd
<1> QED
  BY <1>5, <1>9, <1>10, <1>11, <1>12, <1>13 DEF i, D

LEMMA CheckEnds ==
  ASSUME CheckInv, CheckEnd
  PROVE  CheckInv'
<1>1. /\ phase = "check" /\ pc \in DOMAIN prog /\ pc \in Ends(prog) /\ prog[pc].op = "end"
      /\ Pop /\ Pass /\ UNCHANGED meta
  BY DEF CheckEnd, Checking, Ends
<1>2. /\ WellFormed(prog) /\ Len(prog) \in Nat /\ pc \in 1 .. Len(prog)
      /\ frames \in Seq(Frame(prog)) /\ Len(frames) > 0
      /\ Framed(prog, History, pc, frames)
      /\ meta \in [Guards(prog) -> {"none", "valid", "voided", "unknown"}]
  BY <1>1, AtTheTop
<1>3. pc \notin Arms(prog)
  BY <1>1 DEF Arms
<1>4. /\ frames' \in Seq(Frame(prog)) /\ Len(frames') = Len(frames) - 1
      /\ \A k \in 1 .. Len(frames) - 1 : frames'[k] = frames[k]
  BY <1>1, <1>2, Popping DEF Pop
<1>5. sym' \in [Declarations(prog) -> Symbols]
  <2> DEFINE S == [s \in 1 .. pc + 1 |-> IF s <= pc THEN History[s] ELSE sym']
  <2>1. S[pc+1] = sym' /\ \A s \in 1 .. pc : S[s] = History[s]
    BY <1>2
  <2> HIDE DEF S
  <2> QED
    BY <2>1, EndRecords
<1>6. ASSUME NEW S2, S2[pc+1] = sym', \A s \in 1 .. pc : S2[s] = History[s]
      PROVE  Recorded(prog, S2, meta', pc) /\ Framed(prog, S2, pc + 1, frames')
  <2>1. RecordedEnd(prog, S2, OpenerOf(prog, pc), pc)
    BY <1>6, EndRecords
  <2>2. RecordedStep(prog, S2, meta', pc)
    BY <1>1 DEF RecordedStep, Ops
  <2>3. Framed(prog, S2, pc + 1, frames')
    BY <1>1, <1>2, <1>4, <1>6, FramedNext
  <2> QED
    BY <1>3, <2>1, <2>2, <2>3 DEF Recorded
<1> QED
  BY <1>1, <1>2, <1>4, <1>5, <1>6, Passing

LEMMA CheckAccepts ==
  ASSUME CheckInv, Accept
  PROVE  CheckInv' /\ History' = History
<1>1. /\ phase = "check" /\ pc = Len(prog) + 1 /\ phase' = "run" /\ pc' = 1
      /\ UNCHANGED <<prog, sym, frames, meta, facts>>
  BY DEF Accept, checker
<1>2. /\ WellFormed(prog) /\ Len(prog) \in Nat /\ Balanced(prog)
      /\ Framed(prog, History, pc, frames) /\ frames \in Seq(Frame(prog))
  BY <1>1, CheckFacts, Shape DEF CheckInv, CheckTypes
<1>3. frames = << >>
  <2>1. Len(frames) = 0
    BY <1>1, <1>2, Depths DEF Framed
  <2> QED
    BY <1>2, <2>1
<1>4. Frontier' = Frontier
  BY <1>1 DEF Frontier
<1>5. History' = History
  BY <1>1, <1>4 DEF History
<1>6. CheckTypes'
  BY <1>1, <1>2, <1>3 DEF CheckInv, CheckTypes
<1> QED
  BY <1>1, <1>4, <1>5, <1>6 DEF CheckInv

\* What the checker has recorded does not change when it is done.
LEMMA CheckRests ==
  ASSUME CheckInv, UNCHANGED <<prog, checker>>, pc' \in 1 .. Len(prog) + 1,
         \/ UNCHANGED <<pc, phase>>
         \/ phase = "check" /\ phase' = "rejected" /\ UNCHANGED pc
         \/ phase = "run" /\ phase' \in {"run", "done"}
  PROVE  CheckInv' /\ History' = History
<1>1. UNCHANGED <<sym, frames, meta, facts>>
  BY DEF checker
<1>2. Frontier' = Frontier
  BY DEF Frontier
<1>3. History' = History
  BY <1>1, <1>2 DEF History
<1>4. CheckTypes'
  BY <1>1 DEF CheckInv, CheckTypes
<1>5. phase' = "check" => Framed(prog', History', pc', frames')
  BY <1>1, <1>3 DEF CheckInv
<1> QED
  BY <1>1, <1>2, <1>3, <1>4, <1>5 DEF CheckInv

\* One action of the checker.
CheckNext ==
  \/ CheckDecl \/ CheckUse \/ CheckAssign \/ CheckMove \/ CheckBranch \/ CheckElse
  \/ CheckGuard \/ CheckVoidedArm \/ CheckEnd

LEMMA CheckStep ==
  ASSUME CheckInv, CheckNext
  PROVE  /\ CheckInv' /\ UNCHANGED <<prog, runtime>>
         /\ phase = "check" /\ phase' \in {"check", "rejected"}
<1>1. ASSUME Reject
      PROVE  CheckInv'
  BY <1>1, CheckRests DEF Reject, CheckInv, CheckTypes, CheckNext, CheckDecl, CheckUse, CheckAssign,
     CheckMove, CheckBranch, CheckElse, CheckGuard, CheckVoidedArm, CheckEnd, Checking
<1>2. Reject \/ Pass
  BY DEF CheckNext, CheckDecl, CheckUse, CheckAssign, CheckMove, CheckBranch, CheckElse,
     CheckGuard, CheckVoidedArm, CheckEnd
<1>3. phase = "check"
  BY DEF CheckNext, CheckDecl, CheckUse, CheckAssign, CheckMove, CheckBranch, CheckElse,
     CheckGuard, CheckVoidedArm, CheckEnd, Checking
<1>4. ASSUME Pass
      PROVE  CheckInv'
  BY <1>4, CheckSimple, CheckOpens, CheckArms, CheckEnds DEF CheckNext
<1> QED
  BY <1>1, <1>2, <1>3, <1>4 DEF Reject, Pass

-----------------------------------------------------------------------------
(***************************************************************************)
(* The run.  mv is what has been moved.                                    *)
(***************************************************************************)
\* The loop i around s moves v, which is declared before the loop, at k, and
\* of what the iteration under way does up to s, that move is no part: k is
\* not before s, or it is in the arm that this iteration has not taken.
UnsettledBy(p, v, k, i, s) ==
  /\ VarAt(p, k) = v /\ v < i /\ i \in LoopsAround(p, k)
  /\ i <= s /\ s <= EndOf(p, i)
  /\ s <= k \/ \E a \in Arms(p) : /\ k < a /\ a < s
                                  /\ OpenerOf(p, a) < k /\ s <= EndOf(p, OpenerOf(p, a))

\* The textual pass knows nothing of the moves of earlier iterations.
Unsettled(p, v, s) == \E k \in Moves(p), i \in Openers(p) : UnsettledBy(p, v, k, i, s)

Loops(p) == {i \in Openers(p) : p[i].op \in {"while", "for"}}

UnmovedAt(p, S, mv, s) ==
  \A v \in InScope(p, s) : S[s][v] = Valid /\ ~Unsettled(p, v, s) => ~mv[v]

MovedAt(p, S, mv, s) == \A v \in InScope(p, s) : S[s][v].voided => mv[v]

LEMMA UnsettledNext ==
  ASSUME NEW p, WellFormed(p), NEW v, NEW s \in 1 .. Len(p), s \notin Arms(p) \cup Ends(p),
         Unsettled(p, v, s), ~(s \in Moves(p) /\ VarAt(p, s) = v)
  PROVE  Unsettled(p, v, s + 1)
<1>1. /\ Len(p) \in Nat /\ Moves(p) \subseteq 1 .. Len(p) /\ Arms(p) \subseteq 1 .. Len(p)
      /\ Openers(p) \subseteq 1 .. Len(p)
      /\ \A a \in Arms(p) : OpenerOf(p, a) \in Openers(p)
      /\ \A i \in Openers(p) : EndOf(p, i) \in 1 .. Len(p) /\ EndOf(p, i) # s
  <2>1. Armed(p)
    BY Shape
  <2> QED
    BY <2>1, Shape, ArmIs, BlockPositions
<1>2. PICK k \in Moves(p), i \in Openers(p) : UnsettledBy(p, v, k, i, s)
  BY DEF Unsettled
<1>3. /\ VarAt(p, k) = v /\ v < i /\ i \in LoopsAround(p, k)
      /\ i <= s /\ s <= EndOf(p, i)
      /\ s <= k \/ \E a \in Arms(p) : /\ k < a /\ a < s
                                      /\ OpenerOf(p, a) < k /\ s <= EndOf(p, OpenerOf(p, a))
  BY <1>2 DEF UnsettledBy
<1>4. i <= s + 1 /\ s + 1 <= EndOf(p, i)
  BY <1>1, <1>3
<1>5. CASE s <= k
  <2>1. s + 1 <= k
    BY <1>1, <1>3, <1>5
  <2> QED
    BY <1>3, <1>4, <2>1 DEF UnsettledBy, Unsettled
<1>6. ASSUME NEW a \in Arms(p), k < a, a < s,
             OpenerOf(p, a) < k, s <= EndOf(p, OpenerOf(p, a))
      PROVE  Unsettled(p, v, s + 1)
  <2>1. a < s + 1 /\ s + 1 <= EndOf(p, OpenerOf(p, a))
    BY <1>1, <1>6
  <2> QED
    BY <1>3, <1>4, <1>6, <2>1 DEF UnsettledBy, Unsettled
<1> QED
  BY <1>3, <1>5, <1>6

LEMMA UnsettledElse ==
  ASSUME NEW p, WellFormed(p), NEW v, NEW i \in Openers(p), NEW a \in ArmsOf(p, i),
         Unsettled(p, v, i)
  PROVE  Unsettled(p, v, a + 1)
<1>1. /\ Len(p) \in Nat /\ Moves(p) \subseteq 1 .. Len(p) /\ Arms(p) \subseteq 1 .. Len(p)
      /\ Openers(p) \subseteq 1 .. Len(p) /\ Armed(p)
      /\ \A b \in Arms(p) : OpenerOf(p, b) \in Openers(p)
      /\ \A j \in Openers(p) : EndOf(p, j) \in 1 .. Len(p)
      /\ i \notin Moves(p) /\ a \notin Moves(p)
  <2>1. Armed(p)
    BY Shape
  <2> QED
    BY <2>1, Shape, ArmIs, BlockPositions
<1>2. a \in Arms(p) /\ a \in 1 .. Len(p) /\ i < a /\ a + 1 <= EndOf(p, i) /\ OpenerOf(p, a) = i
  BY BlockPositions
<1>3. PICK k \in Moves(p), l \in Openers(p) : UnsettledBy(p, v, k, l, i)
  BY DEF Unsettled
<1>4. /\ VarAt(p, k) = v /\ v < l /\ l \in LoopsAround(p, k)
      /\ l <= i /\ i <= EndOf(p, l)
      /\ i <= k \/ \E b \in Arms(p) : /\ k < b /\ b < i
                                      /\ OpenerOf(p, b) < k /\ i <= EndOf(p, OpenerOf(p, b))
  BY <1>3 DEF UnsettledBy
\* A block that i is in, a + 1 is in.
<1>5. ASSUME NEW j \in Openers(p), j <= i, i <= EndOf(p, j)
      PROVE  j <= a + 1 /\ a + 1 <= EndOf(p, j)
  <2>1. j # i => EndOf(p, i) + 1 <= EndOf(p, j)
    BY <1>1, <1>5, SpanFlow
  <2> QED
    BY <1>1, <1>2, <1>5, <2>1
<1>6. CASE i <= k
  <2>1. i < k /\ k # a
    BY <1>1, <1>6
  <2>2. a + 1 <= k \/ (k < a /\ a < a + 1)
    BY <1>1, <1>2, <2>1
  <2> QED
    BY <1>2, <1>4, <1>5, <2>1, <2>2 DEF UnsettledBy, Unsettled
<1>7. ASSUME NEW b \in Arms(p), k < b, b < i,
             OpenerOf(p, b) < k, i <= EndOf(p, OpenerOf(p, b))
      PROVE  Unsettled(p, v, a + 1)
  <2>1. b < a + 1 /\ OpenerOf(p, b) <= i
    BY <1>1, <1>2, <1>7
  <2>2. a + 1 <= EndOf(p, OpenerOf(p, b))
    BY <1>1, <1>5, <1>7, <2>1
  <2> QED
    BY <1>4, <1>5, <1>7, <2>1, <2>2 DEF UnsettledBy, Unsettled
<1> QED
  BY <1>4, <1>6, <1>7

LEMMA UnsettledAfter ==
  ASSUME NEW p, WellFormed(p), NEW v, NEW i \in Openers(p),
         NEW s \in {i, EndOf(p, i)} \cup ArmsOf(p, i),
         Unsettled(p, v, s), ~MovedBetween(p, v, i, EndOf(p, i))
  PROVE  Unsettled(p, v, EndOf(p, i) + 1)
<1> DEFINE e == EndOf(p, i)
<1>1. /\ Len(p) \in Nat /\ Moves(p) \subseteq 1 .. Len(p) /\ Arms(p) \subseteq 1 .. Len(p)
      /\ Openers(p) \subseteq 1 .. Len(p) /\ Armed(p)
      /\ \A b \in Arms(p) : OpenerOf(p, b) \in Openers(p)
      /\ \A j \in Openers(p) : EndOf(p, j) \in 1 .. Len(p)
      /\ i \notin Moves(p)
      /\ e \notin Moves(p)
      /\ i \in 1 .. Len(p) /\ e \in 1 .. Len(p) /\ i < e
  <2>1. Armed(p) /\ e \in Ends(p)
    BY Shape, BlockPositions
  <2> QED
    BY <2>1, Shape, ArmIs, BlockPositions
<1>2. s \in 1 .. Len(p) /\ i <= s /\ s <= e /\ (s = i \/ s \in {e} \cup ArmsOf(p, i))
  <2>1. \A a \in ArmsOf(p, i) : a \in 1 .. Len(p) /\ i < a /\ a < e
    BY BlockPositions
  <2> QED
    BY <1>1, <2>1
<1>3. PICK k \in Moves(p), l \in Openers(p) : UnsettledBy(p, v, k, l, s)
  BY DEF Unsettled
<1>4. /\ VarAt(p, k) = v /\ v < l /\ l \in LoopsAround(p, k)
      /\ l <= s /\ s <= EndOf(p, l)
      /\ s <= k \/ \E b \in Arms(p) : /\ k < b /\ b < s
                                      /\ OpenerOf(p, b) < k /\ s <= EndOf(p, OpenerOf(p, b))
  BY <1>3 DEF UnsettledBy
<1>5. ~(i < k /\ k < e)
  BY <1>4 DEF MovedBetween
\* Another block that s is in goes on after block i.
<1>6. ASSUME NEW j \in Openers(p), j <= s, s <= EndOf(p, j), j # i
      PROVE  j <= e + 1 /\ e + 1 <= EndOf(p, j)
  <2>1. CASE s = i
    <3>1. j < i /\ i <= EndOf(p, j)
      BY <1>1, <1>6, <2>1
    <3> QED
      BY <1>1, <3>1, SpanFlow
  <2>2. CASE s # i
    <3>1. s \in {e} \cup ArmsOf(p, i)
      BY <1>2, <2>2
    <3>2. s \notin Openers(p)
      <4>1. e \in Ends(p) /\ \A a \in ArmsOf(p, i) : a \in Arms(p)
        BY BlockPositions
      <4> QED
        BY <3>1, <4>1 DEF Openers, Ends, Arms
    <3>3. j < s
      BY <1>1, <1>2, <1>6, <3>2
    <3>4. j < i /\ i <= EndOf(p, j)
      BY <1>1, <1>6, <3>1, <3>3, SpanFlow
    <3> QED
      BY <1>1, <3>4, SpanFlow
  <2> QED
    BY <2>1, <2>2
<1> HIDE DEF e
<1>7. l # i
  <2>1. l = i => i < k /\ k <= e
    BY <1>4 DEF LoopsAround, e
  <2>2. k # e
    BY <1>1
  <2> QED
    BY <1>1, <1>5, <2>1, <2>2
<1>8. CASE s <= k
  <2>1. e + 1 <= k
    BY <1>1, <1>2, <1>5, <1>8
  <2> QED
    BY <1>4, <1>6, <1>7, <2>1 DEF UnsettledBy, Unsettled, e
<1>9. ASSUME NEW b \in Arms(p), k < b, b < s,
             OpenerOf(p, b) < k, s <= EndOf(p, OpenerOf(p, b))
      PROVE  Unsettled(p, v, e + 1)
  <2>1. b < e + 1 /\ OpenerOf(p, b) <= s /\ OpenerOf(p, b) # i
    BY <1>1, <1>2, <1>5, <1>9
  <2>2. e + 1 <= EndOf(p, OpenerOf(p, b))
    BY <1>1, <1>6, <1>9, <2>1
  <2> QED
    BY <1>4, <1>6, <1>7, <1>9, <2>1, <2>2 DEF UnsettledBy, Unsettled
<1> QED
  BY <1>4, <1>8, <1>9 DEF e

\* Into the other arm of a block, past the block, and from the end of an arm.
LEMMA UnmovedJump ==
  ASSUME NEW p, NEW S, NEW m, Told(p, S, m), NEW mv, NEW i \in Openers(p)
  PROVE  /\ UnmovedAt(p, S, mv, i) =>
              /\ \A a \in ArmsOf(p, i) : UnmovedAt(p, S, mv, a + 1)
              /\ UnmovedAt(p, S, mv, EndOf(p, i) + 1)
         /\ \A s \in {EndOf(p, i)} \cup ArmsOf(p, i) :
              p[i].op \in {"if", "switch"} /\ UnmovedAt(p, S, mv, s) =>
                UnmovedAt(p, S, mv, EndOf(p, i) + 1)
<1> DEFINE e == EndOf(p, i)
<1>1. WellFormed(p) /\ \A v \in InScope(p, i) : KeptByBlock(p, S, i, v)
  BY BlocksKeep DEF Told
<1>2. /\ InScope(p, e + 1) \subseteq InScope(p, i)
      /\ \A a \in ArmsOf(p, i) : InScope(p, a + 1) \subseteq InScope(p, i)
      /\ \A s \in {e} \cup ArmsOf(p, i) : InScope(p, i) \subseteq InScope(p, s)
  <2>1. \A s \in {e} \cup ArmsOf(p, i) : s \in i .. e + 1
    <3>1. /\ i \in 1 .. Len(p) /\ e \in 1 .. Len(p) /\ i < e
          /\ \A a \in ArmsOf(p, i) : a \in 1 .. Len(p) /\ i < a /\ a < e
      BY <1>1, BlockPositions
    <3> QED
      BY <3>1
  <2> QED
    BY <1>1, <2>1, InScopeFlow
<1>3. ASSUME NEW a \in ArmsOf(p, i), UnmovedAt(p, S, mv, i)
      PROVE  UnmovedAt(p, S, mv, a + 1)
  <2> SUFFICES ASSUME NEW v \in InScope(p, a + 1), S[a+1][v] = Valid, ~Unsettled(p, v, a + 1)
               PROVE  ~mv[v]
    BY DEF UnmovedAt
  <2>1. v \in InScope(p, i) /\ S[i][v] = Valid
    BY <1>1, <1>2 DEF KeptByBlock
  <2>2. ~Unsettled(p, v, i)
    BY <1>1, UnsettledElse
  <2> QED
    BY <1>3, <2>1, <2>2 DEF UnmovedAt
<1>4. ASSUME NEW s \in {i, e} \cup ArmsOf(p, i), UnmovedAt(p, S, mv, s),
             s = i \/ p[i].op \in {"if", "switch"}
      PROVE  UnmovedAt(p, S, mv, e + 1)
  <2> SUFFICES ASSUME NEW v \in InScope(p, e + 1), S[e+1][v] = Valid, ~Unsettled(p, v, e + 1)
               PROVE  ~mv[v]
    BY DEF UnmovedAt
  <2>1. v \in InScope(p, i) /\ v \in InScope(p, s) /\ KeptByBlock(p, S, i, v)
    BY <1>1, <1>2
  <2>2. ~MovedBetween(p, v, i, e) /\ S[i][v] = Valid
    BY <2>1 DEF KeptByBlock, Keeps
  <2>3. S[s][v] = Valid
    BY <1>4, <2>1, <2>2 DEF KeptByBlock
  <2>4. ~Unsettled(p, v, s)
    BY <1>1, <2>2, UnsettledAfter
  <2> QED
    BY <1>4, <2>1, <2>3, <2>4 DEF UnmovedAt
<1> QED
  BY <1>3, <1>4

LEMMA MovedJump ==
  ASSUME NEW p, NEW S, NEW m, Told(p, S, m), MovesArePromoted(p), NEW mv, NEW i \in Openers(p),
         MovedAt(p, S, mv, i)
  PROVE  /\ \A a \in ArmsOf(p, i) : MovedAt(p, S, mv, a + 1)
         /\ ArmsOf(p, i) = {} => MovedAt(p, S, mv, EndOf(p, i) + 1)
         /\ \A s \in {EndOf(p, i)} \cup ArmsOf(p, i) :
              MovedAt(p, S, mv, s) => MovedAt(p, S, mv, EndOf(p, i) + 1)
<1> DEFINE e == EndOf(p, i)
<1>1. WellFormed(p) /\ \A v \in InScope(p, i) : KeptByBlock(p, S, i, v)
  BY BlocksKeep DEF Told
<1>2. /\ InScope(p, e + 1) \subseteq InScope(p, i)
      /\ \A a \in ArmsOf(p, i) : InScope(p, a + 1) \subseteq InScope(p, i)
      /\ \A s \in {e} \cup ArmsOf(p, i) : InScope(p, i) \subseteq InScope(p, s)
  <2>1. \A s \in {e} \cup ArmsOf(p, i) : s \in i .. e + 1
    <3>1. /\ i \in 1 .. Len(p) /\ e \in 1 .. Len(p) /\ i < e
          /\ \A a \in ArmsOf(p, i) : a \in 1 .. Len(p) /\ i < a /\ a < e
      BY <1>1, BlockPositions
    <3> QED
      BY <3>1
  <2> QED
    BY <1>1, <2>1, InScopeFlow
<1>3. \A v : p[i].op \in {"if", "while"} \/ ~MovedBetween(p, v, i, e)
  BY DEF MovesArePromoted, MovedBetween
<1>4. \A v \in InScope(p, i) :
        /\ S[e+1][v].voided => S[i][v].voided \/ (ArmsOf(p, i) # {} /\ S[e][v].voided)
        /\ \A a \in ArmsOf(p, i) :
             /\ S[a+1][v].voided => S[i][v].voided
             /\ S[e+1][v].voided => S[i][v].voided \/ S[a][v].voided
  BY <1>1, <1>3 DEF KeptByBlock
<1> HIDE DEF e
<1>5. ASSUME NEW a \in ArmsOf(p, i)
      PROVE  MovedAt(p, S, mv, a + 1)
  BY <1>2, <1>4 DEF MovedAt
<1>6. ASSUME ArmsOf(p, i) = {}
      PROVE  MovedAt(p, S, mv, e + 1)
  BY <1>2, <1>4, <1>6 DEF MovedAt
<1>7. ASSUME NEW s \in {e} \cup ArmsOf(p, i), MovedAt(p, S, mv, s)
      PROVE  MovedAt(p, S, mv, e + 1)
  <2>1. ASSUME NEW v \in InScope(p, e + 1), S[e+1][v].voided
        PROVE  mv[v]
    <3>1. v \in InScope(p, i) /\ v \in InScope(p, s)
      BY <1>2
    <3>2. S[i][v].voided \/ S[s][v].voided
      BY <1>4, <2>1, <3>1
    <3> QED
      BY <1>7, <3>1, <3>2 DEF MovedAt
  <2> QED
    BY <2>1 DEF MovedAt
<1> QED
  BY <1>5, <1>6, <1>7 DEF e

\* From a statement to the next; w is what has been moved then.
LEMMA NextState ==
  ASSUME NEW p, NEW S, NEW m, Told(p, S, m), NEW s \in 1 .. Len(p),
         p[s].op \in {"decl", "use", "assign", "move", "if", "while", "for", "switch"},
         NEW mv \in [Declarations(p) -> BOOLEAN], NEW w,
         w = CASE p[s].op = "decl" -> [mv EXCEPT ![s] = FALSE]
               [] p[s].op = "move" -> [mv EXCEPT ![VarAt(p, s)] = TRUE]
               [] OTHER -> mv
  PROVE  /\ UnmovedAt(p, S, mv, s)
            /\ (p[s].op = "switch" => Unsettled(p, VarAt(p, s), s) \/ ~mv[VarAt(p, s)])
            => UnmovedAt(p, S, w, s + 1)
         /\ MovedAt(p, S, mv, s) => MovedAt(p, S, w, s + 1)
<1> DEFINE D == Declarations(p)
           x == VarAt(p, s)
<1>1. /\ WellFormed(p) /\ Recorded(p, S, m, s) /\ RecordedStep(p, S, m, s)
      /\ Len(p) \in Nat /\ DOMAIN p = 1 .. Len(p)
      /\ S[s] \in [D -> Symbols] /\ S[s+1] \in [D -> Symbols]
  <2>1. WellFormed(p) /\ S \in Histories(p) /\ Recorded(p, S, m, s)
    BY DEF Told
  <2>2. Len(p) \in Nat /\ DOMAIN p = 1 .. Len(p)
    BY <2>1, Shape
  <2>3. s \in 1 .. Len(p) + 1 /\ s + 1 \in 1 .. Len(p) + 1
    BY <2>2
  <2> QED
    BY <2>1, <2>2, <2>3 DEF Histories, Recorded
<1>2. /\ s \notin Arms(p) \cup Ends(p)
      /\ \A v \in InScope(p, s + 1) : v \in D /\ (v \in InScope(p, s) \/ (v = s /\ p[s].op = "decl"))
  <2>1. s \notin Arms(p) \cup Ends(p)
    BY DEF Arms, Ends
  <2>2. \A v \in InScope(p, s + 1) : v \in D /\ (v = s \/ v \in InScope(p, s))
    BY <1>1, <2>1, InScopeFlow
  <2> QED
    BY <2>1, <2>2 DEF Declarations
<1>3. ASSUME p[s].op \in {"move", "switch"}
      PROVE  x \in D
  BY <1>1, <1>3, VarIs
\* What changes at s.
<1>4. ASSUME NEW v \in D
      PROVE  /\ p[s].op = "decl" /\ v = s => S[s+1][v] = Valid /\ w[v] = FALSE
             /\ p[s].op = "move" /\ v = x => S[s+1][v].voided = TRUE /\ w[v] = TRUE
             /\ p[s].op = "switch" /\ v = x => S[s+1][v] = Valid /\ w[v] = mv[v]
             /\ \/ p[s].op = "decl" /\ v = s
                \/ p[s].op \in {"move", "switch"} /\ v = x
                \/ S[s+1][v] = S[s][v] /\ w[v] = mv[v]
  <2>1. CASE p[s].op = "decl"
    BY <1>1, <1>4, <2>1 DEF RecordedStep
  <2>2. CASE p[s].op = "move"
    <3>1. S[s+1] = [S[s] EXCEPT ![x].voided = TRUE] /\ w = [mv EXCEPT ![x] = TRUE]
      BY <1>1, <2>2 DEF RecordedStep
    <3>2. S[s+1][x] = [S[s][x] EXCEPT !.voided = TRUE] /\ w[x] = TRUE
      BY <1>1, <1>3, <2>2, <3>1
    <3>3. S[s+1][x].voided = TRUE
      BY <1>1, <1>3, <2>2, <3>2, SymbolIs
    <3>4. v # x => S[s+1][v] = S[s][v] /\ w[v] = mv[v]
      BY <1>1, <3>1
    <3> QED
      BY <2>2, <3>2, <3>3, <3>4
  <2>3. CASE p[s].op = "switch"
    BY <1>1, <1>3, <2>3 DEF RecordedStep
  <2>4. CASE p[s].op \in {"use", "assign", "if", "while", "for"}
    BY <1>1, <2>4 DEF RecordedStep
  <2> QED
    BY <2>1, <2>2, <2>3, <2>4
<1>5. ASSUME UnmovedAt(p, S, mv, s),
             p[s].op = "switch" => Unsettled(p, x, s) \/ ~mv[x],
             NEW v \in InScope(p, s + 1), S[s+1][v] = Valid, ~Unsettled(p, v, s + 1)
      PROVE  ~w[v]
  <2>1. ~(p[s].op = "move" /\ v = x)
    BY <1>2, <1>4, <1>5, SymbolIs
  <2>2. ~Unsettled(p, v, s)
    BY <1>1, <1>2, <1>5, <2>1, UnsettledNext DEF Moves
  <2>3. CASE p[s].op = "decl" /\ v = s
    BY <1>2, <1>4, <2>3
  <2>4. CASE p[s].op = "switch" /\ v = x
    BY <1>2, <1>4, <1>5, <2>2, <2>4
  <2>5. CASE S[s+1][v] = S[s][v] /\ w[v] = mv[v] /\ ~(p[s].op = "decl" /\ v = s)
    BY <1>2, <1>5, <2>2, <2>5 DEF UnmovedAt
  <2> QED
    BY <1>2, <1>4, <2>1, <2>3, <2>4, <2>5
<1>6. ASSUME MovedAt(p, S, mv, s), NEW v \in InScope(p, s + 1), S[s+1][v].voided
      PROVE  w[v]
  <2>1. ~(p[s].op = "decl" /\ v = s) /\ ~(p[s].op = "switch" /\ v = x)
    BY <1>2, <1>4, <1>6, SymbolIs
  <2>2. CASE p[s].op = "move" /\ v = x
    BY <1>2, <1>4, <2>2
  <2>3. CASE S[s+1][v] = S[s][v] /\ w[v] = mv[v]
    BY <1>2, <1>6, <2>1, <2>3 DEF MovedAt
  <2> QED
    BY <1>2, <1>4, <2>1, <2>2, <2>3
<1> QED
  BY <1>5, <1>6 DEF UnmovedAt, MovedAt

\* At s and at the heads of the blocks around it: the run comes back to the
\* head of a loop, and an if is merged with what was known at its head.
UnmovedOn(p, S, mv, s) ==
  /\ UnmovedAt(p, S, mv, s)
  /\ \A i \in Loops(p) : Inside(p, i, s) => UnmovedAt(p, S, mv, i)

MovedOn(p, S, mv, s) ==
  /\ MovedAt(p, S, mv, s)
  /\ \A i \in Openers(p) : Inside(p, i, s) => MovedAt(p, S, mv, i)

\* Where the run goes from s, if not to the statement after it in its arm.
Jump(p, s, u) ==
  \/ s \in Openers(p) /\ ArmsOf(p, s) = {} /\ u = EndOf(p, s) + 1
  \/ s \in Openers(p) /\ \E a \in ArmsOf(p, s) : u = a + 1
  \/ s \in Arms(p) /\ u = EndOf(p, OpenerOf(p, s)) + 1
  \/ s \in Ends(p) /\ p[OpenerOf(p, s)].op \in {"if", "switch"} /\ u = s + 1
  \/ s \in Ends(p) /\ p[OpenerOf(p, s)].op \in {"while", "for"} /\ u = OpenerOf(p, s)

\* The run enters a block only at its head.
LEMMA JumpIs ==
  ASSUME NEW p, WellFormed(p), NEW s \in 1 .. Len(p), NEW u, Jump(p, s, u)
  PROVE  u \in 1 .. Len(p) + 1 /\ \A j : Inside(p, j, u) => j = s \/ Inside(p, j, s)
<1>1. /\ Armed(p) /\ Balanced(p) /\ Len(p) \in Nat /\ Openers(p) \subseteq 1 .. Len(p)
      /\ Arms(p) \subseteq 1 .. Len(p) /\ Ends(p) \subseteq 1 .. Len(p)
  BY Shape
<1>2. CASE s \in Openers(p)
  <2>1. s \notin Arms(p) /\ s \notin Ends(p)
    BY <1>2 DEF Openers, Arms, Ends
  <2>2. u = EndOf(p, s) + 1 \/ \E a \in ArmsOf(p, s) : u = a + 1
    BY <2>1 DEF Jump
  <2>3. u \in 1 .. Len(p) + 1
    BY <1>1, <1>2, <2>2, BlockPositions
  <2> QED
    BY <1>1, <1>2, <2>2, <2>3, InsideFlow
<1>3. ASSUME s \in Arms(p) \cup Ends(p)
      PROVE  /\ OpenerOf(p, s) \in Openers(p) /\ Inside(p, OpenerOf(p, s), s)
             /\ EndOf(p, OpenerOf(p, s)) \in 1 .. Len(p)
             /\ s \in Ends(p) => EndOf(p, OpenerOf(p, s)) = s
  <2> DEFINE i == OpenerOf(p, s)
  <2>1. CASE s \in Arms(p)
    <3>1. i \in Openers(p) /\ s \in ArmsOf(p, i)
      BY <1>1, <2>1, ArmIs
    <3>2. i < s /\ s < EndOf(p, i) /\ EndOf(p, i) \in 1 .. Len(p)
      BY <3>1, BlockPositions
    <3>3. s \in 1 .. Len(p) + 1 /\ s <= EndOf(p, i) /\ s \notin Ends(p)
      BY <1>1, <2>1, <3>2 DEF Arms, Ends
    <3> QED
      BY <1>1, <3>1, <3>2, <3>3, BlockSpan
  <2>2. CASE s \in Ends(p)
    <3>1. i \in Openers(p) /\ EndOf(p, i) = s
      BY <1>1, <2>2, EndCloses
    <3>2. i < s /\ s \in 1 .. Len(p) + 1 /\ s <= s
      BY <1>1, <3>1, BlockPositions
    <3> QED
      BY <1>1, <3>1, <3>2, BlockSpan
  <2> QED
    BY <1>3, <2>1, <2>2
<1>4. CASE s \in Arms(p) \cup Ends(p)
  <2> DEFINE i == OpenerOf(p, s)
  <2>1. u = EndOf(p, i) + 1 \/ u = i
    <3>1. s \notin Openers(p)
      BY <1>4 DEF Openers, Arms, Ends
    <3> QED
      BY <1>3, <1>4, <3>1 DEF Jump
  <2>2. u \in 1 .. Len(p) + 1
    BY <1>1, <1>3, <1>4, <2>1
  <2>3. \A j : Inside(p, j, u) => Inside(p, j, i)
    BY <1>1, <1>3, <1>4, <2>1, InsideFlow
  <2>4. s \in 1 .. Len(p) + 1
    BY <1>1
  <2>5. \A j : Inside(p, j, i) => Inside(p, j, s)
    BY <1>1, <1>3, <1>4, <2>4, InsideFlow
  <2> QED
    BY <2>2, <2>3, <2>5
<1> QED
  BY <1>2, <1>4 DEF Jump

LEMMA OnJump ==
  ASSUME NEW p, NEW S, NEW m, Told(p, S, m), NEW mv, NEW s \in 1 .. Len(p), NEW u, Jump(p, s, u)
  PROVE  /\ UnmovedOn(p, S, mv, s) => UnmovedOn(p, S, mv, u)
         /\ MovesArePromoted(p) /\ MovedOn(p, S, mv, s) => MovedOn(p, S, mv, u)
<1>1. WellFormed(p) /\ Armed(p) /\ Balanced(p) /\ Len(p) \in Nat /\ s \in 1 .. Len(p) + 1
  <2>1. WellFormed(p)
    BY DEF Told
  <2> QED
    BY <2>1, Shape
<1>2. \A j : Inside(p, j, u) => j \in Openers(p) /\ (j = s \/ Inside(p, j, s))
  BY <1>1, JumpIs DEF Inside
<1>3. ASSUME s \notin Openers(p)
      PROVE  LET i == OpenerOf(p, s) IN
             /\ i \in Openers(p) /\ Inside(p, i, s)
             /\ s \in {EndOf(p, i)} \cup ArmsOf(p, i)
             /\ \/ u = EndOf(p, i) + 1 /\ p[i].op \in {"if", "switch"}
                \/ u = i /\ i \in Loops(p)
  <2> DEFINE i == OpenerOf(p, s)
  <2>1. CASE s \in Arms(p)
    <3>1. i \in Openers(p) /\ s \in ArmsOf(p, i) /\ s \notin Ends(p)
      BY <1>1, <2>1, ArmIs DEF Arms, Ends
    <3>2. i < s /\ s <= EndOf(p, i)
      <4>1. i < s /\ s < EndOf(p, i) /\ EndOf(p, i) \in 1 .. Len(p)
        BY <1>1, <3>1, BlockPositions
      <4> QED
        BY <4>1
    <3>3. p[i].op \in {"if", "switch"}
      BY <1>1, <3>1, Shape
    <3> QED
      BY <1>1, <1>3, <3>1, <3>2, <3>3, BlockSpan DEF Jump
  <2>2. CASE s \in Ends(p)
    <3>1. i \in Openers(p) /\ EndOf(p, i) = s /\ s \notin Arms(p)
      BY <1>1, <2>2, EndCloses DEF Arms, Ends
    <3>2. i < s /\ s <= s
      BY <1>1, <3>1, BlockPositions
    <3> QED
      BY <1>1, <1>3, <3>1, <3>2, BlockSpan DEF Jump, Loops
  <2> QED
    BY <1>3, <2>1, <2>2 DEF Jump
<1>4. ASSUME UnmovedOn(p, S, mv, s)
      PROVE  UnmovedAt(p, S, mv, u)
  <2>1. CASE s \in Openers(p)
    <3>1. s \notin Arms(p) /\ s \notin Ends(p)
      BY <2>1 DEF Openers, Arms, Ends
    <3> QED
      BY <1>4, <2>1, <3>1, UnmovedJump DEF UnmovedOn, Jump
  <2>2. CASE s \notin Openers(p)
    BY <1>3, <1>4, <2>2, UnmovedJump DEF UnmovedOn
  <2> QED
    BY <2>1, <2>2
<1>5. ASSUME MovesArePromoted(p), MovedOn(p, S, mv, s)
      PROVE  MovedAt(p, S, mv, u)
  <2>1. CASE s \in Openers(p)
    <3>1. s \notin Arms(p) /\ s \notin Ends(p)
      BY <2>1 DEF Openers, Arms, Ends
    <3> QED
      BY <1>5, <2>1, <3>1, MovedJump DEF MovedOn, Jump
  <2>2. CASE s \notin Openers(p)
    <3>1. MovedAt(p, S, mv, OpenerOf(p, s)) /\ MovedAt(p, S, mv, s)
      BY <1>3, <1>5, <2>2 DEF MovedOn
    <3> QED
      BY <1>3, <1>5, <2>2, <3>1, MovedJump
  <2> QED
    BY <2>1, <2>2
<1> QED
  BY <1>2, <1>4, <1>5 DEF UnmovedOn, MovedOn, Loops

LEMMA OnNext ==
  ASSUME NEW p, NEW S, NEW m, Told(p, S, m), NEW s \in 1 .. Len(p),
         p[s].op \in {"decl", "use", "assign", "move", "if", "while", "for", "switch"},
         NEW mv \in [Declarations(p) -> BOOLEAN], NEW w,
         w = CASE p[s].op = "decl" -> [mv EXCEPT ![s] = FALSE]
               [] p[s].op = "move" -> [mv EXCEPT ![VarAt(p, s)] = TRUE]
               [] OTHER -> mv
  PROVE  /\ UnmovedOn(p, S, mv, s)
            /\ (p[s].op = "switch" => Unsettled(p, VarAt(p, s), s) \/ ~mv[VarAt(p, s)])
            => UnmovedOn(p, S, w, s + 1)
         /\ MovedOn(p, S, mv, s) => MovedOn(p, S, w, s + 1)
<1> DEFINE x == VarAt(p, s)
<1>1. /\ WellFormed(p) /\ Armed(p) /\ Balanced(p) /\ Len(p) \in Nat /\ DOMAIN p = 1 .. Len(p)
      /\ Openers(p) \subseteq 1 .. Len(p)
      /\ s \in 1 .. Len(p) + 1
  <2>1. WellFormed(p)
    BY DEF Told
  <2> QED
    BY <2>1, Shape
<1>2. \A j : Inside(p, j, s + 1) => j \in Openers(p) /\ (j = s \/ Inside(p, j, s))
  BY <1>1, InsideFlow DEF Inside
<1>3. s \in Openers(p) => w = mv
  BY DEF Openers
\* What is in scope at the head of a block around s is declared before it.
<1>4. ASSUME NEW i \in Openers(p), i < s, NEW v \in InScope(p, i)
      PROVE  /\ w[v] = mv[v] \/ (p[s].op = "move" /\ v = x /\ w[v] = TRUE)
             /\ v \in Declarations(p) /\ v < i
  <2>1. v \in Declarations(p) /\ v < i /\ v \in 1 .. Len(p) /\ i \in 1 .. Len(p)
    BY <1>1, InScopeFlow
  <2>2. v # s
    BY <1>1, <1>4, <2>1
  <2>3. CASE p[s].op = "decl"
    BY <2>1, <2>2, <2>3
  <2>4. CASE p[s].op = "move"
    <3>1. w = [mv EXCEPT ![x] = TRUE]
      BY <2>4
    <3>2. v = x => w[v] = TRUE
      BY <2>1, <3>1
    <3>3. v # x => w[v] = mv[v]
      BY <2>1, <3>1
    <3> QED
      BY <2>1, <2>4, <3>2, <3>3
  <2>5. CASE p[s].op \notin {"decl", "move"}
    <3>1. w = mv
      BY <2>5
    <3> QED
      BY <2>1, <3>1
  <2> QED
    BY <2>1, <2>3, <2>4, <2>5
<1>5. ASSUME NEW i \in Loops(p), Inside(p, i, s), UnmovedAt(p, S, mv, i)
      PROVE  UnmovedAt(p, S, w, i)
  <2>1. i \in Openers(p) /\ i < s /\ s <= EndOf(p, i) /\ i <= i /\ i <= EndOf(p, i) /\ i <= s
    <3>1. i \in Openers(p) /\ i \in 1 .. Len(p) /\ EndOf(p, i) \in 1 .. Len(p)
      BY <1>1, BlockPositions DEF Loops
    <3>2. i < s /\ s <= EndOf(p, i)
      BY <1>1, <1>5, <3>1, BlockSpan
    <3> QED
      BY <3>1, <3>2
  <2>2. ASSUME p[s].op = "move", x < i
        PROVE  Unsettled(p, x, i)
    <3>1. s \in Moves(p)
      BY <1>1, <2>2 DEF Moves
    <3>2. i \in LoopsAround(p, s)
      BY <2>1 DEF LoopsAround, Loops
    <3> QED
      BY <2>1, <2>2, <3>1, <3>2 DEF Unsettled, UnsettledBy
  <2>3. ASSUME NEW v \in InScope(p, i), S[i][v] = Valid, ~Unsettled(p, v, i)
        PROVE  ~w[v]
    BY <1>4, <1>5, <2>1, <2>2, <2>3 DEF UnmovedAt
  <2> QED
    BY <2>3 DEF UnmovedAt
<1>6. ASSUME NEW i \in Openers(p), Inside(p, i, s), MovedAt(p, S, mv, i)
      PROVE  MovedAt(p, S, w, i)
  <2>1. i < s
    BY <1>6 DEF Inside
  <2> QED
    BY <1>4, <1>6, <2>1 DEF MovedAt
<1>7. ASSUME UnmovedOn(p, S, mv, s),
             p[s].op = "switch" => Unsettled(p, x, s) \/ ~mv[x]
      PROVE  UnmovedOn(p, S, w, s + 1)
  <2>1. UnmovedAt(p, S, w, s + 1)
    <3>1. UnmovedAt(p, S, mv, s)
      BY <1>7 DEF UnmovedOn
    <3> QED
      BY <1>7, <3>1, NextState
  <2>2. \A i \in Loops(p) : Inside(p, i, s + 1) => UnmovedAt(p, S, w, i)
    BY <1>2, <1>3, <1>5, <1>7 DEF UnmovedOn
  <2> QED
    BY <2>1, <2>2 DEF UnmovedOn
<1>8. ASSUME MovedOn(p, S, mv, s)
      PROVE  MovedOn(p, S, w, s + 1)
  <2>1. MovedAt(p, S, w, s + 1)
    <3>1. MovedAt(p, S, mv, s)
      BY <1>8 DEF MovedOn
    <3> QED
      BY <3>1, NextState
  <2>2. \A i \in Openers(p) : Inside(p, i, s + 1) => MovedAt(p, S, w, i)
    BY <1>2, <1>3, <1>6, <1>8 DEF MovedOn
  <2> QED
    BY <2>1, <2>2 DEF MovedOn
<1> QED
  BY <1>7, <1>8

-----------------------------------------------------------------------------
(***************************************************************************)
(* The invariant, and the steps of the run.                                *)
(***************************************************************************)
FlagsTell == Shadowless(prog) => \A t \in DOMAIN flag : flag[t] = ~moved[t]

RunInv ==
  /\ RunTypes
  /\ FlagsTell
  /\ phase = "run" /\ Shadowless(prog) /\ AllFlagged(prog) =>
       UnmovedOn(prog, History, moved, pc)
  /\ phase = "run" /\ Shadowless(prog) /\ MovesArePromoted(prog) =>
       MovedOn(prog, History, moved, pc)

IInv == CheckInv /\ RunInv /\ ReadsAreGuarded /\ GuardsTellTheTruth

LEMMA RunFacts ==
  ASSUME CheckInv, phase = "run"
  PROVE  /\ WellFormed(prog) /\ Len(prog) \in Nat /\ DOMAIN prog = 1 .. Len(prog)
         /\ \A s \in 1 .. Len(prog) : Recorded(prog, History, meta, s)
         /\ Shadowless(prog) => Told(prog, History, meta)
<1>1. WellFormed(prog) /\ History \in Histories(prog) /\ Len(prog) \in Nat /\ DOMAIN prog = 1 .. Len(prog)
  BY CheckFacts
<1>2. Frontier - 1 = Len(prog)
  BY <1>1 DEF Frontier
<1>3. \A s \in 1 .. Len(prog) : Recorded(prog, History, meta, s)
  BY <1>2 DEF CheckInv
<1> QED
  BY <1>1, <1>3 DEF Told

\* A step from a statement to the next keeps the invariant.
LEMMA RunsOn ==
  ASSUME IInv, phase = "run", pc \in DOMAIN prog,
         prog[pc].op \in {"decl", "use", "assign", "move", "if", "while", "for", "switch"},
         UNCHANGED <<prog, phase, checker>>, pc' = pc + 1,
         moved' = CASE prog[pc].op = "decl" -> [moved EXCEPT ![pc] = FALSE]
                    [] prog[pc].op = "move" -> [moved EXCEPT ![Here] = TRUE]
                    [] OTHER -> moved,
         prog[pc].op = "switch" /\ Shadowless(prog) /\ AllFlagged(prog) =>
           Unsettled(prog, Here, pc) \/ ~moved[Here],
         RunTypes', FlagsTell'
  PROVE  CheckInv' /\ RunInv'
<1>1. /\ CheckInv /\ RunInv /\ pc \in 1 .. Len(prog) /\ Len(prog) \in Nat
      /\ pc + 1 \in 1 .. Len(prog) + 1
      /\ Shadowless(prog) => Told(prog, History, meta)
      /\ moved \in [Declarations(prog) -> BOOLEAN]
  <2>1. CheckInv /\ RunInv
    BY DEF IInv
  <2>2. pc \in 1 .. Len(prog) /\ Len(prog) \in Nat
    BY <2>1, RunFacts
  <2> QED
    BY <2>1, <2>2, RunFacts DEF RunInv, RunTypes
<1>2. CheckInv' /\ History' = History /\ prog' = prog /\ phase' = "run"
  BY <1>1, CheckRests
<1>3. moved' = CASE prog[pc].op = "decl" -> [moved EXCEPT ![pc] = FALSE]
                 [] prog[pc].op = "move" -> [moved EXCEPT ![VarAt(prog, pc)] = TRUE]
                 [] OTHER -> moved
  BY DEF Here
<1>4. ASSUME Shadowless(prog), AllFlagged(prog)
      PROVE  UnmovedOn(prog, History, moved', pc + 1)
  <2>1. Told(prog, History, meta) /\ UnmovedOn(prog, History, moved, pc)
    BY <1>1, <1>4 DEF RunInv
  <2>2. prog[pc].op = "switch" =>
          Unsettled(prog, VarAt(prog, pc), pc) \/ ~moved[VarAt(prog, pc)]
    BY <1>4 DEF Here
  <2> QED
    BY <1>1, <1>3, <2>1, <2>2, OnNext
<1>5. ASSUME Shadowless(prog), MovesArePromoted(prog)
      PROVE  MovedOn(prog, History, moved', pc + 1)
  <2>1. Told(prog, History, meta) /\ MovedOn(prog, History, moved, pc)
    BY <1>1, <1>5 DEF RunInv
  <2> QED
    BY <1>1, <1>3, <2>1, OnNext
<1> QED
  BY <1>2, <1>4, <1>5 DEF RunInv

\* A jump keeps the invariant.
LEMMA RunsAcross ==
  ASSUME IInv, phase = "run", pc \in DOMAIN prog, UNCHANGED <<prog, phase, checker>>,
         Jump(prog, pc, pc'), UNCHANGED <<moved, flag>>, trips' \in 0 .. MaxTrips
  PROVE  CheckInv' /\ RunInv'
<1>1. /\ CheckInv /\ RunInv /\ WellFormed(prog) /\ pc \in 1 .. Len(prog)
      /\ Shadowless(prog) => Told(prog, History, meta)
  BY RunFacts DEF IInv
<1>2. pc' \in 1 .. Len(prog) + 1
  BY <1>1, JumpIs
<1>3. CheckInv' /\ History' = History /\ prog' = prog /\ phase' = "run"
  BY <1>1, <1>2, CheckRests
<1>4. Shadowless(prog) =>
        /\ UnmovedOn(prog, History, moved, pc) => UnmovedOn(prog, History, moved, pc')
        /\ MovesArePromoted(prog) /\ MovedOn(prog, History, moved, pc) =>
             MovedOn(prog, History, moved, pc')
  BY <1>1, OnJump
<1>5. RunTypes' /\ FlagsTell'
  BY <1>1, <1>3 DEF RunInv, RunTypes, FlagsTell
<1> QED
  BY <1>1, <1>3, <1>4, <1>5 DEF RunInv

LEMMA OtherArmIs ==
  ASSUME WellFormed(prog), NEW i \in Openers(prog)
  PROVE  \/ ArmsOf(prog, i) = {} /\ OtherArm(i) = EndOf(prog, i) + 1
         \/ \E a \in ArmsOf(prog, i) : OtherArm(i) = a + 1
<1>1. ASSUME NEW a \in ArmsOf(prog, i)
      PROVE  OtherArm(i) = a + 1
  <2>1. ArmsOf(prog, i) = {a} /\ a \in Int
    BY Shape, BlockPositions
  <2>2. FirstOf({a}) = a
    BY <2>1, FirstIs
  <2> QED
    BY <2>1, <2>2 DEF OtherArm
<1> QED
  BY <1>1 DEF OtherArm

\* The variable that an access denotes, and its flag.
LEMMA HereIs ==
  ASSUME CheckInv, RunInv, phase = "run", pc \in DOMAIN prog,
         prog[pc].op \in {"use", "assign", "move", "switch"}
  PROVE  /\ Here = VarAt(prog, pc) /\ Here \in InScope(prog, pc) /\ Here \in Declarations(prog)
         /\ Here \in Int
         /\ Shadowless(prog) => /\ Flagged = {Here} \cap DOMAIN flag
                                /\ Flagged # {} => LastOf(Flagged) = Here
         /\ AllFlagged(prog) => DOMAIN flag = Declarations(prog)
<1>1. WellFormed(prog) /\ pc \in 1 .. Len(prog) /\ Declarations(prog) \subseteq 1 .. Len(prog)
  BY RunFacts, Shape
<1>2. /\ Here = VarAt(prog, pc) /\ Here \in InScope(prog, pc) /\ Here \in Declarations(prog)
      /\ Shadowless(prog) => Visible(prog, pc, prog[pc].x) = {Here}
  BY <1>1, VarIs DEF Here
<1>3. Here \in Int
  BY <1>1, <1>2
<1>4. Shadowless(prog) => Flagged = {Here} \cap DOMAIN flag
  BY <1>2 DEF Flagged
<1>5. LastOf({Here}) = Here
  BY <1>3, LastIs
<1>6. Shadowless(prog) /\ Flagged # {} => Flagged = {Here}
  BY <1>4
<1>7. AllFlagged(prog) => DOMAIN flag = Declarations(prog)
  BY DEF RunInv, RunTypes, AllFlagged
<1> QED
  BY <1>2, <1>3, <1>4, <1>5, <1>6, <1>7

\* What a loop moves it does not access before the move.
LEMMA AccessIsSettled ==
  ASSUME NEW p, WellFormed(p), LoopsAccessAfterMove(p), NEW s \in 1 .. Len(p),
         p[s].op \in {"use", "switch"}
  PROVE  ~Unsettled(p, VarAt(p, s), s)
<1> SUFFICES ASSUME NEW k \in Moves(p), NEW i \in Openers(p), UnsettledBy(p, VarAt(p, s), k, i, s)
             PROVE  FALSE
  BY DEF Unsettled
<1>1. /\ Len(p) \in Nat /\ Moves(p) \subseteq 1 .. Len(p) /\ Openers(p) \subseteq 1 .. Len(p)
      /\ Armed(p) /\ Arms(p) \subseteq 1 .. Len(p) /\ s \notin Ends(p)
      /\ Declarations(p) \subseteq 1 .. Len(p)
      /\ EndOf(p, i) \in 1 .. Len(p)
  BY Shape, BlockPositions DEF Ends
<1>2. /\ VarAt(p, k) = VarAt(p, s) /\ VarAt(p, s) < i /\ i \in LoopsAround(p, k)
      /\ i <= s /\ s <= EndOf(p, i)
      /\ s <= k \/ \E a \in Arms(p) : /\ k < a /\ a < s
                                      /\ OpenerOf(p, a) < k /\ s <= EndOf(p, OpenerOf(p, a))
  BY DEF UnsettledBy
<1>3. s \in i .. EndOf(p, i)
  BY <1>1, <1>2
<1>4. VarAt(p, k) \in Int
  <2>1. k \in 1 .. Len(p) /\ p[k].op = "move"
    BY <1>1 DEF Moves
  <2>2. VarAt(p, k) \in Declarations(p)
    BY <2>1, VarIs
  <2> QED
    BY <1>1, <2>2
<1>5. k < s /\ ~InOtherArm(p, k, s)
  <2>1. VarAt(p, s) # VarAt(p, k) \/ VarAt(p, k) > i \/ (k < s /\ ~InOtherArm(p, k, s))
    BY <1>2, <1>3 DEF LoopsAccessAfterMove
  <2> QED
    BY <1>1, <1>2, <1>4, <2>1
<1>6. PICK a \in Arms(p) : /\ k < a /\ a < s
                           /\ OpenerOf(p, a) < k /\ s <= EndOf(p, OpenerOf(p, a))
  BY <1>1, <1>2, <1>5
<1>7. s < EndOf(p, OpenerOf(p, a))
  <2>1. OpenerOf(p, a) \in Openers(p)
    BY <1>1, ArmIs
  <2>2. EndOf(p, OpenerOf(p, a)) \in Ends(p) /\ EndOf(p, OpenerOf(p, a)) \in 1 .. Len(p)
    BY <2>1, BlockPositions
  <2> QED
    BY <1>1, <1>6, <2>2
<1> QED
  BY <1>5, <1>6, <1>7 DEF InOtherArm

\* A step that records no misuse.
LEMMA NoMisuse ==
  ASSUME IInv, UNCHANGED prog,
         \A w \in {"use", "valid arm", "voided arm"} : w \in misused' => w \in misused
  PROVE  ReadsAreGuarded' /\ GuardsTellTheTruth'
<1>1. ReadsAreGuarded /\ GuardsTellTheTruth
  BY DEF IInv
<1> QED
  BY <1>1 DEF ReadsAreGuarded, GuardsTellTheTruth

\* At the first statement no block is open and no variable is in scope.
LEMMA AtTheStart ==
  ASSUME NEW p, WellFormed(p)
  PROVE  /\ Depth(p, 1) = 0 /\ InScope(p, 1) = {} /\ \A i \in Openers(p) : ~Inside(p, i, 1)
<1>1. Balanced(p) /\ Len(p) \in Nat /\ Openers(p) \subseteq 1 .. Len(p)
  BY Shape
<1>2. \A t \in InScope(p, 1) : t \in 1 .. Len(p) /\ t < 1
  BY InScopeFlow
<1>3. \A i : Inside(p, i, 1) => i \in Openers(p) /\ i < 1
  BY DEF Inside
<1> QED
  BY <1>1, <1>2, <1>3, Depths

LEMMA Starts == Init => IInv
<1> SUFFICES ASSUME Init PROVE IInv
  OBVIOUS
<1>1. /\ prog \in Programs /\ phase = "check" /\ pc = 1
      /\ sym = [t \in Declarations(prog) |-> Valid] /\ frames = << >>
      /\ meta = [i \in Guards(prog) |-> "none"]
      /\ facts = [s \in DOMAIN prog |-> sym]
      /\ moved = [t \in Declarations(prog) |-> FALSE]
      /\ flag = [t \in {u \in Declarations(prog) : ~prog[u].managed} |-> TRUE]
      /\ trips = 0 /\ misused = {}
  BY DEF Init
<1>2. WellFormed(prog) /\ Len(prog) \in Nat
  BY <1>1, ProgramsAssumption, Shape
<1>3. CheckTypes
  <2>1. sym \in [Declarations(prog) -> Symbols]
    BY <1>1, SymbolIs
  <2>2. facts \in [DOMAIN prog -> [Declarations(prog) -> Symbols]]
    BY <1>1, <2>1
  <2>3. frames \in Seq(Frame(prog))
    BY <1>1
  <2> QED
    BY <1>1, <1>2, <2>1, <2>2, <2>3 DEF CheckTypes
<1>4. Framed(prog, History, pc, frames)
  <2>1. Len(frames) = 0
    BY <1>1
  <2> QED
    BY <1>1, <1>2, <2>1, AtTheStart DEF Framed
<1>5. Frontier = 1 /\ 1 .. Frontier - 1 = {}
  BY <1>1 DEF Frontier
<1>6. RunTypes
  BY <1>1, TripsAssumption DEF RunTypes
<1>7. FlagsTell
  BY <1>1 DEF FlagsTell
<1>8. ReadsAreGuarded /\ GuardsTellTheTruth
  BY <1>1 DEF ReadsAreGuarded, GuardsTellTheTruth
<1> QED
  BY <1>1, <1>3, <1>4, <1>5, <1>6, <1>7, <1>8 DEF IInv, CheckInv, RunInv

\* A step that does not run the program leaves what was said of the run.
LEMMA Idles ==
  ASSUME IInv, CheckInv', UNCHANGED <<prog, runtime>>, phase' # "run"
  PROVE  IInv'
<1>1. UNCHANGED <<moved, flag, trips, misused>>
  BY DEF runtime
<1>2. RunTypes' /\ FlagsTell'
  BY <1>1 DEF IInv, RunInv, RunTypes, FlagsTell
<1>3. RunInv'
  BY <1>2 DEF RunInv
<1> QED
  BY <1>1, <1>3, NoMisuse DEF IInv

LEMMA Accepts ==
  ASSUME IInv, Accept
  PROVE  IInv'
<1>1. /\ CheckInv /\ RunInv /\ phase' = "run" /\ pc' = 1
      /\ UNCHANGED <<prog, moved, flag, trips, misused>>
  BY DEF IInv, Accept, runtime
<1>2. CheckInv' /\ WellFormed(prog)
  BY <1>1, CheckAccepts, CheckFacts
<1>3. RunTypes' /\ FlagsTell'
  BY <1>1 DEF RunInv, RunTypes, FlagsTell
<1>4. UnmovedOn(prog, History', moved, 1) /\ MovedOn(prog, History', moved, 1)
  <2>1. InScope(prog, 1) = {} /\ \A i \in Openers(prog) : ~Inside(prog, i, 1)
    BY <1>2, AtTheStart
  <2>2. Loops(prog) \subseteq Openers(prog)
    BY DEF Loops
  <2> QED
    BY <2>1, <2>2 DEF UnmovedOn, MovedOn, UnmovedAt, MovedAt
<1>5. RunInv'
  BY <1>1, <1>3, <1>4 DEF RunInv
<1> QED
  BY <1>1, <1>2, <1>5, NoMisuse DEF IInv

LEMMA Checks ==
  ASSUME IInv, CheckNext
  PROVE  IInv'
<1>1. /\ CheckInv' /\ UNCHANGED <<prog, runtime>> /\ phase' # "run"
  BY CheckStep DEF IInv
<1> QED
  BY <1>1, Idles

LEMMA Declares ==
  ASSUME IInv, RunDecl
  PROVE  IInv'
<1>1. /\ phase = "run" /\ pc \in DOMAIN prog /\ prog[pc].op = "decl"
      /\ moved' = [moved EXCEPT ![pc] = FALSE]
      /\ flag' = [t \in DOMAIN flag |-> t = pc \/ flag[t]]
      /\ pc' = pc + 1 /\ UNCHANGED <<prog, phase, checker, trips, misused>>
  BY DEF RunDecl, Running, Goto
<1>2. RunTypes /\ FlagsTell /\ pc \in Declarations(prog)
  BY <1>1 DEF IInv, RunInv, Declarations
<1>3. RunTypes'
  BY <1>1, <1>2 DEF RunTypes
<1>4. FlagsTell'
  <2>1. DOMAIN flag' = DOMAIN flag /\ DOMAIN flag \subseteq Declarations(prog)
    BY <1>1, <1>2 DEF RunTypes
  <2>2. \A t \in DOMAIN flag : moved'[t] = IF t = pc THEN FALSE ELSE moved[t]
    BY <1>1, <1>2, <2>1 DEF RunTypes
  <2>3. ASSUME Shadowless(prog), NEW t \in DOMAIN flag
        PROVE  flag'[t] = ~moved'[t]
    <3>1. flag'[t] = (t = pc \/ flag[t])
      BY <1>1
    <3>2. flag[t] = ~moved[t]
      BY <1>2, <2>3 DEF FlagsTell
    <3>3. CASE t = pc
      BY <2>2, <3>1, <3>3
    <3>4. CASE t # pc
      <4>1. flag[t] \in BOOLEAN
        BY <1>2 DEF RunTypes
      <4> QED
        BY <2>2, <3>1, <3>2, <3>4, <4>1
    <3> QED
      BY <3>3, <3>4
  <2> QED
    BY <1>1, <2>1, <2>3 DEF FlagsTell
<1>5. CheckInv' /\ RunInv'
  <2>1. moved' = CASE prog[pc].op = "decl" -> [moved EXCEPT ![pc] = FALSE]
                   [] prog[pc].op = "move" -> [moved EXCEPT ![Here] = TRUE]
                   [] OTHER -> moved
    BY <1>1
  <2> QED
    BY <1>1, <1>3, <1>4, <2>1, RunsOn
<1> QED
  BY <1>1, <1>5, NoMisuse DEF IInv

\* What the checker knows at an access or a guard that runs.
LEMMA Knows ==
  ASSUME IInv, phase = "run", pc \in DOMAIN prog, prog[pc].op \in {"use", "switch"}
  PROVE  /\ Recorded(prog, History, meta, pc)
         /\ History[pc][Here] \in Symbols
         /\ Shadowless(prog) /\ AllFlagged(prog) /\ History[pc][Here] = Valid =>
              Unsettled(prog, Here, pc) \/ ~moved[Here]
         /\ LoopsAccessAfterMove(prog) => ~Unsettled(prog, Here, pc)
         /\ Shadowless(prog) /\ MovesArePromoted(prog) /\ History[pc][Here].voided => moved[Here]
<1>1. /\ CheckInv /\ RunInv /\ WellFormed(prog) /\ Recorded(prog, History, meta, pc)
      /\ pc \in 1 .. Len(prog) /\ pc \in 1 .. Len(prog) + 1
      /\ History \in Histories(prog)
  <2>1. CheckInv /\ RunInv
    BY DEF IInv
  <2>2. pc \in 1 .. Len(prog) /\ Len(prog) \in Nat
    BY <2>1, RunFacts
  <2> QED
    BY <2>1, <2>2, RunFacts, CheckFacts
<1>2. Here = VarAt(prog, pc) /\ Here \in InScope(prog, pc) /\ Here \in Declarations(prog)
  BY <1>1, HereIs
<1>3. History[pc][Here] \in Symbols
  BY <1>1, <1>2 DEF Histories
<1>4. LoopsAccessAfterMove(prog) => ~Unsettled(prog, Here, pc)
  BY <1>1, <1>2, AccessIsSettled
<1>5. Shadowless(prog) /\ AllFlagged(prog) => UnmovedAt(prog, History, moved, pc)
  BY <1>1 DEF RunInv, UnmovedOn
<1>6. Shadowless(prog) /\ MovesArePromoted(prog) => MovedAt(prog, History, moved, pc)
  BY <1>1 DEF RunInv, MovedOn
<1> QED
  BY <1>1, <1>2, <1>3, <1>4, <1>5, <1>6 DEF UnmovedAt, MovedAt

LEMMA Accesses ==
  ASSUME IInv, RunAccess
  PROVE  IInv'
<1>1. /\ phase = "run" /\ pc \in DOMAIN prog /\ prog[pc].op \in {"use", "assign"}
      /\ misused' = misused \cup IF moved[Here] THEN {prog[pc].op} ELSE {}
      /\ pc' = pc + 1 /\ UNCHANGED <<prog, phase, checker, moved, flag, trips>>
  BY DEF RunAccess, Running, Goto, Misuse
<1>2. RunTypes' /\ FlagsTell'
  BY <1>1 DEF IInv, RunInv, RunTypes, FlagsTell
<1>3. CheckInv' /\ RunInv'
  <2>1. moved' = CASE prog[pc].op = "decl" -> [moved EXCEPT ![pc] = FALSE]
                   [] prog[pc].op = "move" -> [moved EXCEPT ![Here] = TRUE]
                   [] OTHER -> moved
    BY <1>1
  <2> QED
    BY <1>1, <1>2, <2>1, RunsOn
<1>4. GuardsTellTheTruth'
  BY <1>1 DEF IInv, GuardsTellTheTruth
<1>5. ReadsAreGuarded'
  <2>1. CASE "use" \in misused' => "use" \in misused
    BY <1>1, <2>1 DEF IInv, ReadsAreGuarded
  <2>2. CASE prog[pc].op = "use" /\ moved[Here]
    <3>1. Usable(History[pc][Here])
      BY <1>1, <2>2, Knows DEF Recorded, RecordedStep, Here
    <3>2. History[pc][Here] = Valid
      BY <1>1, <2>2, <3>1, Knows, SymbolIs DEF Usable
    <3> QED
      BY <1>1, <2>2, <3>2, Knows DEF ReadsAreGuarded
  <2> QED
    BY <1>1, <2>1, <2>2
<1> QED
  BY <1>3, <1>4, <1>5 DEF IInv

LEMMA MovesOut ==
  ASSUME IInv, RunMove
  PROVE  IInv'
<1>1. /\ phase = "run" /\ pc \in DOMAIN prog /\ prog[pc].op = "move"
      /\ misused' = misused \cup IF moved[Here] THEN {"move"} ELSE {}
      /\ moved' = [moved EXCEPT ![Here] = TRUE]
      /\ flag' = IF Flagged = {} THEN flag ELSE [flag EXCEPT ![LastOf(Flagged)] = FALSE]
      /\ pc' = pc + 1 /\ UNCHANGED <<prog, phase, checker, trips>>
  BY DEF RunMove, Running, Goto, Misuse
<1>2. /\ RunTypes /\ FlagsTell /\ Here \in Declarations(prog)
      /\ Shadowless(prog) => /\ Flagged = {Here} \cap DOMAIN flag
                             /\ Flagged # {} => LastOf(Flagged) = Here
  BY <1>1, HereIs DEF IInv, RunInv
<1>3. RunTypes'
  BY <1>1, <1>2 DEF RunTypes
<1>4. FlagsTell'
  <2>1. DOMAIN flag' = DOMAIN flag /\ DOMAIN flag \subseteq Declarations(prog)
    BY <1>1, <1>2 DEF RunTypes
  <2>2. \A t \in DOMAIN flag : moved'[t] = IF t = Here THEN TRUE ELSE moved[t]
    BY <1>1, <1>2, <2>1 DEF RunTypes
  <2>3. ASSUME Shadowless(prog), NEW t \in DOMAIN flag
        PROVE  flag'[t] = ~moved'[t]
    <3>1. flag'[t] = IF t = Here THEN FALSE ELSE flag[t]
      BY <1>1, <1>2, <2>3
    <3>2. flag[t] = ~moved[t]
      BY <1>2, <2>3 DEF FlagsTell
    <3> QED
      BY <2>2, <3>1, <3>2
  <2> QED
    BY <1>1, <2>1, <2>3 DEF FlagsTell
<1>5. CheckInv' /\ RunInv'
  <2>1. moved' = CASE prog[pc].op = "decl" -> [moved EXCEPT ![pc] = FALSE]
                   [] prog[pc].op = "move" -> [moved EXCEPT ![Here] = TRUE]
                   [] OTHER -> moved
    BY <1>1
  <2> QED
    BY <1>1, <1>3, <1>4, <2>1, RunsOn
<1> QED
  BY <1>1, <1>5, NoMisuse DEF IInv

LEMMA Branches ==
  ASSUME IInv, RunBranch
  PROVE  IInv'
<1>1. /\ phase = "run" /\ pc \in DOMAIN prog /\ prog[pc].op \in {"if", "while", "for"}
      /\ \/ prog[pc].op = "if" /\ pc' \in {pc + 1, OtherArm(pc)} /\ UNCHANGED trips
         \/ /\ prog[pc].op \in {"while", "for"}
            /\ \/ trips < MaxTrips /\ trips' = trips + 1 /\ pc' = pc + 1
               \/ UNCHANGED trips /\ pc' = EndOf(prog, pc) + 1
      /\ UNCHANGED <<prog, phase, checker, moved, flag, misused>>
  BY DEF RunBranch, Running
<1>2. /\ RunTypes /\ FlagsTell /\ WellFormed(prog) /\ pc \in Openers(prog)
  BY <1>1, RunFacts DEF IInv, RunInv, Openers
<1>3. trips' \in 0 .. MaxTrips
  BY <1>1, <1>2, TripsAssumption DEF RunTypes
<1>4. RunTypes' /\ FlagsTell'
  BY <1>1, <1>2, <1>3 DEF RunTypes, FlagsTell
<1>5. CheckInv' /\ RunInv'
  <2>1. CASE pc' = pc + 1
    <3>1. moved' = CASE prog[pc].op = "decl" -> [moved EXCEPT ![pc] = FALSE]
                     [] prog[pc].op = "move" -> [moved EXCEPT ![Here] = TRUE]
                     [] OTHER -> moved
      BY <1>1
    <3> QED
      BY <1>1, <1>4, <2>1, <3>1, RunsOn
  <2>2. CASE prog[pc].op = "if" /\ pc' = OtherArm(pc)
    <3>1. Jump(prog, pc, pc')
      BY <1>2, <2>2, OtherArmIs DEF Jump
    <3> QED
      BY <1>1, <1>3, <3>1, RunsAcross
  <2>3. CASE prog[pc].op \in {"while", "for"} /\ pc' = EndOf(prog, pc) + 1
    <3>1. ArmsOf(prog, pc) = {}
      BY <1>2, <2>3, Shape
    <3>2. Jump(prog, pc, pc')
      BY <1>2, <2>3, <3>1 DEF Jump
    <3> QED
      BY <1>1, <1>3, <3>2, RunsAcross
  <2> QED
    BY <1>1, <2>1, <2>2, <2>3
<1> QED
  BY <1>1, <1>5, NoMisuse DEF IInv

\* Which arm a guard takes, and what was done to its variable.
LEMMA GuardIs ==
  ASSUME IInv, phase = "run", pc \in DOMAIN prog, prog[pc].op = "switch", Shadowless(prog)
  PROVE  /\ AllFlagged(prog) /\ TakesValidArm => Unsettled(prog, Here, pc) \/ ~moved[Here]
         /\ MovesArePromoted(prog) /\ ~TakesValidArm => moved[Here]
<1> DEFINE f == History[pc][Here]
<1>1. /\ meta[pc] = Annotation(f) /\ f \in Symbols
      /\ AllFlagged(prog) /\ f = Valid => Unsettled(prog, Here, pc) \/ ~moved[Here]
      /\ MovesArePromoted(prog) /\ f.voided => moved[Here]
  BY Knows DEF Recorded, RecordedStep, Here
<1>2. /\ Here \in Declarations(prog)
      /\ Flagged = {Here} \cap DOMAIN flag
      /\ Flagged # {} => LastOf(Flagged) = Here
      /\ AllFlagged(prog) => DOMAIN flag = Declarations(prog)
      /\ \A t \in DOMAIN flag : flag[t] = ~moved[t]
      /\ moved[Here] \in BOOLEAN
  BY HereIs DEF IInv, RunInv, FlagsTell, RunTypes
<1> HIDE DEF f
<1>3. ASSUME Flagged # {}
      PROVE  flag[LastOf(Flagged)] = ~moved[Here]
  BY <1>2, <1>3
<1>4. /\ meta[pc] = "valid" => f = Valid
      /\ meta[pc] \in {"valid", "voided", "unknown"}
      /\ meta[pc] = "voided" => f.voided
  BY <1>1, SymbolIs DEF Annotation
<1>5. ASSUME AllFlagged(prog), TakesValidArm
      PROVE  Unsettled(prog, Here, pc) \/ ~moved[Here]
  <2>1. CASE meta[pc] = "valid"
    BY <1>1, <1>4, <1>5, <2>1
  <2>2. CASE meta[pc] = "unknown"
    <3>1. Flagged # {}
      BY <1>2, <1>5
    <3>2. flag[LastOf(Flagged)]
      BY <1>5, <2>2, <3>1 DEF TakesValidArm
    <3> QED
      BY <1>3, <3>1, <3>2
  <2> QED
    BY <1>5, <2>1, <2>2 DEF TakesValidArm
<1>6. ASSUME MovesArePromoted(prog), ~TakesValidArm
      PROVE  moved[Here]
  <2>1. CASE meta[pc] = "voided"
    BY <1>1, <1>4, <1>6, <2>1
  <2>2. CASE meta[pc] = "unknown"
    <3>1. Flagged # {} /\ ~flag[LastOf(Flagged)]
      BY <1>6, <2>2 DEF TakesValidArm
    <3> QED
      BY <1>2, <1>3, <3>1
  <2>3. meta[pc] # "valid"
    BY <1>6 DEF TakesValidArm
  <2> QED
    BY <1>4, <2>1, <2>2, <2>3
<1> QED
  BY <1>5, <1>6

LEMMA GuardsRun ==
  ASSUME IInv, RunGuard
  PROVE  IInv'
<1>1. /\ phase = "run" /\ pc \in DOMAIN prog /\ prog[pc].op = "switch"
      /\ UNCHANGED <<prog, phase, checker, moved, flag, trips>>
      /\ \/ /\ TakesValidArm /\ pc' = pc + 1
            /\ misused' = misused \cup IF moved[Here] THEN {"valid arm"} ELSE {}
         \/ /\ ~TakesValidArm /\ pc' = OtherArm(pc)
            /\ misused' = misused \cup IF moved[Here] THEN {} ELSE {"voided arm"}
  BY DEF RunGuard, Running, Goto
<1>2. /\ RunTypes /\ FlagsTell /\ WellFormed(prog) /\ pc \in Openers(prog)
  BY <1>1, RunFacts DEF IInv, RunInv, Openers
<1>3. RunTypes' /\ FlagsTell'
  BY <1>1, <1>2 DEF RunTypes, FlagsTell
<1>4. CheckInv' /\ RunInv'
  <2>1. CASE TakesValidArm /\ pc' = pc + 1
    <3>1. moved' = CASE prog[pc].op = "decl" -> [moved EXCEPT ![pc] = FALSE]
                     [] prog[pc].op = "move" -> [moved EXCEPT ![Here] = TRUE]
                     [] OTHER -> moved
      BY <1>1
    <3>2. Shadowless(prog) /\ AllFlagged(prog) => Unsettled(prog, Here, pc) \/ ~moved[Here]
      BY <1>1, <2>1, GuardIs
    <3> QED
      BY <1>1, <1>3, <2>1, <3>1, <3>2, RunsOn
  <2>2. CASE pc' = OtherArm(pc)
    <3>1. Jump(prog, pc, pc')
      BY <1>2, <2>2, OtherArmIs DEF Jump
    <3>2. trips' \in 0 .. MaxTrips
      BY <1>1, <1>2 DEF RunTypes
    <3> QED
      BY <1>1, <3>1, <3>2, RunsAcross
  <2> QED
    BY <1>1, <2>1, <2>2
<1>5. /\ "use" \in misused' => "use" \in misused
      /\ "valid arm" \in misused' => "valid arm" \in misused \/ (TakesValidArm /\ moved[Here])
      /\ "voided arm" \in misused' => "voided arm" \in misused \/ (~TakesValidArm /\ ~moved[Here])
  <2>1. CASE moved[Here]
    <3>1. \/ TakesValidArm /\ misused' = misused \cup {"valid arm"}
          \/ misused' = misused
      BY <1>1, <2>1
    <3> QED
      BY <2>1, <3>1
  <2>2. CASE ~moved[Here]
    <3>1. \/ ~TakesValidArm /\ misused' = misused \cup {"voided arm"}
          \/ misused' = misused
      BY <1>1, <2>2
    <3> QED
      BY <2>2, <3>1
  <2> QED
    BY <2>1, <2>2
<1>6. ReadsAreGuarded'
  BY <1>1, <1>5 DEF IInv, ReadsAreGuarded
<1>7. GuardsTellTheTruth'
  <2>1. ASSUME Shadowless(prog), AllFlagged(prog), LoopsAccessAfterMove(prog), TakesValidArm
        PROVE  ~moved[Here]
    BY <1>1, <2>1, GuardIs, Knows
  <2>2. ASSUME Shadowless(prog), MovesArePromoted(prog), ~TakesValidArm
        PROVE  moved[Here]
    BY <1>1, <2>2, GuardIs
  <2>3. GuardsTellTheTruth
    BY DEF IInv
  <2> QED
    BY <1>1, <1>5, <2>1, <2>2, <2>3 DEF GuardsTellTheTruth
<1> QED
  BY <1>4, <1>6, <1>7 DEF IInv

LEMMA ArmsEnd ==
  ASSUME IInv, RunEnd
  PROVE  IInv'
<1> DEFINE i == OpenerOf(prog, pc)
<1>1. /\ phase = "run" /\ pc \in DOMAIN prog
      /\ \/ prog[pc].op \in {"else", "voided"} /\ pc' = EndOf(prog, i) + 1
         \/ prog[pc].op = "end" /\ pc' = IF prog[i].op \in {"while", "for"} THEN i ELSE pc + 1
      /\ UNCHANGED <<prog, phase, checker, moved, flag, trips, misused>>
  BY DEF RunEnd, Running, Goto, runtime
<1>2. RunTypes /\ WellFormed(prog)
  BY <1>1, RunFacts DEF IInv, RunInv
<1>3. Jump(prog, pc, pc')
  <2>1. CASE prog[pc].op \in {"else", "voided"}
    BY <1>1, <2>1 DEF Jump, Arms
  <2>2. CASE prog[pc].op = "end"
    <3>1. pc \in Ends(prog)
      BY <1>1, <2>2 DEF Ends
    <3>2. prog[i].op \in {"if", "while", "for", "switch"}
      BY <1>2, <3>1, Shape, EndCloses DEF Openers
    <3> QED
      BY <1>1, <2>2, <3>1, <3>2 DEF Jump
  <2> QED
    BY <1>1, <2>1, <2>2
<1>4. CheckInv' /\ RunInv'
  BY <1>1, <1>2, <1>3, RunsAcross DEF RunTypes
<1> QED
  BY <1>1, <1>4, NoMisuse DEF IInv

LEMMA Returns ==
  ASSUME IInv, Return
  PROVE  IInv'
<1>1. /\ phase = "run" /\ phase' = "done" /\ UNCHANGED <<prog, pc, checker, runtime>>
  BY DEF Return
<1>2. CheckInv'
  BY <1>1, CheckRests DEF IInv, CheckInv, CheckTypes
<1> QED
  BY <1>1, <1>2, Idles

LEMMA Stutters ==
  ASSUME IInv, UNCHANGED vars
  PROVE  IInv'
<1>1. UNCHANGED <<prog, phase, pc, sym, frames, meta, facts, moved, flag, trips, misused>>
  BY DEF vars, checker, runtime
<1>2. CheckInv' /\ History' = History
  BY <1>1, CheckRests DEF IInv, CheckInv, CheckTypes, checker
<1>3. RunInv'
  BY <1>1, <1>2 DEF IInv, RunInv, RunTypes, FlagsTell
<1> QED
  BY <1>1, <1>2, <1>3, NoMisuse DEF IInv

LEMMA Steps == IInv /\ [Next]_vars => IInv'
<1> SUFFICES ASSUME IInv, [Next]_vars PROVE IInv'
  OBVIOUS
<1>1. CASE CheckNext
  BY <1>1, Checks
<1>2. CASE Accept
  BY <1>2, Accepts
<1>3. CASE RunDecl
  BY <1>3, Declares
<1>4. CASE RunAccess
  BY <1>4, Accesses
<1>5. CASE RunMove
  BY <1>5, MovesOut
<1>6. CASE RunBranch
  BY <1>6, Branches
<1>7. CASE RunGuard
  BY <1>7, GuardsRun
<1>8. CASE RunEnd
  BY <1>8, ArmsEnd
<1>9. CASE Return
  BY <1>9, Returns
<1>10. CASE UNCHANGED vars
  BY <1>10, Stutters
<1> QED
  BY <1>1, <1>2, <1>3, <1>4, <1>5, <1>6, <1>7, <1>8, <1>9, <1>10 DEF Next, CheckNext, Stopped

-----------------------------------------------------------------------------
(***************************************************************************)
(* The theorems.                                                           *)
(***************************************************************************)
LEMMA TypesFollow == IInv => TypeOK
<1> SUFFICES ASSUME IInv PROVE TypeOK
  OBVIOUS
<1>1. CheckInv /\ CheckTypes /\ RunTypes
  BY DEF IInv, CheckInv, RunInv
<1>2. \A t \in DOMAIN flag : flag[t] \in BOOLEAN
  BY <1>1 DEF RunTypes
<1>3. ASSUME phase \in {"run", "done"}, NEW i \in Guards(prog)
      PROVE  meta[i] \in {"valid", "voided", "unknown"}
  <2>1. Frontier = Len(prog) + 1 /\ Len(prog) \in Nat /\ DOMAIN prog = 1 .. Len(prog)
    BY <1>1, <1>3, CheckFacts DEF Frontier
  <2>2. i \in 1 .. Frontier - 1 /\ prog[i].op = "switch"
    BY <2>1 DEF Guards
  <2>3. meta[i] = Annotation(History[i][VarAt(prog, i)])
    BY <1>1, <2>2 DEF CheckInv, Recorded, RecordedStep
  <2> QED
    BY <2>3 DEF Annotation
<1> QED
  BY <1>1, <1>2, <1>3 DEF TypeOK, CheckTypes, RunTypes

\* A move that the pass has not settled is one of a loop around.
LEMMA UnsettledIsAround ==
  ASSUME NEW p, WellFormed(p), NEW v, NEW s, Unsettled(p, v, s)
  PROVE  v \in MovedAround(p, s)
<1>1. PICK k \in Moves(p), i \in Openers(p) : UnsettledBy(p, v, k, i, s)
  BY DEF Unsettled
<1>2. VarAt(p, k) = v /\ i \in LoopsAround(p, k) /\ i <= s /\ s <= EndOf(p, i)
  BY <1>1 DEF UnsettledBy
<1> QED
  BY <1>2 DEF MovedAround

LEMMA FactsFollow == IInv => FactsAreTrue
<1> SUFFICES ASSUME IInv, phase = "run", pc \in DOMAIN prog, Shadowless(prog)
             PROVE  /\ AllFlagged(prog) =>
                         \A v \in Stack(pc) \ MovedAround(prog, pc) :
                           facts[pc][v] = Valid => ~moved[v]
                    /\ MovesArePromoted(prog) =>
                         \A v \in Stack(pc) : facts[pc][v].voided => moved[v]
  BY DEF FactsAreTrue, ValidIsUnmoved, VoidedIsMoved
<1>1. /\ CheckInv /\ RunInv /\ WellFormed(prog) /\ Len(prog) \in Nat
      /\ pc \in 1 .. Len(prog) /\ pc \in 1 .. Len(prog) + 1
      /\ Stack(pc) = InScope(prog, pc)
  <2>1. CheckInv /\ RunInv
    BY DEF IInv
  <2>2. pc \in 1 .. Len(prog) /\ Len(prog) \in Nat
    BY <2>1, CheckFacts
  <2> QED
    BY <2>1, <2>2, CheckFacts
<1>2. History[pc] = facts[pc]
  <2>1. Frontier = Len(prog) + 1
    BY DEF Frontier
  <2>2. pc < Frontier
    BY <1>1, <2>1
  <2> QED
    BY <1>1, <2>2 DEF History
<1>3. ASSUME AllFlagged(prog), NEW v \in Stack(pc) \ MovedAround(prog, pc), facts[pc][v] = Valid
      PROVE  ~moved[v]
  <2>1. UnmovedAt(prog, History, moved, pc)
    BY <1>1, <1>3 DEF RunInv, UnmovedOn
  <2>2. ~Unsettled(prog, v, pc)
    BY <1>1, <1>3, UnsettledIsAround
  <2> QED
    BY <1>1, <1>2, <1>3, <2>1, <2>2 DEF UnmovedAt
<1>4. ASSUME MovesArePromoted(prog), NEW v \in Stack(pc), facts[pc][v].voided
      PROVE  moved[v]
  <2>1. MovedAt(prog, History, moved, pc)
    BY <1>1, <1>4 DEF RunInv, MovedOn
  <2> QED
    BY <1>1, <1>2, <1>4, <2>1 DEF MovedAt
<1> QED
  BY <1>3, <1>4

\* Of every function, at every statement of its check and of its run, the
\* invariant that the others follow from.
THEOREM Invariance == Spec => []IInv
BY Starts, Steps, PTL DEF Spec

\* The states of the symbols, of the flags and of the run keep their shapes;
\* no snapshot of check_if, check_while or check_for is left when a function
\* has been checked, and then every guard is annotated.
THEOREM TypeCorrect == Spec => []TypeOK
BY Invariance, TypesFollow, PTL

\* What the single pass of checker.hh writes down of a variable is true of
\* every run of the function: valid, and no loop around moves it, means that
\* its value is there, and voided means that it was moved.
THEOREM FactsHold == Spec => []FactsAreTrue
BY Invariance, FactsFollow, PTL

\* A function that the checker accepts never reads a moved value, if no name
\* is declared twice in a scope stack, every variable has a validity flag and
\* loops access what they move only after the move.
THEOREM ReadsHold == Spec => []ReadsAreGuarded
<1>1. IInv => ReadsAreGuarded
  BY DEF IInv
<1> QED
  BY <1>1, Invariance, PTL

\* The arm that an emitted guard takes is the one its variable's value calls
\* for: by the static annotation, or by the flag where that is unknown.
THEOREM GuardsHold == Spec => []GuardsTellTheTruth
<1>1. IInv => GuardsTellTheTruth
  BY DEF IInv
<1> QED
  BY <1>1, Invariance, PTL
=============================================================================
