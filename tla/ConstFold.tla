------------------------------ MODULE ConstFold ------------------------------
(***************************************************************************)
(* The constant condition of an `if`: the checker folds it and annotates   *)
(* the node (checker.hh:66-244, 1399-1489), and the emitter then emits one *)
(* arm alone, or the condition itself with both arms (codegen.hh:3246-3308 *)
(* and 3616-3842).  The two evaluate the same flat list of tokens, each in *)
(* its own way.                                                            *)
(***************************************************************************)
EXTENDS Integers, Sequences, FiniteSets

CONSTANTS
  Conditions,  \* The conditions: sequences of tokens without parentheses.
  Literals,    \* The numbers among the tokens.
  AsDouble,    \* What stod reads of a literal, cut to an integer.
  AsInteger,   \* What stoll reads of it, the base taken from its prefix.
  Width        \* Bits of an int32 (smaller here).

VARIABLES
  cond,  \* The condition.
  meta,  \* The annotation of the node: "unchecked", "", "always_true", "always_false".
  arm    \* The arm that runs: "none" yet, "then" or "else".

vars == <<cond, meta, arm>>

Parsed == meta = "unchecked" /\ arm = "none"
Init == cond \in Conditions /\ Parsed
-----------------------------------------------------------------------------
(***************************************************************************)
(* The checker: 64-bit values, and no precedence.                          *)
(***************************************************************************)
Unknown == [known |-> FALSE, value |-> 0]
Known(v) == [known |-> TRUE, value |-> v]
Truth(b) == Known(IF b THEN 1 ELSE 0)

\* The quotient and the remainder that C truncates towards zero.
Abs(n) == IF n < 0 THEN -n ELSE n
Quotient(l, r) == (IF l * r < 0 THEN -1 ELSE 1) * (Abs(l) \div Abs(r))
Remainder(l, r) == l - r * Quotient(l, r)

FoldToken(t) ==
  CASE t \in Literals -> Known(AsDouble[t])
    [] t = "true" -> Known(1)
    [] t = "false" -> Known(0)
    [] OTHER -> Unknown

FoldOp(l, op, r) ==
  CASE op = "+" -> Known(l + r)
    [] op = "-" -> Known(l - r)
    [] op = "*" -> Known(l * r)
    [] op = "/" -> Known(IF r = 0 THEN 0 ELSE Quotient(l, r))
    [] op = "%" -> Known(IF r = 0 THEN 0 ELSE Remainder(l, r))
    [] op = "==" -> Truth(l = r)
    [] op = "!=" -> Truth(l /= r)
    [] op = "<" -> Truth(l < r)
    [] op = ">" -> Truth(l > r)
    [] op = "<=" -> Truth(l <= r)
    [] op = ">=" -> Truth(l >= r)
    [] op = "&&" -> Truth(l /= 0 /\ r /= 0)
    [] op = "||" -> Truth(l /= 0 \/ r /= 0)
    [] OTHER -> Unknown

\* Mutant: the operands change places.
FoldPairSwapped(x, op, y) ==
  IF x.known /\ y.known THEN FoldOp(y.value, op, x.value) ELSE Unknown
FoldPair(x, op, y) == IF x.known /\ y.known THEN FoldOp(x.value, op, y.value) ELSE Unknown

FoldPrefix(op, x) ==
  CASE x.known /\ op = "!" -> Truth(x.value = 0)
    [] x.known /\ op = "-" -> Known(-x.value)
    [] OTHER -> Unknown

\* The fold from the left, which knows every operator but `%` and leaves out
\* a last token that has no operand.
FoldChain(c) ==
  LET fold[i \in 0 .. (Len(c) - 1) \div 2] ==
        IF i = 0 THEN FoldToken(c[1])
        ELSE IF c[2*i] = "%" THEN Unknown
        ELSE FoldPair(fold[i-1], c[2*i], FoldToken(c[2*i + 1]))
  IN fold[(Len(c) - 1) \div 2]

Fold(c) ==
  CASE Len(c) = 3 -> FoldPair(FoldToken(c[1]), c[2], FoldToken(c[3]))
    [] Len(c) = 2 -> FoldPrefix(c[1], FoldToken(c[2]))
    [] OTHER -> FoldChain(c)

\* check_if: the arm that the annotation leaves out is not even checked.
CheckIf ==
  /\ meta = "unchecked"
  /\ meta' = (IF ~Fold(cond).known THEN ""
              ELSE IF Fold(cond).value = 0 THEN "always_false" ELSE "always_true")
  /\ UNCHANGED <<cond, arm>>
-----------------------------------------------------------------------------
(***************************************************************************)
(* The emitter: precedence, and values of the width of their type.  An     *)
(* operand is [width, value, sound]; it is sound while no operation met    *)
(* operands of two types or left the width, and "poison" is the result of  *)
(* a division by zero.                                                     *)
(***************************************************************************)
Levels == <<{"||"}, {"&&"}, {"==", "!="}, {"<", ">", "<=", ">="}, {"+", "-"}, {"*", "/", "%"}>>
Operators == UNION {Levels[k] : k \in 1 .. 6}
Prefixes == {"-", "!"}
Operands == Literals \cup {"true", "false"}

\* An operand ends the condition or is followed by an operator, and an operator
\* or a prefix by an operand or a prefix.  (The parser takes any tokens up to
\* the parenthesis that closes the condition.)
Proper(c) ==
  /\ c \in Seq(Operands \cup Operators \cup Prefixes) /\ c # << >>
  /\ c[1] \in Operands \cup Prefixes /\ c[Len(c)] \in Operands
  /\ \A i \in 1 .. Len(c) - 1 :
       IF c[i] \in Operands THEN c[i + 1] \in Operators ELSE c[i + 1] \in Operands \cup Prefixes

LevelOf(op) == CHOOSE k \in 1 .. 6 : op \in Levels[k]

\* Where find_binary_op splits: the last operator of the loosest level,
\* never the first token; 0 when there is none.
SplitAt(c) ==
  LET at == {i \in 2 .. Len(c) : c[i] \in Operators}
      loosest == {i \in at : \A j \in at : LevelOf(c[i]) <= LevelOf(c[j])}
  IN IF at = {} THEN 0 ELSE CHOOSE i \in loosest : \A j \in loosest : j <= i

\* Two's complement.
Wrap(v, w) == LET u == v % 2^w IN IF u >= 2^(w-1) THEN u - 2^w ELSE u

Operand(w, v, s) == [width |-> w, value |-> Wrap(v, w), sound |-> s, poison |-> FALSE]
Nothing == [width |-> 0, value |-> 0, sound |-> FALSE, poison |-> FALSE]  \* nullptr
Bit(b, s) == Operand(1, IF b THEN 1 ELSE 0, s)
Nonzero(x) == x.value /= 0
IsTruth(x) == x.width = 1

EmitToken(t) ==
  IF t \in {"true", "false"} THEN Bit(t = "true", TRUE)
  ELSE Operand(Width, AsInteger[t], AsDouble[t] = Wrap(AsInteger[t], Width))

\* and, or and xor of integers go bit by bit.
OneBits(v, w) == {k \in 0 .. w-1 : (v \div 2^k) % 2 = 1}
OfBits(s, w) ==
  LET sum[k \in 0 .. w] == IF k = 0 THEN 0 ELSE sum[k - 1] + (IF k - 1 \in s THEN 2^(k-1) ELSE 0)
  IN  sum[w]

Typed(op, x, y) ==
  CASE op \in {"&&", "||"} -> IsTruth(x) /\ IsTruth(y)
    [] op \in {"==", "!="} -> x.width = y.width
    [] OTHER -> ~IsTruth(x) /\ ~IsTruth(y)

\* apply_binop: the narrower operand is sign-extended, the operation is
\* signed, and the logical operators are the bitwise ones.
EmitOp(x, op, y) ==
  LET w == IF x.width > y.width THEN x.width ELSE y.width
      l == x.value
      r == y.value
      s == x.sound /\ y.sound /\ Typed(op, x, y)
      Number(v) == Operand(w, v, s /\ v = Wrap(v, w))
  IN IF x = Nothing \/ y = Nothing THEN IF x = Nothing THEN y ELSE x
     ELSE IF x.poison \/ y.poison \/ (op \in {"/", "%"} /\ r = 0)
     THEN [Operand(w, 0, FALSE) EXCEPT !.poison = TRUE]
     ELSE CASE op = "+" -> Number(l + r)
            [] op = "-" -> Number(l - r)
            [] op = "*" -> Number(l * r)
            [] op = "/" -> Number(Quotient(l, r))
            [] op = "%" -> Number(Remainder(l, r))
            [] op = "==" -> Bit(l = r, s)
            [] op = "!=" -> Bit(l /= r, s)
            [] op = "<" -> Bit(l < r, s)
            [] op = ">" -> Bit(l > r, s)
            [] op = "<=" -> Bit(l <= r, s)
            [] op = ">=" -> Bit(l >= r, s)
            [] op = "&&" -> Operand(w, OfBits(OneBits(l, w) \cap OneBits(r, w), w), s)
            [] op = "||" -> Operand(w, OfBits(OneBits(l, w) \cup OneBits(r, w), w), s)

EmitPrefix(op, x) ==
  IF x.poison THEN x
  ELSE IF op = "-"
  THEN Operand(x.width, -x.value, x.sound /\ ~IsTruth(x) /\ -x.value = Wrap(-x.value, x.width))
  ELSE Bit(~Nonzero(x), x.sound)

\* eval_expr_children: a prefix applies to all that follows it; the operand
\* that an operator lacks (`1 * - 1` splits at the minus) is no value.
Segments(c) == {SubSeq(c, i, j) : i \in 1 .. Len(c) + 1, j \in 0 .. Len(c)}
Emit(c) ==
  LET value[d \in Segments(c)] ==
        IF d = << >> THEN Nothing
        ELSE IF Len(d) = 1 THEN EmitToken(d[1])
        ELSE IF d[1] \in Prefixes THEN EmitPrefix(d[1], value[Tail(d)])
        ELSE LET i == SplitAt(d)
             IN EmitOp(value[SubSeq(d, 1, i-1)], d[i], value[SubSeq(d, i+1, Len(d))])
  IN  value[c]

\* emit_condition compares the value with zero; a poisoned one takes any arm.
Taken(c) ==
  IF Emit(c).poison THEN {"then", "else"}
  ELSE IF Nonzero(Emit(c)) THEN {"then"} ELSE {"else"}

EmitIf ==
  /\ meta /= "unchecked" /\ arm = "none"
  /\ arm' \in CASE meta = "always_true" -> {"then"}
                [] meta = "always_false" -> {"else"}
                [] OTHER -> Taken(cond)
  /\ UNCHANGED <<cond, meta>>

Next == CheckIf \/ EmitIf
Spec == Init /\ [][Next]_vars
-----------------------------------------------------------------------------
\* No operator binds tighter than the one before it.
Falling(c) ==
  \A i, j \in 2 .. Len(c) :
    i < j /\ c[i] \in Operators /\ c[j] \in Operators => LevelOf(c[j]) <= LevelOf(c[i])

\* Folding keeps the meaning of a condition (Syntax_spec.md:575) as long as
\* it reads from left to right and every operation is one that the emitted
\* code computes exactly: the arm that runs is the one the emitted condition,
\* which a `while` of the same text evaluates, would take.
FoldsAgree == arm /= "none" /\ Falling(cond) /\ Emit(cond).sound => arm \in Taken(cond)

\* "Conditions that are compile-time constants cause the dead branch to be
\* completely omitted" (Syntax_spec.md:575): the branch left out is dead.
OmittedIsDead == arm /= "none" => arm \in Taken(cond)
=============================================================================
