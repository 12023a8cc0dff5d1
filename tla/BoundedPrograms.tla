-------------------------- MODULE BoundedPrograms --------------------------
(***************************************************************************)
(* The function bodies that model checking runs: a declaration of heads,   *)
(* then every sequence of up to max statements drawn from ops that the     *)
(* parser accepts, then the closing braces that it needs.                  *)
(***************************************************************************)
EXTENDS Integers, Sequences, Blocks

Statement(op) == [op |-> op, x |-> "x", managed |-> FALSE]

Closed(p) == p \o [i \in 1 .. Depth(p, Len(p) + 1) |-> Statement("end")]

\* The innermost open block at the last statement of p, "body" if none.
Enclosing(p) == LET sc == ScopeOf(p, Len(p)) IN IF sc = 0 THEN "body" ELSE p[sc].op

\* Blocks balance, an arm belongs to its kind of block, a name is declared
\* once per scope, break and continue are in a loop.
LastIsAccepted(p) ==
  LET n == Len(p) IN
  CASE p[n].op = "end" -> Depth(p, n) > 0
    [] p[n].op = "else" -> Enclosing(p) = "if"
    [] p[n].op = "voided" -> Enclosing(p) = "switch"
    [] p[n].op = "decl" ->
         /\ Enclosing(p) \notin {"switch", "voided"}
         /\ \A t \in Visible(p, n, p[n].x) : ScopeOf(p, t) # ScopeOf(p, n)
    [] p[n].op \in {"break", "continue"} -> LoopsAround(Closed(p), n) # {}
    [] OTHER -> TRUE

\* The prefixes of up to n statements.  (No UNION over their lengths: TLC
\* would search it for each element.)
BoundedPrograms(heads, ops, max) ==
  LET Extended(q, op) == IF op = "none" THEN q ELSE Append(q, Statement(op))
      Prefixes[n \in 0 .. max] ==
        IF n = 0 THEN {<<h>> : h \in heads}
        ELSE {p \in {Extended(q, op) : q \in Prefixes[n - 1], op \in ops \cup {"none"}} :
                LastIsAccepted(p)}
  IN  {Closed(p) : p \in Prefixes[max]}
=============================================================================
