------------------------------- MODULE Blocks -------------------------------
(***************************************************************************)
(* The block structure of a C<< function body, shared by the modules that  *)
(* follow the compiler's passes over it.  A body p is a sequence of        *)
(* statements, records with an op and a name x.  The ops "if", "while",    *)
(* "for" and "switch" open a block; "else" and "voided" end one arm of the *)
(* block and start the other; "end" is the closing brace.  A statement is  *)
(* known by its position s in p, and a scope by the position of the        *)
(* statement that opens it; the scope of the whole body is 0.              *)
(***************************************************************************)
EXTENDS Integers, Sequences, FiniteSets

Openers(p) == {i \in DOMAIN p : p[i].op \in {"if", "while", "for", "switch"}}
Arms(p) == {i \in DOMAIN p : p[i].op \in {"else", "voided"}}
Ends(p) == {i \in DOMAIN p : p[i].op = "end"}

FirstOf(S) == CHOOSE i \in S : \A j \in S : i <= j
LastOf(S) == CHOOSE i \in S : \A j \in S : j <= i

\* How many blocks are open at statement s: the height of the scope stacks of
\* the checker and of the emitter, less that of the body.
Depth(p, s) ==
  Cardinality({i \in Openers(p) : i < s}) - Cardinality({i \in Ends(p) : i < s})

\* The parser accepts a body whose blocks are all closed, and no more.
Balanced(p) ==
  /\ Len(p) \in Nat /\ DOMAIN p = 1 .. Len(p)
  /\ \A s \in 1 .. Len(p) + 1 : Depth(p, s) >= 0
  /\ Depth(p, Len(p) + 1) = 0

NoScope == -1

\* The scope at depth d of the stack at statement s, if the stack is so high.
ScopeAtDepth(p, s, d) ==
  IF d = 0 THEN 0
  ELSE IF d > Depth(p, s) THEN NoScope
  ELSE LastOf({i \in Openers(p) : i < s /\ Depth(p, i) = d - 1} \cup
              {i \in Arms(p) : i < s /\ Depth(p, i) = d})

\* An arm or an end is still in the scope that it closes.
ScopeOf(p, s) == ScopeAtDepth(p, s, Depth(p, s))
OpenScopes(p, s) == {ScopeAtDepth(p, s, d) : d \in 0 .. Depth(p, s)}

\* The block that the arm or end at s belongs to.
OpenerOf(p, s) == LastOf({i \in Openers(p) : i < s /\ Depth(p, i) = Depth(p, s) - 1})

EndOf(p, i) == FirstOf({e \in Ends(p) : e > i /\ Depth(p, e) = Depth(p, i) + 1})

ArmsOf(p, i) ==
  {a \in Arms(p) : i < a /\ a < EndOf(p, i) /\ Depth(p, a) = Depth(p, i) + 1}

\* The loops around s.
LoopsAround(p, s) ==
  {i \in Openers(p) : p[i].op \in {"while", "for"} /\ i < s /\ s <= EndOf(p, i)}

\* The declarations of the name x before s, and those on the scope stack at s.
Decls(p, s, x) == {t \in DOMAIN p : t < s /\ p[t].op = "decl" /\ p[t].x = x}
Visible(p, s, x) == {t \in Decls(p, s, x) : ScopeOf(p, t) \in OpenScopes(p, s)}

\* lookup: the declaration that the name at s denotes.
VarAt(p, s) == LastOf(Visible(p, s, p[s].x))
=============================================================================
