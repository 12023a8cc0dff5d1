--------------------------- MODULE MCScopeArenas ---------------------------
(***************************************************************************)
(* ScopeArenas on bounded programs with one array name.                    *)
(***************************************************************************)
EXTENDS ScopeArenas, BoundedPrograms, TLC

Heads == {Statement("decl")}

AllPrograms ==
  \* Structured programs.
  BoundedPrograms(Heads, {"decl", "append", "list", "reset", "if", "while", "end"}, 5)
  \cup
  \* Jumps, and containers with a buffer.
  BoundedPrograms(Heads, {"append", "list", "vector", "if", "while", "end",
                          "break", "continue", "tunnel"}, 4)

\* Arrays of one name, and resets.
ConditionalPrograms == BoundedPrograms(Heads, {"decl", "append", "list", "reset", "if", "end"}, 6)

Symmetry == Permutations(Addr)
=============================================================================
