--------------------------- MODULE MCVoidedCheck ---------------------------
(***************************************************************************)
(* VoidedCheck on bounded programs with one variable name, whose type is a *)
(* container (managed) or not.                                             *)
(***************************************************************************)
EXTENDS VoidedCheck, BoundedPrograms

HeadOf(managed) == [Statement("decl") EXCEPT !.managed = managed]

AllPrograms ==
  \* Branches and guards, in loops.
  BoundedPrograms({HeadOf(FALSE)}, {"move", "if", "else", "switch", "voided", "while", "end"}, 6)
  \cup
  \* Declarations, accesses and both kinds of loop.
  BoundedPrograms({HeadOf(FALSE), HeadOf(TRUE)},
                  {"decl", "use", "assign", "move", "if", "while", "for", "switch", "end"}, 4)

\* Declarations, accesses, loops and guards, on any kind of variable; and
\* variables of one name in nested blocks.
UsePrograms ==
  BoundedPrograms({HeadOf(FALSE), HeadOf(TRUE)}, {"decl", "use", "move", "if", "while", "switch", "end"}, 5)
  \cup BoundedPrograms({HeadOf(FALSE)}, {"decl", "use", "move", "if", "end"}, 7)
=============================================================================
