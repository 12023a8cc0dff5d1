--------------------------- MODULE MCModuleLoader ---------------------------
(***************************************************************************)
(* Directories for ModuleLoader: the main file is fine, the others are in  *)
(* any condition, and together they have at most MostImports imports.      *)
(***************************************************************************)
EXTENDS ModuleLoader, FiniteSetsExt

CONSTANTS
  Hows,         \* The spellings used.
  MostImports   \* The most imports that the files have together.

ImportLists == UNION {[1 .. n -> [file : Files, how : Hows]] : n \in 0 .. 2}

\* A file that is not fine has no imports to speak of.
Contents ==
  [condition : {"fine"}, imports : ImportLists] \cup
  [condition : Conditions \ {"fine"}, imports : {<< >>}]

ImportCount(d) == MapThenSumSet(LAMBDA f : Len(d[f].imports), Files)

MCDirectories ==
  {d \in [Files -> Contents] : d[Main].condition = "fine" /\ ImportCount(d) <= MostImports}
=============================================================================
