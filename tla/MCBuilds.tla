------------------------------ MODULE MCBuilds ------------------------------
(***************************************************************************)
(* Two builds; a cross target whose last compiler is the host's cc         *)
(* (main.cpp:235), frt.c in two of the searched directories.               *)
(***************************************************************************)
EXTENDS Builds, TLC

CONSTANTS b1, b2

Exe(level, target, out) ==
  [mode |-> "exe", level |-> level, target |-> target, noFrt |-> FALSE, out |-> out]
Debug == Exe("O0", "native", "a")
Cross == Exe("O0", "cross", "a")

\* Two levels of one program, two programs, an executable and another mode,
\* two cross builds, one with and one without a runtime.
MCPlans ==
  {b1 :> Debug @@ b2 :> o :
     o \in {Exe("O2", "native", "a"), Exe("O2", "native", "b"),
           [Debug EXCEPT !.mode = "check"], [Debug EXCEPT !.mode = "object", !.out = "a.o"],
           [Debug EXCEPT !.noFrt = TRUE], Exe("O0", "wasm", "b")}} \cup
  {b1 :> Cross @@ b2 :> Exe("O0", "cross", "b")}

MCCompilers ==
  [native |-> <<"native", "native">>, cross |-> <<"cross", "native">>, wasm |-> <<>>]

MCPrebuilt == {"wasm"}
=============================================================================
