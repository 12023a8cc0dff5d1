----------------------------- MODULE MCHashMap -----------------------------
(***************************************************************************)
(* HashMap on three keys.  k1 and k2 hash to the last slot of tables of 2, *)
(* 4 and 8 slots, so that their chain wraps to slot 0, where k3 hashes.    *)
(***************************************************************************)
EXTENDS HashMap

CONSTANTS k1, k2, k3

MCHash == [k \in Keys |-> IF k = k3 THEN 0 ELSE IF k = k1 THEN 7 ELSE 15]

\* A program that removes nothing, and ones that do, with strdup failing and not.
MCClients ==
  {[removable |-> {}, fails |-> {"calloc"}],
   [removable |-> Keys, fails |-> {"calloc"}],
   [removable |-> Keys, fails |-> {"calloc", "strdup"}]}
=============================================================================
