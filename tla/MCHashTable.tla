---------------------------- MODULE MCHashTable ----------------------------
(* Four keys.  The hashes of a, b and d are equal, and d is too long to be  *)
(* copied; c shares their bucket until the second doubling.                 *)
EXTENDS HashTable, TLC

CONSTANTS a, b, c, d

Names == {a, b, c, d}
Hashes == (a :> 1) @@ (b :> 1) @@ (c :> 5) @@ (d :> 1)
=============================================================================
