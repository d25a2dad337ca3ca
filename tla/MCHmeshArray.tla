---------------------------- MODULE MCHmeshArray ----------------------------
(* Arrays and blocks are model values that nothing tells apart. *)
EXTENDS HmeshArray, TLC

Interchangeable == Permutations(Arrays) \cup Permutations(Blocks)
=============================================================================
