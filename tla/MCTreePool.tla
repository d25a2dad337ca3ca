----------------------------- MODULE MCTreePool -----------------------------
(* A small pool in every state; a large one, and two, while few blocks are out. *)
EXTENDS TreePoolLoops

CONSTANT FewBlocks

FewOutOfMore == ntrees = 2 \/ chunks[0] > 2 => Cardinality(OwnedBlocks) <= FewBlocks

\* the last call has no influence on the next one
Heaps == <<chunks, flags, head, hdr>>
=============================================================================
