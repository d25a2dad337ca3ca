------------------------------ MODULE PagePool ------------------------------
(***************************************************************************)
(* What the tree pool promises its clients, without trees, flags or free   *)
(* lists.  It hands out aligned extents of 2^k pages that overlap nothing  *)
(* already handed out and never the page each mapping keeps for itself; it *)
(* maps more memory only when no aligned extent of that size is free in    *)
(* what it has, and refuses only then; it takes back exactly the extents   *)
(* that are out.                                                           *)
(***************************************************************************)
EXTENDS Integers

CONSTANTS
  Depth,        \* the largest request is for 2^Depth pages
  MaxTrees,     \* how many times memory may be mapped
  ChunkCounts   \* how many chunks of 2^Depth pages one mapping may have

VARIABLES
  chunks,       \* chunks of each mapping, 0 while it is not mapped
  owned,        \* the extents handed out
  call          \* the last call that returned

vars == <<chunks, owned, call>>

Trees == 0 .. MaxTrees - 1
None  == [tree |-> -1, first |-> 0, size |-> 0]        \* a failed request

Sizes         == {2 ^ k : k \in 0 .. Depth}
Pages(e)      == e.first .. e.first + e.size - 1
Overlap(e, f) == e.tree = f.tree /\ Pages(e) \cap Pages(f) # {}

\* the aligned extents of a size that are free in mappings of ch chunks
Available(ch, size) ==
  LET out == owned
  IN  {e \in UNION {[tree : {t}, first : {k * size : k \in 1 .. (ch[t] * 2 ^ Depth) \div size - 1},
                     size : {size}] : t \in Trees} :
         \A f \in out : ~Overlap(e, f)}

Mapped == {t \in Trees : chunks[t] > 0}

Returns(op, arg, ret) == call' = [op |-> op, arg |-> arg, ret |-> ret]

Init == /\ chunks = [t \in Trees |-> 0]
        /\ owned = {}
        /\ call = [op |-> "none", arg |-> 0, ret |-> None]

Grant(ch, size) == \E e \in Available(ch, size) : /\ Returns("allocate", size, e)
                                                  /\ owned' = owned \cup {e}

Allocate(size) == size \in Sizes /\ Grant(chunks, size) /\ UNCHANGED chunks

\* mappings are numbered in the order they are made
MapAndAllocate(size) ==
  /\ size \in Sizes /\ Available(chunks, size) = {}
  /\ \E t \in Trees \ Mapped, c \in ChunkCounts :
       /\ \A u \in Trees : u < t => u \in Mapped
       /\ chunks' = [chunks EXCEPT ![t] = c]
       /\ Grant([chunks EXCEPT ![t] = c], size)

Refuse(size) == /\ Returns("allocate", size, None)
                /\ size \in Sizes => Available(chunks, size) = {}
                /\ UNCHANGED <<chunks, owned>>

Extents == UNION {[tree : {t}, first : 0 .. chunks[t] * 2 ^ Depth - 1, size : Sizes] : t \in Trees}

Deallocate(e) == /\ Returns("deallocate", e, 0)
                 /\ e \in owned
                 /\ owned' = owned \ {e}
                 /\ UNCHANGED chunks

\* a handle that is out of date, or never was one
RefuseDeallocate(e) == /\ Returns("deallocate", e, 1)
                       /\ e \notin owned
                       /\ UNCHANGED <<chunks, owned>>

Next ==
  \/ \E size \in 0 .. 2 ^ Depth + 1 : Allocate(size) \/ MapAndAllocate(size) \/ Refuse(size)
  \/ \E e \in Extents \cup {None} : Deallocate(e) \/ RefuseDeallocate(e)

Spec == Init /\ [][Next]_vars
=============================================================================
