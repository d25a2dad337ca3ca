------------------------------ MODULE TreePool ------------------------------
(***************************************************************************)
(* The buddy allocator of src/tree-pool.c.  Memory is mapped in pools      *)
(* ("trees") of several chunks of 2^Depth pages; a chunk is a binary tree  *)
(* whose nodes are blocks.  The flags of all nodes of a pool lie in its    *)
(* first page; the links of the free lists lie in the free blocks          *)
(* themselves, so they are modelled as headers at page addresses: a header *)
(* exists only while its block is free, and what a client may have written *)
(* over it afterwards is NoHeader.                                         *)
(*                                                                         *)
(* A blockID (itree << 13 | inode) is a pair <<itree, inode>>.             *)
(***************************************************************************)
EXTENDS Integers, FiniteSets

CONSTANTS
  Depth,        \* HMESH_TREE_POOL_DEPTH: level of the single pages
  MaxTrees,     \* 8: the trees a blockID can number
  ChunkCounts   \* psize / rsize for the sizes mmap () may grant (2 .. 256 chunks)

ASSUME TreePoolAssumption ==
  /\ Depth \in Nat \ {0} /\ MaxTrees \in Nat \ {0}
  /\ ChunkCounts \subseteq Nat \ {0, 1}         \* limit = 2 * rsize
  /\ \E c \in ChunkCounts : \A d \in ChunkCounts : d <= c      \* the size tried first

VARIABLES
  chunks,       \* chunks[t]: size of tree t in chunks; 0 when t >= ntrees
  flags,        \* flags[t][n]: flag byte of node n
  head,         \* free_list[level]: address of the first free block
  hdr,          \* hdr[a]: the FreeTBlock at page address a
  call          \* the last call that returned

vars == <<chunks, flags, head, hdr, call>>

Levels    == 0 .. Depth
Trees     == 0 .. MaxTrees - 1
MaxChunks == CHOOSE c \in ChunkCounts : \A d \in ChunkCounts : d <= c
Slots     == 2 ^ (Depth + 1)                    \* maxnodes: node slots of a chunk
Nodes     == 0 .. MaxChunks * Slots - 1
Addresses == Trees \X (0 .. MaxChunks * 2 ^ Depth - 1)

NULL     == <<>>
NoBlock  == <<>>                                \* UINT16_MAX
NoHeader == [prev |-> NULL, next |-> NULL, blockID |-> NoBlock]

ntrees == Cardinality({t \in Trees : chunks[t] > 0})

(***************************************************************************)
(* Node arithmetic.  A node number is chunk * Slots + local; the local     *)
(* numbers of a chunk form a heap: root 0, children of i at 2i+1 and 2i+2. *)
(***************************************************************************)
Local(n) == n % Slots
Base(n)  == n - Local(n)

Ancestor(n, k)   == Base(n) + (Local(n) + 1) \div 2 ^ k - 1     \* parent, k times
Descendant(n, k) == Base(n) + (Local(n) + 1) * 2 ^ k - 1        \* left child, k times
Sibling(n)       == IF n % 2 = 1 THEN n + 1 ELSE n - 1

Level(n) == CHOOSE l \in Levels : 2 ^ l <= Local(n) + 1 /\ Local(n) + 1 < 2 ^ (l + 1)

\* hmesh_tpool_address_is (): first page of node n of tree t, taken at depth
Address(b, depth) ==
  LET n == b[2]
  IN  <<b[1], (n \div Slots) * 2 ^ Depth + (Local(n) - 2 ^ depth + 1) * 2 ^ (Depth - depth)>>

(***************************************************************************)
(* Flags: the low bits hold the depth, 128 says free, 64 not a leaf.       *)
(***************************************************************************)
Flag(depth, free, inner) == [depth |-> depth, free |-> free, inner |-> inner]
InUseAtRoot(depth) == Flag(0, FALSE, FALSE)             \* mutant: the depth is not kept
InUseFlag(depth) == Flag(depth, FALSE, FALSE)
ZeroFlag         == InUseFlag(0)                \* mmap () returns zeroed pages

(***************************************************************************)
(* The free lists of all levels as one value, heap = [flags, head, hdr].   *)
(* Each level has its own list, so pushing or popping one block at each of *)
(* several levels commutes.                                                *)
(***************************************************************************)
Heap == [flags |-> flags, head |-> head, hdr |-> hdr]

\* mutant: the block after the one unlinked keeps its prev
PopKeepsPrev(h, gone) ==
  LET After(a) == \E l \in DOMAIN gone : h.hdr[gone[l]].prev = a
      Next(a) == h.hdr[gone[CHOOSE l \in DOMAIN gone : h.hdr[gone[l]].prev = a]].next
  IN  [h EXCEPT !.hdr = [a \in Addresses |->
                  IF \E l \in DOMAIN gone : a = gone[l] THEN NoHeader
                  ELSE [h.hdr[a] EXCEPT !.next = IF After(a) THEN Next(a) ELSE @]],
                !.head = [l \in Levels |->
                  IF l \in DOMAIN gone /\ h.hdr[gone[l]].prev = NULL
                  THEN h.hdr[gone[l]].next ELSE h.head[l]]]

\* unlink the free blocks at addresses gone[l], one for each level l of DOMAIN gone
PopEach(h, gone) ==
  LET After(a) == \E l \in DOMAIN gone : h.hdr[gone[l]].prev = a
      Before(a) == \E l \in DOMAIN gone : h.hdr[gone[l]].next = a
      Next(a) == h.hdr[gone[CHOOSE l \in DOMAIN gone : h.hdr[gone[l]].prev = a]].next
      Prev(a) == h.hdr[gone[CHOOSE l \in DOMAIN gone : h.hdr[gone[l]].next = a]].prev
      unlinked == [a \in Addresses |->
        IF \E l \in DOMAIN gone : a = gone[l] THEN NoHeader
        ELSE [h.hdr[a] EXCEPT !.next = IF After(a) THEN Next(a) ELSE @,
                              !.prev = IF Before(a) THEN Prev(a) ELSE @]]
  IN  [h EXCEPT !.hdr = unlinked,
                !.head = [l \in Levels |->
                  IF l \in DOMAIN gone /\ h.hdr[gone[l]].prev = NULL
                  THEN h.hdr[gone[l]].next ELSE h.head[l]]]

\* mutant: the former head of a list does not learn of its new predecessor
PushOneWay(h, new) ==
  LET At(l) == Address(new[l], l)
  IN  [h EXCEPT !.hdr = [a \in Addresses |->
                  IF \E l \in DOMAIN new : a = At(l)
                  THEN LET l == CHOOSE l \in DOMAIN new : a = At(l)
                       IN  [prev |-> NULL, next |-> h.head[l], blockID |-> new[l]]
                  ELSE h.hdr[a]],
                !.head = [l \in Levels |-> IF l \in DOMAIN new THEN At(l) ELSE h.head[l]]]

\* push the free blocks new[l], one for each level l of DOMAIN new
PushEach(h, new) ==
  LET At(l) == Address(new[l], l)
      linked == [a \in Addresses |->
        IF \E l \in DOMAIN new : a = At(l)
        THEN LET l == CHOOSE l \in DOMAIN new : a = At(l)
             IN  [prev |-> NULL, next |-> h.head[l], blockID |-> new[l]]
        ELSE IF \E l \in DOMAIN new : a = h.head[l]
        THEN [h.hdr[a] EXCEPT !.prev = At(CHOOSE l \in DOMAIN new : a = h.head[l])]
        ELSE h.hdr[a]]
  IN  [h EXCEPT !.hdr = linked,
                !.head = [l \in Levels |-> IF l \in DOMAIN new THEN At(l) ELSE h.head[l]]]

\* hmesh_tpool_divide () once its block has left the list: block b of the given
\* level is split down to depth, each right half becoming a free block.
Split(h, b, level, depth) ==
  LET Left(l)  == Descendant(b[2], l - level)
      rights   == [l \in level + 1 .. depth |-> <<b[1], Left(l) + 1>>]
      newFlags == [n \in Nodes |->
        IF n = Left(depth) THEN InUseFlag(depth)
        ELSE IF \E l \in level .. depth - 1 : n = Left(l)
        THEN Flag(level + (CHOOSE k \in 0 .. Depth : n = Left(level + k)), FALSE, TRUE)
        ELSE IF \E l \in DOMAIN rights : n = Left(l) + 1
        THEN Flag(CHOOSE l \in DOMAIN rights : n = Left(l) + 1, TRUE, FALSE)
        ELSE h.flags[b[1]][n]]
  IN  [heap  |-> PushEach([h EXCEPT !.flags[b[1]] = newFlags], rights),
       block |-> <<b[1], Left(depth)>>]

Divide(h, a, level, depth) ==
  Split(PopEach(h, [l \in {level} |-> a]), h.hdr[a].blockID, level, depth)

\* the level hmesh_tpool_allocate () takes a block from: the deepest one at or
\* above depth whose list is not empty
CandidatesAtEnds(h, depth) == {l \in {0, depth} : h.head[l] # NULL}     \* mutant
Candidates(h, depth) == {l \in 0 .. depth : h.head[l] # NULL}
BestLevel(h, depth) ==
  CHOOSE l \in Candidates(h, depth) : \A m \in Candidates(h, depth) : m <= l

\* hmesh_tpool_add () of a pool of c chunks as tree t: roots 1 .. c-1 are pushed
\* on list 0 from the last to the first, then root 0, through a header outside
\* the pool, and that one is divided down to the page of flags at once.
UndevelopedRoot(n) == Flag(Level(n), FALSE, TRUE)       \* mutant: roots not marked free
Undeveloped(n) == Flag(Level(n), Level(n) = 0, Level(n) > 0)

AddTree(h, t, c) ==
  LET fresh == [n \in Nodes |-> IF n < c * Slots /\ Local(n) # Slots - 1
                                  THEN Undeveloped(n) ELSE ZeroFlag]
      Root(j) == <<t, j * 2 ^ Depth>>           \* address of chunk j
      roots == [a \in Addresses |->
        IF \E j \in 1 .. c - 1 : a = Root(j)
        THEN LET j == CHOOSE j \in 1 .. c - 1 : a = Root(j)
             IN  [prev |-> IF j = 1 THEN NULL ELSE Root(j - 1),
                  next |-> IF j = c - 1 THEN h.head[0] ELSE Root(j + 1),
                  blockID |-> <<t, j * Slots>>]
        ELSE IF a = h.head[0] THEN [h.hdr[a] EXCEPT !.prev = Root(c - 1)]
        ELSE h.hdr[a]]
  IN  Split([flags |-> [h.flags EXCEPT ![t] = fresh],
             head  |-> [h.head EXCEPT ![0] = Root(1)],
             hdr   |-> roots], <<t, 0>>, 0, Depth).heap

\* hmesh_tpool_deallocate () of block b: as long as the sibling is free the two
\* merge, k levels up; the block reached is pushed on the list of its level.
Free(h, t, n) == h.flags[t][n].free

ClimbOnce(h, b, depth) ==       \* mutant: merges with one buddy at most
  IF depth > 0 /\ Free(h, b[1], Sibling(b[2])) THEN 1 ELSE 0

Climb(h, b, depth) ==
  CHOOSE k \in 0 .. depth :
    /\ \A i \in 0 .. k - 1 : Free(h, b[1], Sibling(Ancestor(b[2], i)))
    /\ k < depth => ~Free(h, b[1], Sibling(Ancestor(b[2], k)))

Coalesce(h, b) ==
  LET depth   == h.flags[b[1]][b[2]].depth
      k       == Climb(h, b, depth)
      top     == Ancestor(b[2], k)
      Node(i) == Ancestor(b[2], i)
      gone    == [l \in depth - k + 1 .. depth |->
                    Address(<<b[1], Sibling(Node(depth - l))>>, l)]
      newFlags == [n \in Nodes |->
        IF n = top THEN [h.flags[b[1]][n] EXCEPT !.free = TRUE]
        ELSE IF \E i \in 0 .. k - 1 : n \in {Node(i), Sibling(Node(i))}
        THEN Flag(depth - (CHOOSE i \in 0 .. k - 1 : n \in {Node(i), Sibling(Node(i))}),
                  FALSE, TRUE)
        ELSE h.flags[b[1]][n]]
  IN  PushEach([PopEach(h, gone) EXCEPT !.flags[b[1]] = newFlags],
               [l \in {depth - k} |-> <<b[1], top>>])

(***************************************************************************)
(* The operations.                                                         *)
(***************************************************************************)
Returns(op, arg, ret) == call' = [op |-> op, arg |-> arg, ret |-> ret]

HeapBecomes(h) == flags' = h.flags /\ head' = h.head /\ hdr' = h.hdr

Init == /\ chunks = [t \in Trees |-> 0]
        /\ flags = [t \in Trees |-> [n \in Nodes |-> ZeroFlag]]
        /\ head = [l \in Levels |-> NULL]
        /\ hdr = [a \in Addresses |-> NoHeader]
        /\ call = [op |-> "none", arg |-> 0, ret |-> NoBlock]

\* hmesh_tpool_allocate_general () shifts obj_size down to its lowest set bit;
\* a second set bit, zero, or a power above 2^Depth is an error.
LowestBit(size) == CHOOSE k \in 0 .. size : size % 2 ^ k = 0 /\ size % 2 ^ (k + 1) # 0
ValidSize(size) == /\ size > 0 /\ size \div 2 ^ LowestBit(size) = 1
                   /\ LowestBit(size) <= Depth
RequestDepth(size) == Depth - LowestBit(size)

TakeFrom(h, size) ==
  LET depth == RequestDepth(size)
      level == BestLevel(h, depth)
      taken == Divide(h, h.head[level], level, depth)
  IN  HeapBecomes(taken.heap) /\ Returns("allocate", size, taken.block)

AllocateFree(size) ==
  /\ ValidSize(size)
  /\ Candidates(Heap, RequestDepth(size)) # {}
  /\ TakeFrom(Heap, size)
  /\ UNCHANGED chunks

\* mmap () is tried with 8 MB, then half of it, ... : any size may be the first
\* to succeed
AllocateFromNewTree(size) ==
  /\ ValidSize(size)
  /\ Candidates(Heap, RequestDepth(size)) = {} /\ ntrees < MaxTrees
  /\ \E c \in ChunkCounts :
       /\ chunks' = [chunks EXCEPT ![ntrees] = c]
       /\ TakeFrom(AddTree(Heap, ntrees, c), size)

\* all trees a blockID can number exist, or mmap () fails for every size
AllocateFails(size) ==
  /\ ValidSize(size) => Candidates(Heap, RequestDepth(size)) = {}
  /\ Returns("allocate", size, NoBlock)
  /\ UNCHANGED <<chunks, flags, head, hdr>>

\* in bounds, and in use
Deallocatable(b) == /\ b # NoBlock
                    /\ b[2] < chunks[b[1]] * Slots
                    /\ ~flags[b[1]][b[2]].free /\ ~flags[b[1]][b[2]].inner

Deallocate(b) ==
  /\ Deallocatable(b)
  /\ HeapBecomes(Coalesce(Heap, b))
  /\ Returns("deallocate", b, 0)
  /\ UNCHANGED chunks

DeallocateRejected(b) ==
  /\ ~Deallocatable(b)
  /\ Returns("deallocate", b, 1)
  /\ UNCHANGED <<chunks, flags, head, hdr>>

\* A client passes a blockID it was given once, however long ago.  It was never
\* given the page of flags, nor the unused slot of a chunk.
FlagsNode == 2 ^ Depth - 1
Handles   == {b \in Trees \X Nodes : /\ b[2] < chunks[b[1]] * Slots
                                     /\ b[2] # FlagsNode /\ Local(b[2]) # Slots - 1}

Next ==
  \/ \E size \in 0 .. 2 ^ Depth + 1 :
       AllocateFree(size) \/ AllocateFromNewTree(size) \/ AllocateFails(size)
  \/ \E b \in Handles \cup {NoBlock} : Deallocate(b) \/ DeallocateRejected(b)

Spec == Init /\ [][Next]_vars
-----------------------------------------------------------------------------
(***************************************************************************)
(* Properties                                                              *)
(***************************************************************************)
Blocks == {b \in Trees \X Nodes : b[2] < chunks[b[1]] * Slots /\ Local(b[2]) # Slots - 1}

FlagOf(b)     == flags[b[1]][b[2]]
FreeBlocks    == {b \in Blocks : FlagOf(b).free}
OwnedBlocks   == {b \in Blocks : /\ ~FlagOf(b).free /\ ~FlagOf(b).inner
                                 /\ b[2] # FlagsNode}
PagesOf(b)    == LET l == FlagOf(b).depth
                     first == Address(b, l)[2]
                 IN  {b[1]} \X (first .. first + 2 ^ (Depth - l) - 1)

TypeOK ==
  /\ chunks \in [Trees -> ChunkCounts \cup {0}]
  /\ flags \in [Trees -> [Nodes -> [depth : Levels, free : BOOLEAN, inner : BOOLEAN]]]
  /\ head \in [Levels -> Addresses \cup {NULL}]
  /\ \A a \in Addresses : /\ hdr[a].prev \in Addresses \cup {NULL}
                          /\ hdr[a].next \in Addresses \cup {NULL}
                          /\ hdr[a].blockID \in (Trees \X Nodes) \cup {NoBlock}

\* The types hold, and the free list of each level is a proper doubly linked list
\* that holds exactly the blocks flagged free at that level, each through the header
\* in its own first page: no link leads into memory a client owns, and no free block
\* hides in a ring that the head of its list does not reach.
FreeListsSound ==
  /\ TypeOK
  /\ \A l \in Levels :
       LET at == {Address(b, l) : b \in {f \in FreeBlocks : FlagOf(f).depth = l}}
       IN  /\ head[l] = NULL <=> at = {}
           /\ head[l] # NULL => head[l] \in at /\ hdr[head[l]].prev = NULL
           /\ \A a \in at :
                /\ hdr[a].blockID \in FreeBlocks
                /\ Address(hdr[a].blockID, l) = a /\ FlagOf(hdr[a].blockID).depth = l
                /\ hdr[a].next # NULL => hdr[a].next \in at /\ hdr[hdr[a].next].prev = a
                /\ hdr[a].prev # NULL => hdr[a].prev \in at /\ hdr[hdr[a].prev].next = a
                /\ hdr[a].prev = NULL => head[l] = a
           /\ \A ring \in SUBSET at : ring # {} => \E a \in ring : hdr[a].prev \notin ring

\* Every page of every pool belongs to exactly one of: the page of flags, a free
\* block, a block some client owns.
PagesPartitioned ==
  LET all == FreeBlocks \cup OwnedBlocks \cup {<<t, FlagsNode>> : t \in 0 .. ntrees - 1}
  IN  \A t \in 0 .. ntrees - 1 : \A p \in 0 .. chunks[t] * 2 ^ Depth - 1 :
        Cardinality({b \in all : <<t, p>> \in PagesOf(b)}) = 1

\* Two sibling blocks are never both free: what can coalesce has.
Coalesced ==
  \A b \in FreeBlocks : FlagOf(b).depth > 0 => <<b[1], Sibling(b[2])>> \notin FreeBlocks

\* A page pool: no two clients share a page, a request fails only when no aligned
\* range of its size is free, and stale handles are refused.
ExtentOf(b) ==
  IF b = NoBlock THEN [tree |-> -1, first |-> 0, size |-> 0]
  ELSE [tree |-> b[1], first |-> Address(b, Level(b[2]))[2], size |-> 2 ^ (Depth - Level(b[2]))]

Pages == INSTANCE PagePool WITH
           owned <- {ExtentOf(b) : b \in OwnedBlocks},
           call  <- [op  |-> call.op,
                     arg |-> IF call.op = "deallocate" THEN ExtentOf(call.arg) ELSE call.arg,
                     ret |-> IF call.op = "deallocate" THEN call.ret ELSE ExtentOf(call.ret)]

ImplementsPagePool == Pages!Spec
=============================================================================
