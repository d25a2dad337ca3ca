----------------------------- MODULE AstMemory -----------------------------
(***************************************************************************)
(* The allocator of syntax/ast/memory.c: blocks from malloc () cut from    *)
(* the top down, pools of equal nodes linked in free lists, and copies of  *)
(* strings packed into pages.  Nothing but nodes is ever given back before *)
(* ast_deallocate_all ().                                                  *)
(*                                                                         *)
(* Memory is counted in words of eight bytes, to which every size is       *)
(* rounded, and strings in words as well.  An address is <<block, word>>;  *)
(* "head" may fall below word 0 of its block, as the pointer in C may.     *)
(***************************************************************************)
EXTENDS Integers, Sequences, FiniteSets

CONSTANTS
  BlockWords,   \* _H_AST_BLOCK_SIZE_
  PageWords,    \* _AST_PAGE_SIZE_
  Requests,     \* sizes clients ask ast_allocate_general () for: at most four pages
  NodeSizes,    \* sizes they make pools of
  Strings,      \* lengths of strings, with the final NUL
  MaxBlocks,    \* bound on the blocks, for TLC
  MaxPools,     \* bound on the pools, for TLC
  MallocMayFail \* a block may come out smaller than _H_AST_BLOCK_SIZE_

ASSUME AstMemoryAssumption ==
  /\ PageWords \in Nat /\ PageWords >= 2         \* an _AstPool fits
  /\ BlockWords \in Nat /\ BlockWords >= PageWords
  /\ Requests \subseteq 1 .. 4 * PageWords        \* it exits for larger ones
  /\ NodeSizes \subseteq 1 .. PageWords           \* ast_pool () exits for others
  /\ Strings \subseteq Nat \ {0}
  /\ MallocMayFail \in BOOLEAN

VARIABLES
  blocks,       \* blocks[i]: size of the i-th block; ghost, C forgets it
  head,         \* words of the last block above which all is allocated
  str,          \* the string page: its address and what is left of it
  pools,        \* pools[j]: node size, header and free list
  given,        \* ghost: the ranges clients own; "from" is the pool of a node
  ended         \* ast_deallocate_all () was called: the end of the program

vars == <<blocks, head, str, pools, given, ended>>

Extent(at, size, from) == [at |-> at, size |-> size, from |-> from]
NoString == [at |-> <<0, 0>>, left |-> 0]

Init ==
  /\ blocks = <<>> /\ head = 0 /\ str = NoString
  /\ pools = <<>> /\ given = {} /\ ended = FALSE

(***************************************************************************)
(* ast_allocate_general (), as what it leaves in [blocks, head]; the words *)
(* it returns begin at head.  ast_memory_block () halves the size of the   *)
(* new block until malloc () grants one, down to a page.                   *)
(***************************************************************************)
Arena     == [blocks |-> blocks, head |-> head]
Address(m) == <<Len(m.blocks), m.head>>

Granted == IF MallocMayFail
           THEN {size \in PageWords .. BlockWords : \E i \in 0 .. BlockWords : size = BlockWords \div 2 ^ i}
           ELSE {BlockWords}

SufficesFewer(m, size) == m.head + 1 >= size       \* mutant

\* "available" is a size_t: once head is below its block, it is huge
Suffices(m, size) == m.head >= size \/ m.head < 0

Cut(m, size) ==
  IF m.blocks # <<>> /\ Suffices(m, size)
  THEN {[m EXCEPT !.head = @ - size]}
  ELSE {[blocks |-> Append(m.blocks, granted), head |-> granted - size] : granted \in Granted}

Becomes(m) == Len(m.blocks) <= MaxBlocks /\ blocks' = m.blocks /\ head' = m.head

AllocateGeneral(size) ==
  /\ \E m \in Cut(Arena, size) :
       /\ Becomes(m)
       /\ given' = given \cup {Extent(Address(m), size, 0)}
  /\ UNCHANGED <<str, pools>>

(***************************************************************************)
(* Pools.  A page is cut into nodes, which join the free list from the     *)
(* lowest address up, so that the highest is the first to go.              *)
(***************************************************************************)
Nodes(page, size) ==
  [i \in 1 .. PageWords \div size |-> <<page[1], page[2] + (PageWords \div size - i) * size>>]

\* an _AstPool: size and fhead
PoolWords == 2

\* ast_pool (size): the _AstPool itself, then its first page
NewPool(size) ==
  /\ \E m \in Cut(Arena, PoolWords) : \E paged \in Cut(m, PageWords) :
       /\ Becomes(paged)
       /\ pools' = Append(pools, [size |-> size, header |-> Address(m),
                                  free |-> Nodes(Address(paged), size)])
  /\ UNCHANGED <<str, given>>

\* mutant: the node stays in the list
AllocateFromStillFree(j) ==
  /\ pools[j].free # <<>>
  /\ given' = given \cup {Extent(Head(pools[j].free), pools[j].size, j)}
  /\ UNCHANGED <<blocks, head, str, pools>>

\* ast_allocate_from (pool)
AllocateFrom(j) ==
  /\ pools[j].free # <<>>
  /\ given' = given \cup {Extent(Head(pools[j].free), pools[j].size, j)}
  /\ pools' = [pools EXCEPT ![j].free = Tail(@)]
  /\ UNCHANGED <<blocks, head, str>>

AllocateFromNewPage(j) ==
  /\ pools[j].free = <<>>
  /\ \E m \in Cut(Arena, PageWords) :
       LET nodes == Nodes(Address(m), pools[j].size)
       IN  /\ Becomes(m)
           /\ given' = given \cup {Extent(Head(nodes), pools[j].size, j)}
           /\ pools' = [pools EXCEPT ![j].free = Tail(nodes)]
  /\ UNCHANGED str

\* ast_deallocate_to (pool, node), of a node that came from this pool
DeallocateTo(j, r) ==
  /\ r.from = j
  /\ given' = given \ {r}
  /\ pools' = [pools EXCEPT ![j].free = <<r.at>> \o @]
  /\ UNCHANGED <<blocks, head, str>>

(***************************************************************************)
(* ast_strdup ()                                                           *)
(***************************************************************************)
Packed(s, len) == [at |-> <<s.at[1], s.at[2] + len>>, left |-> s.left - len]

CopyOf(s, len) ==
  /\ str' = Packed(s, len)
  /\ given' = given \cup {Extent(s.at, len, 0)}

Strdup(len) ==
  /\ len <= PageWords /\ str.left >= len
  /\ CopyOf(str, len)
  /\ UNCHANGED <<blocks, head, pools>>

\* the rest of the former page is abandoned
StrdupNewPage(len) ==
  /\ len <= PageWords /\ str.left < len
  /\ \E m \in Cut(Arena, PageWords) :
       /\ Becomes(m)
       /\ CopyOf([at |-> Address(m), left |-> PageWords], len)
  /\ UNCHANGED pools

\* ast_deallocate_all (): str, nchar and the free lists still point to the blocks
\* that are gone, and "should be called at the end" keeps anybody from using them
DeallocateAll == /\ blocks # <<>>
                 /\ blocks' = <<>> /\ head' = 0 /\ given' = {} /\ ended' = TRUE
                 /\ UNCHANGED <<str, pools>>

Allocation ==
  \/ \E size \in Requests : AllocateGeneral(size)
  \/ \E size \in NodeSizes : Len(pools) < MaxPools /\ NewPool(size)
  \/ \E j \in DOMAIN pools :
       \/ AllocateFrom(j) \/ AllocateFromNewPage(j)
       \/ \E r \in given : DeallocateTo(j, r)
  \/ \E len \in Strings : Strdup(len) \/ StrdupNewPage(len)

Next == ~ended /\ ((Allocation /\ UNCHANGED ended) \/ DeallocateAll)

Spec == Init /\ [][Next]_vars
-----------------------------------------------------------------------------
(***************************************************************************)
(* Properties                                                              *)
(***************************************************************************)
Addresses == Nat \X Int
Extents   == [at : Addresses, size : Requests \cup NodeSizes \cup Strings, from : Nat]
Pools     == [size : NodeSizes, header : Addresses, free : Seq(Addresses)]

TypeOK ==
  /\ blocks \in Seq(PageWords .. BlockWords) /\ head \in Int /\ head <= BlockWords
  /\ str \in [at : Addresses, left : 0 .. PageWords]
  /\ pools \in Seq(Pools)
  /\ given \subseteq Extents
  /\ ended \in BOOLEAN

FreeNodes == UNION {{Extent(pools[j].free[p], pools[j].size, j) : p \in DOMAIN pools[j].free} :
                      j \in DOMAIN pools}
Headers   == {Extent(pools[j].header, PoolWords, 0) : j \in DOMAIN pools}
Rest      == {r \in {Extent(str.at, str.left, 0)} : r.size > 0}
Parts     == given \cup FreeNodes \cup Headers \cup Rest

First(r) == r.at[2]
Last(r)  == r.at[2] + r.size - 1

\* What clients own, the free nodes of the pools, the pools themselves and the rest
\* of the string page: each lies inside what malloc () gave, no two share a word,
\* and none reaches below head, from where the next part is cut.
PartsSound ==
  ~ended =>
    \A r \in Parts :
      /\ r.at[1] \in DOMAIN blocks /\ First(r) >= 0 /\ Last(r) < blocks[r.at[1]]
      /\ r.at[1] = Len(blocks) => First(r) >= head
      /\ \A s \in Parts : r # s /\ r.at[1] = s.at[1] => Last(r) < First(s) \/ Last(s) < First(r)

\* A node is free at most once, and never while a client has it.
NodesFreeOnce ==
  ~ended =>
    \A j \in DOMAIN pools : \A p, q \in DOMAIN pools[j].free :
      /\ pools[j].free[p] = pools[j].free[q] => p = q
      /\ \A r \in given : r.at # pools[j].free[p]

\* No request is larger than the smallest block malloc () may grant.
RequestsFit == \A granted \in Granted : \A size \in Requests : size <= granted

\* The inductive invariant, when every request fits: only nodes remember their pool,
\* and what is left of the string page is nobody's.
IInv ==
  /\ TypeOK
  /\ \A r \in given : r.from # 0 => r.from \in DOMAIN pools /\ r.size = pools[r.from].size
  /\ PartsSound /\ NodesFreeOnce
  /\ ~ended => /\ head >= 0 /\ (blocks # <<>> => head <= blocks[Len(blocks)])
               /\ Rest \cap (given \cup Headers) = {}
=============================================================================
