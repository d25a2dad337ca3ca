--------------------------- MODULE TreePoolLoops ---------------------------
(***************************************************************************)
(* The loops of src/tree-pool.c iteration by iteration.  TreePool gives    *)
(* their results in closed form; in every reachable state the two agree.   *)
(***************************************************************************)
EXTENDS TreePool

Outside == <<MaxTrees, 0>>      \* "_0b": a header in no pool

\* hmesh_tpool_pop (), hmesh_tpool_push () of the header at a
PopAt(h, a, depth) ==
  LET fb == h.hdr[a]
  IN  [h EXCEPT !.head[depth] = IF fb.prev = NULL THEN fb.next ELSE @,
                !.hdr = [x \in DOMAIN @ |->
                   IF x = a THEN NoHeader
                   ELSE IF x = fb.prev THEN [@[x] EXCEPT !.next = fb.next]
                   ELSE IF x = fb.next THEN [@[x] EXCEPT !.prev = fb.prev] ELSE @[x]]]

PushAt(h, a, b, depth) ==
  [h EXCEPT !.head[depth] = a,
            !.hdr = [x \in DOMAIN @ |->
               IF x = a THEN [prev |-> NULL, next |-> h.head[depth], blockID |-> b]
               ELSE IF x = h.head[depth] THEN [@[x] EXCEPT !.prev = a] ELSE @[x]]]

Child(n, ichild) == Base(n) + 2 * Local(n) + ichild + 1

\* hmesh_tpool_divide (): an iteration splits node s.node of tree t, its right half
\* (at level l) becoming a free block
Halve(s, t, l) ==
  LET right  == Child(s.node, 1)
      marked == [s.heap EXCEPT !.flags[t][right] = Flag(l, TRUE, FALSE)]
      pushed == PushAt(marked, Address(<<t, right>>, l), <<t, right>>, l)
  IN  [heap |-> [pushed EXCEPT !.flags[t][s.node] = Flag(l - 1, FALSE, TRUE)],
       node |-> Child(s.node, 0)]

DivideFrom(h, t, n, level, depth) ==
  LET at[l \in level .. depth] == IF l = level THEN [heap |-> h, node |-> n]
                                  ELSE Halve(at[l - 1], t, l)
      end == at[depth]
  IN  [heap  |-> [end.heap EXCEPT !.flags[t][end.node] = InUseFlag(depth)],
       block |-> <<t, end.node>>]

DivideLoop(h, a, level, depth) ==
  LET b == h.hdr[a].blockID IN DivideFrom(PopAt(h, a, level), b[1], b[2], level, depth)

\* the do-while of hmesh_tpool_deallocate (): an iteration merges node s.node with
\* its buddy if it can; when it cannot the loop is left
Join(s, t) ==
  LET buddy  == Sibling(s.node)
      merged == [s.heap EXCEPT !.flags[t][buddy]  = Flag(s.level, FALSE, TRUE),
                               !.flags[t][s.node] = Flag(s.level, FALSE, TRUE)]
  IN  IF s.level > 0 /\ s.heap.flags[t][buddy].free
      THEN [heap  |-> PopAt(merged, Address(<<t, buddy>>, s.level), s.level),
            node  |-> Base(s.node) + (Local(s.node) - 1) \div 2,
            level |-> s.level - 1]
      ELSE s

DeallocateLoop(h, t, n, depth) ==
  LET at[i \in 0 .. depth] ==
        IF i = 0 THEN [heap |-> h, node |-> n, level |-> depth] ELSE Join(at[i - 1], t)
      end == at[depth]
  IN  PushAt([end.heap EXCEPT !.flags[t][end.node].free = TRUE],
             Address(<<t, end.node>>, end.level), <<t, end.node>>, end.level)

\* hmesh_tpool_add (): an iteration marks the nodes of chunk j and pushes its root
AddChunk(h, t, j) ==
  LET root   == j * Slots
      at     == IF j = 0 THEN Outside ELSE Address(<<t, root>>, 0)
      marked == [n \in Nodes |->
                   IF n = root THEN Flag(0, TRUE, FALSE)
                   ELSE IF Base(n) = root /\ Local(n) < Slots - 1 THEN Flag(Level(n), FALSE, TRUE)
                   ELSE h.flags[t][n]]
  IN  PushAt([h EXCEPT !.flags[t] = marked], at, <<t, root>>, 0)

AddLoop(h, t, c) ==
  LET at[i \in 0 .. c] == IF i = 0 THEN h ELSE AddChunk(at[i - 1], t, c - i)
  IN  DivideLoop(at[c], Outside, 0, Depth).heap

WithOutside(h) == [h EXCEPT !.hdr = [a \in Addresses \cup {Outside} |->
                                       IF a = Outside THEN NoHeader ELSE h.hdr[a]]]
Inside(h)      == [h EXCEPT !.hdr = [a \in Addresses |-> h.hdr[a]]]

\* the loop of hmesh_tpool_allocate_general (); -1 where it reports an error
Shift(s) == IF s.n = 0 \/ s.r = 1 THEN s
            ELSE [n |-> s.n \div 2, r |-> s.n % 2, level |-> s.level + 1]

SizeLoop(size) ==
  LET at[i \in 0 .. size] == IF i = 0 THEN [n |-> size, r |-> 0, level |-> 0]
                             ELSE Shift(at[i - 1])
  IN  at[size]

RequestLoop(size) ==
  LET end == SizeLoop(size)
  IN  IF (end.n # 0 /\ end.r # 0) \/ size = 0 \/ end.level - 1 > Depth THEN -1
      ELSE Depth - (end.level - 1)

\* the do-while of hmesh_tpool_allocate () from level depth on; -1 if all lists are empty
LevelLoop(h, depth) ==
  LET from[l \in 0 .. depth] == IF h.head[l] # NULL THEN l
                                ELSE IF l = 0 THEN -1 ELSE from[l - 1]
  IN  from[depth]
-----------------------------------------------------------------------------
\* The loops leave what the closed forms say: splitting the head of any list down to
\* any level (hmesh_tpool_divide ()), coalescing any block that is out through all
\* levels (hmesh_tpool_deallocate ()), understanding a request and choosing its level
\* (hmesh_tpool_allocate_general (), hmesh_tpool_allocate ()).
LoopsAgree ==
  /\ \A level \in Levels : \A depth \in level .. Depth :
       head[level] # NULL =>
         Divide(Heap, head[level], level, depth) = DivideLoop(Heap, head[level], level, depth)
  /\ \A b \in OwnedBlocks :
       Coalesce(Heap, b) = DeallocateLoop(Heap, b[1], b[2], FlagOf(b).depth)
  /\ \A size \in 0 .. 2 ^ (Depth + 2) :
       RequestLoop(size) = IF ValidSize(size) THEN RequestDepth(size) ELSE -1
  /\ \A depth \in Levels :
       LevelLoop(Heap, depth) = IF Candidates(Heap, depth) = {} THEN -1 ELSE BestLevel(Heap, depth)

\* A new pool is linked as the loop of hmesh_tpool_add () links it, whatever
\* smaller blocks are free in the pools before.
AddAgrees ==
  ntrees < MaxTrees /\ head[0] = NULL =>
    \A c \in ChunkCounts :
      AddTree(Heap, ntrees, c) = Inside(AddLoop(WithOutside(Heap), ntrees, c))
=============================================================================
