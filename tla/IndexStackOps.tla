--------------------------- MODULE IndexStackOps ---------------------------
(***************************************************************************)
(* The IndexStack of include/common.h as a value and its operations as     *)
(* operators, shared by every component that embeds one (the stack on its  *)
(* own, HmeshArray, the scalars and blocks of HmeshCells).                 *)
(*                                                                         *)
(* The C struct keeps one array "info" whose element i has four fields.    *)
(* Here each field is a function over Index.  An entry the code never      *)
(* reads (in_use at or above n, free_list at or above nfree, anything at   *)
(* or above max) is NIL, so that two states that differ only in leftover   *)
(* bytes are one state.                                                    *)
(***************************************************************************)
EXTENDS Integers

CONSTANT IndexMax       \* UINT16_MAX: the largest value of the type Index

ASSUME IndexMaxAssumption == IndexMax \in Nat /\ IndexMax >= 2

NIL   == IndexMax               \* "Index UINT16_MAX is reserved and used in place of NULL"
Index == 0 .. IndexMax - 1      \* the values an index may have
Word  == 0 .. IndexMax          \* the values a variable of type Index may have

HMESH_NO_ERROR == 0
HMESH_ERROR    == 1

Lesser(a, b) == IF a < b THEN a ELSE b

IncrementAsAsked(increment) == increment        \* mutant: a stack that cannot grow
IncrementOf(increment) == IF increment = 0 THEN 1 ELSE increment

NewStack(limit, increment) ==
  LET step == IncrementOf(increment)
      max  == Lesser(step, limit)
  IN  [increment |-> step, limit |-> limit, n |-> 0, nfree |-> max, max |-> max,
       inUse    |-> [p \in Index |-> NIL],
       freeList |-> [p \in Index |-> IF p < max THEN p ELSE NIL],
       loc      |-> [i \in Index |-> NIL],
       locFree  |-> [i \in Index |-> IF i < max THEN i ELSE NIL]]

\* index in use / index in the free list, as the code asks the question
InUse(s, i)  == i < s.max /\ s.loc[i] # NIL
IsFree(s, i) == i < s.max /\ s.locFree[i] # NIL

\* index_stack_expand () would refuse
FullTooSoon(s) == s.max + s.increment > s.limit         \* mutant: no partial increment
Full(s) == s.max = s.limit

(***************************************************************************)
(* Growth.  The sum max + increment is computed in the 16 bits of Index:   *)
(* it wraps when it passes UINT16_MAX, and the stack then shrinks.         *)
(***************************************************************************)
Extend(s, m) ==
  LET added == m - s.max
      New(i) == s.max <= i /\ i < m
  IN  [s EXCEPT
        !.max      = m,
        !.nfree    = s.nfree + added,
        !.freeList = [p \in Index |-> IF s.nfree <= p /\ p < s.nfree + added
                                        THEN s.max + (p - s.nfree) ELSE s.freeList[p]],
        !.locFree  = [i \in Index |-> IF New(i) THEN s.nfree + (i - s.max) ELSE s.locFree[i]],
        !.loc      = [i \in Index |-> IF New(i) THEN NIL ELSE s.loc[i]]]

Truncate(s, m) ==       \* realloc () to fewer elements; the counters stay
  LET Kept(f) == [p \in Index |-> IF p < m THEN f[p] ELSE NIL]
  IN  [s EXCEPT !.max = m, !.inUse = Kept(@), !.freeList = Kept(@),
                !.loc = Kept(@), !.locFree = Kept(@)]

Expand(s) ==
  LET m == Lesser((s.max + s.increment) % (IndexMax + 1), s.limit)
  IN  IF m < s.max THEN Truncate(s, m) ELSE Extend(s, m)

\* "while (index >= stack->max) index_stack_expand (stack)" in closed form:
\* whole increments until index fits, capped at limit.
ReachShort(s, index) ==         \* mutant: stops one increment early
  LET steps == (index - s.max) \div s.increment
  IN  IF index < s.max THEN s.max ELSE Lesser(s.max + steps * s.increment, s.limit)

ReachMax(s, index) ==
  LET steps == (index - s.max) \div s.increment + 1
  IN  IF index < s.max THEN s.max
      ELSE Lesser(s.max + steps * s.increment, s.limit)

\* The increment that should reach limit overflows: the loop never gets there.
LastSum(s) == s.max + ((s.limit - s.max + s.increment - 1) \div s.increment) * s.increment

LoopWraps(s, index) == /\ ~Full(s) /\ LastSum(s) > IndexMax
                       /\ index >= s.max /\ ReachMax(s, index) = s.limit

ExpandUntil(s, index) ==
  IF index < s.max THEN s ELSE Extend(s, ReachMax(s, index))

(***************************************************************************)
(* Moving one index between the two lists.                                 *)
(***************************************************************************)
Head(s) == s.freeList[s.nfree - 1]

Pop(s) ==               \* index_stack_free_head (stack, 1), once nfree > 0
  [s EXCEPT !.nfree = @ - 1, !.freeList[s.nfree - 1] = NIL, !.locFree[Head(s)] = NIL,
            !.n = @ + 1, !.inUse[s.n] = Head(s), !.loc[Head(s)] = s.n]

Claim(s, index) ==      \* index_stack_allocate (), once the checks have passed
  LET hole == s.locFree[index]
      last == Head(s)
  IN  [s EXCEPT !.n = @ + 1, !.inUse[s.n] = index, !.loc[index] = s.n,
                !.nfree = @ - 1,
                !.freeList = [@ EXCEPT ![hole] = last, ![s.nfree - 1] = NIL],
                !.locFree  = [@ EXCEPT ![last] = hole, ![index] = NIL]]

ReleaseStaleLoc(s, index) ==    \* mutant: the index moved keeps its old loc
  [s EXCEPT !.nfree = @ + 1, !.freeList[s.nfree] = index, !.locFree[index] = s.nfree,
            !.n = @ - 1,
            !.inUse = [@ EXCEPT ![s.loc[index]] = s.inUse[s.n - 1], ![s.n - 1] = NIL],
            !.loc[index] = NIL]

Release(s, index) ==    \* index_stack_deallocate (), once the checks have passed
  LET hole == s.loc[index]
      last == s.inUse[s.n - 1]
  IN  [s EXCEPT !.nfree = @ + 1, !.freeList[s.nfree] = index, !.locFree[index] = s.nfree,
                !.n = @ - 1,
                !.inUse = [@ EXCEPT ![hole] = last, ![s.n - 1] = NIL],
                !.loc   = [@ EXCEPT ![last] = hole, ![index] = NIL]]

(***************************************************************************)
(* What makes a value a well-formed stack.                                 *)
(***************************************************************************)
StackType ==
  [increment : 1 .. IndexMax, limit : 2 .. IndexMax,
   n : Word, nfree : Word, max : Word,
   inUse : [Index -> Word], freeList : [Index -> Word],
   loc : [Index -> Word], locFree : [Index -> Word]]

\* every index of [0, max) is in exactly one of the two lists
Partitioned(s) ==
  /\ s.max <= s.limit
  /\ s.n + s.nfree = s.max
  /\ \A i \in Index : IF i < s.max THEN (s.loc[i] = NIL) # (s.locFree[i] = NIL)
                                   ELSE s.loc[i] = NIL /\ s.locFree[i] = NIL

\* loc is the inverse of in_use, loc_free of free_list
Mutual(list, place, len, max) ==
  /\ \A p \in Index : p < len => list[p] < max /\ place[list[p]] = p
  /\ \A i \in Index : place[i] # NIL => place[i] < len /\ list[place[i]] = i

WellFormed(s) ==
  /\ Partitioned(s)
  /\ Mutual(s.inUse, s.loc, s.n, s.max)
  /\ Mutual(s.freeList, s.locFree, s.nfree, s.max)

UsedSet(s) == {i \in Index : InUse(s, i)}
FreeSet(s) == {i \in Index : IsFree(s, i)}
=============================================================================
