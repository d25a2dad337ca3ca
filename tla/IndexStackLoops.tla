-------------------------- MODULE IndexStackLoops --------------------------
(***************************************************************************)
(* The loops of include/common.h iteration by iteration, as functions of   *)
(* how often their body has run.  IndexStackOps gives their results in     *)
(* closed form; the two agree.                                             *)
(***************************************************************************)
EXTENDS IndexStack

\* the body of the for loop of index_stack_expand (): index i becomes available
Provide(s, i) ==
  [s EXCEPT !.freeList[s.nfree] = i, !.locFree[i] = s.nfree,
            !.nfree = s.nfree + 1, !.loc[i] = NIL]

\* s before iteration i, for i from the old max to the new one
ProvideFrom(s, max) ==
  LET at[i \in s.max .. max] == IF i = s.max THEN s ELSE Provide(at[i - 1], i - 1)
  IN  at

\* the 16-bit sum wraps: the new max is smaller than the old one
SumWraps(s) == (s.max + s.increment) % (IndexMax + 1) < s.max

ExpandLoop(s) ==
  LET max == Lesser((s.max + s.increment) % (IndexMax + 1), s.limit)
  IN  [ProvideFrom(s, max)[max] EXCEPT !.max = max]

\* the while loop of index_stack_allocate () goes on
GoesOn(s, index) == index >= s.max /\ ~Full(s)

\* s after k iterations, as long as none of them shrinks the stack
ReachFrom(s, index) ==
  LET at[k \in Word] ==
        IF k = 0 THEN s
        ELSE IF GoesOn(at[k - 1], index) /\ ~SumWraps(at[k - 1]) THEN ExpandLoop(at[k - 1])
        ELSE at[k - 1]
  IN  at

\* every iteration but one that wraps adds an index, so IndexMax of them are enough
ReachLoop(s, index) == ReachFrom(s, index)[IndexMax]

\* whether growing increment by increment towards index comes to a sum that wraps
Shrinks(s, index) == LET end == ReachLoop(s, index) IN GoesOn(end, index) /\ SumWraps(end)

\* Growing to any index in one stride leaves the same stack as growing increment by
\* increment, in whatever state the lists are, until a sum wraps; and which growth
\* wraps is foreseen exactly.
GrowthAgrees ==
  phase = "live" =>
    \A index \in Word : /\ LoopWraps(stack, index) <=> Shrinks(stack, index)
                        /\ ~LoopWraps(stack, index) =>
                             ExpandUntil(stack, index) = ReachLoop(stack, index)
=============================================================================
