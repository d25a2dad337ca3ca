----------------------------- MODULE IndexStack -----------------------------
(***************************************************************************)
(* One IndexStack of include/common.h and the array of attributes its      *)
(* client keeps beside it.  The client obeys the header: "For each index   *)
(* in in_use, you may store attributes".  Calls are sequential (the code   *)
(* has no threads); index_stack_destroy () is one step per loop iteration, *)
(* and no other call runs before its loop ends.                            *)
(***************************************************************************)
EXTENDS IndexStackOps

CONSTANTS
  Limits,       \* the limits a client creates stacks with
  Increments    \* and the increments

ASSUME ArgumentsAssumption ==
  /\ Limits \subseteq 2 .. IndexMax      \* assert (limit > 1)
  /\ Increments \subseteq Word

\* No sum max + increment leaves the 16 bits.
NoWrap == \A l \in Limits, inc \in Increments : l + inc <= IndexMax + 1

VARIABLES
  phase,        \* "none", "live", "sweeping" (inside destroy), "faulted" (a sum
                \* wrapped) or "crashed" (the program ended in a read)
  stack,        \* the IndexStack
  attribute,    \* attribute[i]: (*attribute)[i] is not NULL
  sweep,        \* locals n and status of index_stack_destroy ()
  call          \* the last call that returned

vars == <<phase, stack, attribute, sweep, call>>

Returns(op, arg, ret) == call' = [op |-> op, arg |-> arg, ret |-> ret]

NoStack  == NewStack(2, 1)      \* stands for a struct nobody may use
NoSweep  == [n |-> 0, status |-> HMESH_NO_ERROR]
NoneHeld == [i \in Index |-> FALSE]

\* expanding sets the attribute of every new index to NULL
FreshAttributes(s) ==
  attribute' = [i \in Index |-> attribute[i] /\ i \notin stack.max .. s.max - 1]

Init == /\ phase = "none" /\ stack = NoStack /\ attribute = NoneHeld /\ sweep = NoSweep
        /\ call = [op |-> "none", arg |-> NIL, ret |-> 0]

\* index_stack ()
Create(limit, increment) ==
  /\ phase = "none"
  /\ phase' = "live"
  /\ stack' = NewStack(limit, increment)
  /\ attribute' = NoneHeld
  /\ Returns("create", limit, HMESH_NO_ERROR)
  /\ UNCHANGED sweep

\* index_stack_free_head (stack, is_pop)
HeadCall(isPop) == IF isPop THEN "pop" ELSE "peek"

Stocked == IF stack.nfree = 0 THEN Expand(stack) ELSE stack

FreeHead(isPop) ==
  /\ phase = "live"
  /\ stack.nfree # 0 \/ ~Full(stack)
  /\ Stocked.nfree # 0
  /\ stack' = IF isPop THEN Pop(Stocked) ELSE Stocked
  /\ FreshAttributes(Stocked)
  /\ Returns(HeadCall(isPop), NIL, Head(Stocked))
  /\ UNCHANGED <<phase, sweep>>

FreeHeadOutOfIndex(isPop) ==
  /\ phase = "live"
  /\ stack.nfree = 0 /\ Full(stack)
  /\ Returns(HeadCall(isPop), NIL, NIL)
  /\ UNCHANGED <<phase, stack, attribute, sweep>>

\* The expansion wrapped: it added no index, and info[nfree - 1] is read anyway.
FreeHeadFaults ==
  /\ phase = "live"
  /\ stack.nfree = 0 /\ ~Full(stack) /\ Stocked.nfree = 0
  /\ phase' = "faulted" /\ stack' = Stocked
  /\ UNCHANGED <<attribute, sweep, call>>

\* index_stack_allocate (stack, index)
Reached(index) == ExpandUntil(stack, index)

CanAllocate(index) == /\ index < Reached(index).max
                      /\ Reached(index).locFree[index] # NIL
                      /\ index < stack.max => ~attribute[index]

Allocate(index) ==
  /\ phase = "live" /\ ~LoopWraps(stack, index)
  /\ CanAllocate(index)
  /\ stack' = Claim(Reached(index), index)
  /\ FreshAttributes(Reached(index))
  /\ Returns("allocate", index, HMESH_NO_ERROR)
  /\ UNCHANGED <<phase, sweep>>

\* the stack keeps whatever it grew to
AllocateRefused(index) ==
  /\ phase = "live" /\ ~LoopWraps(stack, index)
  /\ ~CanAllocate(index)
  /\ stack' = Reached(index)
  /\ FreshAttributes(Reached(index))
  /\ Returns("allocate", index, HMESH_ERROR)
  /\ UNCHANGED <<phase, sweep>>

\* The loop wraps below index: info shrinks under lists that are longer, and what
\* further iterations write no longer fits it.
AllocateFaults(index) ==
  /\ phase = "live" /\ LoopWraps(stack, index)
  /\ phase' = "faulted"
  /\ stack' = Truncate(Extend(stack, LastSum(stack) - stack.increment),
                       LastSum(stack) % (IndexMax + 1))
  /\ UNCHANGED <<attribute, sweep, call>>

\* index_stack_deallocate (stack, index)
CanDeallocateHeld(index) == InUse(stack, index)         \* mutant: the attribute is ignored
CanDeallocate(index) == InUse(stack, index) /\ ~attribute[index]

Deallocate(index) ==
  /\ phase = "live"
  /\ CanDeallocate(index)
  /\ stack' = Release(stack, index)
  /\ Returns("deallocate", index, HMESH_NO_ERROR)
  /\ UNCHANGED <<phase, attribute, sweep>>

DeallocateRefused(index) ==
  /\ phase = "live"
  /\ ~CanDeallocate(index)
  /\ Returns("deallocate", index, HMESH_ERROR)
  /\ UNCHANGED <<phase, stack, attribute, sweep>>

\* (*att)[index] is read before anyone looks whether index is below max.  What lies
\* beyond is not used, and the call refuses as above; or the read ends the program.
DeallocateCrashes(index) ==
  /\ phase = "live"
  /\ index >= stack.max
  /\ phase' = "crashed"
  /\ UNCHANGED <<stack, attribute, sweep, call>>

\* index_stack_destroy (stack)
DestroyFromBelow ==             \* mutant: the last index in use is left out
  /\ phase = "live"
  /\ phase' = "sweeping"
  /\ sweep' = [n |-> IF stack.n = 0 THEN 0 ELSE stack.n - 1, status |-> HMESH_NO_ERROR]
  /\ UNCHANGED <<stack, attribute, call>>

Destroy ==
  /\ phase = "live"
  /\ phase' = "sweeping"
  /\ sweep' = [n |-> stack.n, status |-> HMESH_NO_ERROR]
  /\ UNCHANGED <<stack, attribute, call>>

DestroyStep ==
  /\ phase = "sweeping" /\ sweep.n > 0
  /\ LET index == stack.inUse[sweep.n - 1]
     IN  \/ /\ CanDeallocate(index)
            /\ stack' = Release(stack, index)
            /\ sweep' = [sweep EXCEPT !.n = @ - 1]
         \/ /\ ~CanDeallocate(index)
            /\ sweep' = [n |-> sweep.n - 1, status |-> HMESH_ERROR]
            /\ UNCHANGED stack
  /\ UNCHANGED <<phase, attribute, call>>

DestroyReturns ==
  /\ phase = "sweeping" /\ sweep.n = 0
  /\ Returns("destroy", NIL, sweep.status)
  /\ sweep' = NoSweep
  /\ \/ /\ sweep.status = HMESH_ERROR
        /\ phase' = "live"
        /\ UNCHANGED <<stack, attribute>>
     \/ /\ sweep.status = HMESH_NO_ERROR
        /\ phase' = "none"
        /\ stack' = NoStack /\ attribute' = NoneHeld

\* the client stores an attribute of an index in use, or frees it
SetAttribute(index) ==
  /\ phase = "live" /\ InUse(stack, index) /\ ~attribute[index]
  /\ attribute' = [attribute EXCEPT ![index] = TRUE]
  /\ UNCHANGED <<phase, stack, sweep, call>>

FreeAttribute(index) ==
  /\ phase = "live" /\ attribute[index]
  /\ attribute' = [attribute EXCEPT ![index] = FALSE]
  /\ UNCHANGED <<phase, stack, sweep, call>>

Next ==
  \/ \E limit \in Limits, increment \in Increments : Create(limit, increment)
  \/ \E isPop \in BOOLEAN : FreeHead(isPop) \/ FreeHeadOutOfIndex(isPop)
  \/ FreeHeadFaults
  \/ \E index \in Word :
       \/ Allocate(index) \/ AllocateRefused(index) \/ AllocateFaults(index)
       \/ Deallocate(index) \/ DeallocateRefused(index) \/ DeallocateCrashes(index)
  \/ Destroy \/ DestroyStep \/ DestroyReturns
  \/ \E index \in Index : SetAttribute(index) \/ FreeAttribute(index)

Spec == Init /\ [][Next]_vars
-----------------------------------------------------------------------------
(***************************************************************************)
(* Properties                                                              *)
(***************************************************************************)
\* The fields stay in the width of the C types.
TypeOK ==
  /\ phase \in {"none", "live", "sweeping", "faulted", "crashed"}
  /\ stack \in StackType
  /\ attribute \in [Index -> BOOLEAN]
  /\ sweep \in [n : Word, status : {HMESH_NO_ERROR, HMESH_ERROR}]

\* common.h: "indices [0, max) are either in use/free": each index below max
\* is in exactly one of the lists, the counters add up to max, and max never
\* passes limit.  Every write info[n], info[nfree] stays inside info for it.
InUseOrFree == phase # "faulted" => Partitioned(stack)

\* A stack whose growth wraps works until it has provided more than
\* limit - increment indices; only then is the wrapped sum met.
WrapOnlyAtTheEnd ==
  phase = "faulted" => stack.n + stack.nfree > stack.limit - stack.increment

\* The swaps of allocate and deallocate keep loc the inverse of in_use and
\* loc_free the inverse of free_list, so no list holds an index twice.
ListsAreInverse == phase # "faulted" => WellFormed(stack)

\* Only indices in use carry an attribute: deallocate refuses to free one that
\* does, expand clears the new ones, so a popped index never shows the
\* attribute of a former owner.
AttributesInUse ==
  phase # "faulted" => \A i \in Index : attribute[i] => InUse(stack, i)

\* While index_stack_destroy () runs, every index it has passed and could not
\* free still carries its attribute, and those are what stays in use from
\* position sweep.n on; its status tells whether there is one.
SweepKeepsHeld ==
  phase = "sweeping" =>
    /\ sweep.n <= stack.n
    /\ \A p \in Index : p \in sweep.n .. stack.n - 1 => attribute[stack.inUse[p]]
    /\ (sweep.status = HMESH_ERROR) <=> (sweep.n < stack.n)

\* The conjunction that every step preserves: what the lists need while they are
\* sound, what the attributes need, and what destroy is in the middle of.
IInv ==
  /\ TypeOK /\ WrapOnlyAtTheEnd /\ ListsAreInverse /\ AttributesInUse /\ SweepKeepsHeld
  /\ phase = "none" => stack = NoStack

\* What it adds where no sum wraps.
NeverFaults ==
  /\ phase # "faulted"
  /\ stack.limit + stack.increment <= IndexMax + 1

\* The lists implement the abstract pool of indices, until a sum wraps: what each call
\* returns and refuses is what the sets of used, free and held indices allow.
PoolLimit == IF phase = "none" THEN 0 ELSE stack.limit
PoolUsed  == IF phase = "none" THEN {} ELSE UsedSet(stack)
PoolFree  == IF phase = "none" THEN {} ELSE FreeSet(stack)
PoolHeld  == {i \in Index : attribute[i]}
Ending    == phase = "sweeping"

Pool == INSTANCE IndexPool WITH
          limit <- PoolLimit, used <- PoolUsed, free <- PoolFree, held <- PoolHeld,
          ending <- Ending

ImplementsPool == Pool!Init /\ [][Pool!Next \/ phase' = "faulted"]_(Pool!vars)
=============================================================================
