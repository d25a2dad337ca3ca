----------------------------- MODULE HmeshArray -----------------------------
(***************************************************************************)
(* The arrays of memory blocks of src/hmesh.c (hmesh_array ... _destroy)   *)
(* over one pool of pages.  An array numbers its blocks with an IndexStack *)
(* that carries no attributes; the caller holds "mem", the addresses of    *)
(* the blocks, the array their blockIDs.  The two are written and dropped  *)
(* together, so block[i] stands for mem[i] and a->blockID[i].              *)
(*                                                                         *)
(* The pool is what PagePool promises, with its extents as opaque blocks:  *)
(* it gives a block nobody has or none at all, and refuses one that is not *)
(* out.  Calls are sequential; hmesh_array_destroy () takes one step per   *)
(* iteration of its loop, during which nothing else runs.                  *)
(***************************************************************************)
EXTENDS IndexStackOps

CONSTANTS
  Arrays,               \* the arrays a client may have at one time
  Blocks,               \* the blocks the pool can hand out
  HMESH_MAX_NBLOCKS,    \* limit of an array's stack
  Increment,            \* its increment, 8
  NULL, Garbage         \* a null pointer; memory malloc () left uninitialised

ASSUME HmeshArrayAssumption ==
  /\ HMESH_MAX_NBLOCKS \in 2 .. IndexMax /\ Increment \in 1 .. IndexMax
  /\ NULL \notin Blocks /\ Garbage \notin Blocks /\ NULL # Garbage

VARIABLES
  array,        \* array[a]: the HmeshArray and its mem; NoArray while a is not created
  live,         \* blocks handed out by the pool
  loop,         \* hmesh_array_destroy (): its array and i, or Idle
  misread       \* history: an uninitialised mem[i] has been taken for a block

vars == <<array, live, loop, misread>>

Positions == 0 .. HMESH_MAX_NBLOCKS - 1
NoArray   == [exists |-> FALSE, max |-> 0, block |-> [i \in Positions |-> Garbage],
              stack |-> NewStack(HMESH_MAX_NBLOCKS, Increment)]
Idle      == [of |-> NULL, i |-> 0]

Init == /\ array = [a \in Arrays |-> NoArray]
        /\ live = {} /\ loop = Idle /\ misread = FALSE

Callable(a) == loop = Idle /\ array[a].exists

\* hmesh_array (): mem and blockID come from malloc ()
Create(a) ==
  /\ loop = Idle /\ ~array[a].exists
  /\ array' = [array EXCEPT ![a] = [NoArray EXCEPT !.exists = TRUE, !.max = NoArray.stack.max]]
  /\ UNCHANGED <<live, loop, misread>>

(***************************************************************************)
(* hmesh_array_add (): claim the index, take a block, and only then let    *)
(* mem and blockID catch up with the stack.                                *)
(***************************************************************************)
\* An index whose growth wraps is left to IndexStack (AllocateFaults there).
Asked(a, i)    == Callable(a) /\ ~LoopWraps(array[a].stack, i)
Reached(a, i)  == ExpandUntil(array[a].stack, i)
CanClaim(a, i) == i < Reached(a, i).max /\ Reached(a, i).locFree[i] # NIL

Room(arr, stack) == IF stack.max > arr.max THEN stack.max ELSE arr.max

NoRollBack(stack, i) == stack                   \* mutant: the index stays in use

\* index_stack_deallocate () after the pool gave nothing
RollBack(stack, i) == Release(stack, i)

Add(a, i) ==
  /\ Asked(a, i) /\ CanClaim(a, i)
  /\ LET stack == Claim(Reached(a, i), i)
     IN  \E b \in Blocks \ live :
           /\ live' = live \cup {b}
           /\ array' = [array EXCEPT ![a].stack = stack, ![a].max = Room(array[a], stack),
                                     ![a].block[i] = b]
  /\ UNCHANGED <<loop, misread>>

\* no memory, or an obj_size the pool does not serve
AddFails(a, i) ==
  /\ Asked(a, i) /\ CanClaim(a, i)
  /\ array' = [array EXCEPT ![a].stack = RollBack(Claim(Reached(a, i), i), i)]
  /\ UNCHANGED <<live, loop, misread>>

AddRefused(a, i) ==
  /\ Asked(a, i) /\ ~CanClaim(a, i)
  /\ array' = [array EXCEPT ![a].stack = Reached(a, i)]
  /\ UNCHANGED <<live, loop, misread>>

(***************************************************************************)
(* hmesh_array_remove ()                                                   *)
(***************************************************************************)
\* (iblock < a->max) ? (*mem)[iblock] : NULL
Located(arr, i) == IF i < arr.max THEN arr.block[i] ELSE NULL

\* mutant: the index does not go back
DroppedBlockOnly(arr, i) == [arr EXCEPT !.block[i] = NULL]

\* mutant: mem[i] keeps the address of the block given back
DroppedIndexOnly(arr, i) ==
  [arr EXCEPT !.stack = IF InUse(@, i) THEN Release(@, i) ELSE @]

\* the index goes back as well, when it was in use
Dropped(arr, i) ==
  [arr EXCEPT !.block[i] = NULL, !.stack = IF InUse(@, i) THEN Release(@, i) ELSE @]

Remove(a, i) ==
  /\ Callable(a) /\ Located(array[a], i) \in live
  /\ live' = live \ {Located(array[a], i)}
  /\ array' = [array EXCEPT ![a] = Dropped(@, i)]
  /\ UNCHANGED <<loop, misread>>

\* nothing there, or the pool refuses the block
RemoveRefused(a, i) ==
  /\ Callable(a) /\ Located(array[a], i) \notin live \cup {Garbage}
  /\ UNCHANGED vars

\* An uninitialised mem[i] may read as NULL.  It may also read as an address,
\* and the uninitialised blockID[i] may then number any block that is out, or
\* none.  (It may even number the pool's own page: that is left out.)
RemoveGarbage(a, i) ==
  /\ Callable(a) /\ Located(array[a], i) = Garbage
  /\ \/ UNCHANGED <<array, live, misread>>
     \/ /\ \E b \in live : live' = live \ {b}
        /\ array' = [array EXCEPT ![a] = Dropped(@, i)]
        /\ misread' = TRUE
  /\ UNCHANGED loop

(***************************************************************************)
(* hmesh_array_destroy (): the loop walks in_use upwards while each        *)
(* removal moves the last index in use to the place it leaves.             *)
(***************************************************************************)
Destroy(a) == /\ Callable(a)
              /\ loop' = [of |-> a, i |-> 0]
              /\ UNCHANGED <<array, live, misread>>

DestroyStep(a) ==
  /\ loop.of = a /\ loop.i < array[a].stack.n
  /\ LET iblock == array[a].stack.inUse[loop.i]
     IN  \/ /\ array[a].block[iblock] \in live
            /\ live' = live \ {array[a].block[iblock]}
            /\ array' = [array EXCEPT ![a] = Dropped(@, iblock)]
         \/ /\ array[a].block[iblock] \notin live
            /\ UNCHANGED <<array, live>>
  /\ loop' = [loop EXCEPT !.i = @ + 1]
  /\ UNCHANGED misread

\* free (*mem), index_stack_destroy (), free (a)
DestroyReturns(a) ==
  /\ loop.of = a /\ loop.i >= array[a].stack.n
  /\ array' = [array EXCEPT ![a] = NoArray]
  /\ loop' = Idle
  /\ UNCHANGED <<live, misread>>

Next ==
  \E a \in Arrays :
    \/ Create(a) \/ Destroy(a) \/ DestroyStep(a) \/ DestroyReturns(a)
    \/ \E i \in 0 .. HMESH_MAX_NBLOCKS :
         \/ Add(a, i) \/ AddFails(a, i) \/ AddRefused(a, i)
         \/ Remove(a, i) \/ RemoveRefused(a, i) \/ RemoveGarbage(a, i)

Spec == Init /\ [][Next]_vars
-----------------------------------------------------------------------------
(***************************************************************************)
(* Properties                                                              *)
(***************************************************************************)
ArrayType == [exists : BOOLEAN, max : 0 .. HMESH_MAX_NBLOCKS,
              block : [Positions -> Blocks \cup {NULL, Garbage}], stack : StackType]

TypeOK ==
  /\ array \in [Arrays -> ArrayType]
  /\ live \subseteq Blocks
  /\ loop \in [of : Arrays \cup {NULL}, i : Word]
  /\ misread \in BOOLEAN

Holds(a, i) == InUse(array[a].stack, i)

\* hmesh_array_add () grows the stack first and mem only once it has a block, so
\* the stack may be the larger after a failure.  Even so its lists stay mutually
\* inverse, every index in use has its place in mem and a block there, and no
\* other index shows a block: remove and destroy never read beyond mem, and what
\* they free goes from all the lists.  This holds whatever clients remove,
\* misreads included.  What destroy leaves is the subject of DestroyReleasesAll.
MemFollowsStack ==
  \A a \in Arrays :
    /\ WellFormed(array[a].stack)
    /\ \A i \in Positions : /\ Holds(a, i) => i < array[a].max
                            /\ Holds(a, i) <=> array[a].block[i] \in Blocks

\* Until memory is misread, a block an array holds has not gone back to the
\* pool, and no other place of this or another array holds it too.
BlocksHaveOneOwner ==
  ~misread =>
    \A a, b \in Arrays : \A i, j \in Positions :
      Holds(a, i) => /\ array[a].block[i] \in live
                     /\ (Holds(b, j) /\ array[a].block[i] = array[b].block[j]) => a = b /\ i = j

\* the blocks this step gives back were held by an index in use
ReturnsOnlyOwned ==
  \A b \in live \ live' : \E a \in Arrays, i \in Positions :
    Holds(a, i) /\ array[a].block[i] = b

\* Misreads are the only way to give back a block that no index in use holds: a
\* second removal, or one after a failed addition, gives nothing back.
OnlyMisreadsStray == [][ReturnsOnlyOwned \/ misread']_vars

\* What the comment on hmesh_array_destroy () says, "deallocate all of it's
\* blocks": when its loop is over, the array holds no block that is still out.
\* This is false: each removal moves the last index in use to the place the loop
\* has just passed, so about half of the blocks stay with the pool's books when
\* mem and the stack are freed.
DestroyReleasesAll ==
  \A a \in Arrays : (loop.of = a /\ loop.i >= array[a].stack.n /\ ~misread) =>
    \A i \in Positions : Holds(a, i) => array[a].block[i] \notin live

\* The inductive invariant: no call changes the limit a stack was created with.
IInv == /\ TypeOK /\ MemFollowsStack /\ BlocksHaveOneOwner
        /\ \A a \in Arrays : array[a].stack.limit = HMESH_MAX_NBLOCKS
=============================================================================
