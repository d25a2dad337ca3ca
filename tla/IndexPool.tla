----------------------------- MODULE IndexPool -----------------------------
(***************************************************************************)
(* What an IndexStack promises, without its lists: a set of indices in     *)
(* use, a set of free ones, and the indices whose owner still keeps an     *)
(* attribute.  An index is handed out only when nobody has it; a request   *)
(* fails only when every index below the limit is in use, or when the one  *)
(* asked for is; an index that carries an attribute cannot be given back.  *)
(***************************************************************************)
EXTENDS Integers

CONSTANT IndexMax

VARIABLES
  limit,    \* bound on the indices; 0 while no stack exists
  used,     \* indices in use
  free,     \* indices provided and not in use
  held,     \* indices whose attribute is set
  ending,   \* the stack is being destroyed
  call      \* the last call that returned: its name, argument and result

vars == <<limit, used, free, held, ending, call>>

NIL == IndexMax

Returns(op, arg, ret) == call' = [op |-> op, arg |-> arg, ret |-> ret]

\* More indices may be provided at any call, always the next ones.
Provide(u) ==
  \E m \in 0 .. limit : /\ used \cup free \subseteq 0 .. m - 1
                        /\ u \subseteq 0 .. m - 1
                        /\ free' = (0 .. m - 1) \ u

Serving == limit > 0 /\ ~ending

Init == /\ limit = 0 /\ used = {} /\ free = {} /\ held = {} /\ ending = FALSE
        /\ call = [op |-> "none", arg |-> NIL, ret |-> 0]

Create(l) == /\ limit = 0
             /\ limit' = l /\ used' = {} /\ held' = {}
             /\ \E m \in 1 .. l : free' = 0 .. m - 1
             /\ Returns("create", l, 0)
             /\ UNCHANGED ending

Peek(i) == /\ Serving
           /\ i \in 0 .. limit - 1 /\ i \notin used
           /\ Provide(used) /\ i \in free'
           /\ Returns("peek", NIL, i)
           /\ UNCHANGED <<limit, used, held, ending>>

Obtain(i) == /\ Serving
             /\ i \in 0 .. limit - 1 /\ i \notin used
             /\ used' = used \cup {i} /\ Provide(used \cup {i})
             /\ UNCHANGED <<limit, held, ending>>

PopIndex(i) == Obtain(i) /\ Returns("pop", NIL, i)
Allocate(i) == Obtain(i) /\ Returns("allocate", i, 0)

Exhausted(op) == /\ Serving /\ used = 0 .. limit - 1
                 /\ Returns(op, NIL, NIL)
                 /\ UNCHANGED <<limit, used, free, held, ending>>

RefuseAllocate(i) == /\ Serving /\ (i \in used \/ i >= limit)
                     /\ Provide(used)
                     /\ Returns("allocate", i, 1)
                     /\ UNCHANGED <<limit, used, held, ending>>

GiveBack(i) == /\ i \in used \ held
               /\ used' = used \ {i} /\ free' = free \cup {i}
               /\ UNCHANGED <<limit, held, ending>>

Deallocate(i) == Serving /\ GiveBack(i) /\ Returns("deallocate", i, 0)

RefuseDeallocate(i) == /\ Serving /\ (i \notin used \/ i \in held)
                       /\ Returns("deallocate", i, 1)
                       /\ UNCHANGED <<limit, used, free, held, ending>>

\* Destruction takes the indices back one by one ...
Destroy == /\ Serving /\ ending' = TRUE
           /\ UNCHANGED <<limit, used, free, held, call>>

Reclaim(i) == ending /\ GiveBack(i) /\ UNCHANGED call

\* ... and ends with nothing left, or with exactly the indices still held.
Destroyed == /\ ending /\ ending' = FALSE
             /\ used = {} /\ held = {}
             /\ limit' = 0 /\ free' = {}
             /\ Returns("destroy", NIL, 0)
             /\ UNCHANGED <<used, held>>

NotDestroyed == /\ ending /\ ending' = FALSE
                /\ used = held /\ held # {}
                /\ Returns("destroy", NIL, 1)
                /\ UNCHANGED <<limit, used, free, held>>

Hold(i)  == /\ Serving /\ i \in used \ held
            /\ held' = held \cup {i} /\ UNCHANGED <<limit, used, free, ending, call>>
LetGo(i) == /\ Serving /\ i \in held
            /\ held' = held \ {i} /\ UNCHANGED <<limit, used, free, ending, call>>

Next ==
  \/ \E l \in 2 .. IndexMax : Create(l)
  \/ \E i \in 0 .. IndexMax - 1 :
       \/ Peek(i) \/ PopIndex(i) \/ Allocate(i)
       \/ Deallocate(i) \/ Reclaim(i) \/ Hold(i) \/ LetGo(i)
  \/ \E i \in 0 .. IndexMax : RefuseAllocate(i) \/ RefuseDeallocate(i)
  \/ Exhausted("peek") \/ Exhausted("pop")
  \/ Destroy \/ Destroyed \/ NotDestroyed

Spec == Init /\ [][Next]_vars
=============================================================================
