----------------------------- MODULE HmeshCells -----------------------------
(***************************************************************************)
(* The k-cells of src/hmesh.c: a stack of attributes, each an HmeshArray,  *)
(* that are to have the same blocks; the stack of blocks is the one inside *)
(* attribute 0, the indirection map.  New nodes go to the tail block, and  *)
(* a full tail makes every attribute grow by one block.                    *)
(*                                                                         *)
(* An attribute other than the map is its name and the set of its blocks   *)
(* (HmeshArray refines that); a block may fail to be added to it at any    *)
(* time, when the pool has no memory.  hmesh_node_new () reads             *)
(* "cells->last"; the field of the struct is "tail".                       *)
(***************************************************************************)
EXTENDS IndexStackOps

CONSTANTS
  k, K, D,              \* hmesh_cells (k, K, D)
  HMESH_MAX_NVARS,      \* limit of the stack of attributes, 64
  HMESH_MAX_NBLOCKS,    \* limit of the stack of blocks
  Increment,            \* increment of both, 8
  BlockSize,            \* hmesh_tpool_block_size (): nodes of a block
  Names,                \* the scalar names clients use, all well formed
  Default, NULL, Garbage

Vars     == 0 .. HMESH_MAX_NVARS - 1
BlockIDs == 0 .. HMESH_MAX_NBLOCKS - 1

\* an attribute other than the map
AttributeType == [name : Names \cup {Default}, blocks : SUBSET BlockIDs]

ASSUME HmeshCellsAssumption ==
  /\ {k, K, D} \subseteq 0 .. 3 /\ k <= K /\ K <= D
  /\ {HMESH_MAX_NVARS, HMESH_MAX_NBLOCKS} \subseteq 2 .. IndexMax
  /\ HMESH_MAX_NVARS >= IF k = 0 THEN 2 + D ELSE k + 6         \* room for the defaults
  /\ Increment \in 1 .. IndexMax /\ BlockSize \in Nat \ {0}
  /\ HMESH_MAX_NVARS - 1 + Increment <= IndexMax               \* far from wrapping
  /\ Default \notin Names /\ NULL \notin AttributeType /\ Garbage \notin 0 .. BlockSize

VARIABLES
  phase,        \* "none", "live" or "faulted" (a null or dangling pointer, memory lost)
  cells         \* the HmeshCells

vars == <<phase, cells>>

min == 2 + IF k = 0 THEN D ELSE IF k < K THEN 3 ELSE 2

NoCells == [scalars |-> NewStack(HMESH_MAX_NVARS, Increment),
            attr |-> [i \in Vars |-> NULL], maxs |-> 0,
            map  |-> NewStack(HMESH_MAX_NBLOCKS, Increment),
            info |-> [b \in BlockIDs |-> Garbage], max |-> 0, tail |-> NIL]

Init == phase = "none" /\ cells = NoCells

Attribute(name, blocks) == [name |-> name, blocks |-> blocks]

At(c, p)  == c.scalars.inUse[p]         \* attribute at position p of in_use
Has(c, i) == IF i = 0 THEN UsedSet(c.map) ELSE c.attr[i].blocks

(***************************************************************************)
(* hmesh_cells_expand (): the free head of the stack of blocks is added to *)
(* the attributes from the last in use down to the map.  It stops at the   *)
(* first failure, and what was added stays.                                *)
(***************************************************************************)
Peeked(c) == [c EXCEPT !.map = IF @.nfree = 0 /\ ~Full(@) THEN Expand(@) ELSE @]
IBlock(c) == IF c.map.nfree = 0 THEN NIL ELSE Head(c.map)

\* max + increment wraps: the free list stays empty and is read all the same
PeekWraps(c) == c.map.nfree = 0 /\ ~Full(c.map) /\ c.map.max + c.map.increment > IndexMax

Addable(c, p) == /\ IBlock(c) # NIL
                 /\ c.attr[At(c, p)] # NULL
                 /\ IBlock(c) \notin Has(c, At(c, p))

\* the positions at which it may fail; -1 is success
Stops(c) == {p \in -1 .. c.scalars.n - 1 : \A q \in p + 1 .. c.scalars.n - 1 : Addable(c, q)}

\* the attributes once those above position p have the block
Grown(c, p) ==
  LET added == {At(c, q) : q \in p + 1 .. c.scalars.n - 1} \ {0}
  IN  [i \in Vars |-> IF i \in added
                        THEN Attribute(c.attr[i].name, c.attr[i].blocks \cup {IBlock(c)})
                        ELSE c.attr[i]]

\* mutant: the map takes the block first
AddedMapFirst(c, p) ==
  [c EXCEPT !.attr = Grown(c, p),
            !.map = IF IBlock(c) # NIL THEN Claim(@, IBlock(c)) ELSE @]

AddedDownTo(c, p) ==
  [c EXCEPT !.attr = Grown(c, p),
            !.map = IF p < 0 THEN Claim(@, IBlock(c)) ELSE @]

\* mutant: new nodes still go to the former tail
OpenedBehind(c, iblock) == [c EXCEPT !.info[iblock] = 0, !.max = c.map.max,
                                     !.tail = IF @ = NIL THEN iblock ELSE @]
Opened(c, iblock) == [c EXCEPT !.info[iblock] = 0, !.tail = iblock,
                               !.max = IF @ < c.map.max THEN c.map.max ELSE @]

\* mutant: an expansion that fails starts the tail again
ReopenedTail(c, stop) ==
  IF stop >= 0
    THEN [AddedDownTo(c, stop) EXCEPT !.info = [b \in BlockIDs |-> IF b = c.tail THEN 0 ELSE @[b]]]
    ELSE Opened(AddedDownTo(c, -1), IBlock(c))

Expanded(c, stop) ==
  IF stop >= 0 THEN AddedDownTo(c, stop) ELSE Opened(AddedDownTo(c, -1), IBlock(c))

(***************************************************************************)
(* hmesh_cells (): the defaults take the indices [0, min); the attributes  *)
(* are stored at indices counted from k.                                   *)
(***************************************************************************)
DefaultSlots == IF k = 0 THEN 0 .. min - 1
                ELSE {0, 1, k + 3, k + 4} \cup {i \in {k + 5} : k < K}

Taken(s, i) == Claim(ExpandUntil(s, i), i)      \* index_stack_allocate ()

DefaultsClaimed ==
  LET two   == Taken(Taken(NoCells.scalars, 0), 1)
      three == Taken(two, 2)
      four  == Taken(three, 3)
  IN  CASE min = 2 -> two [] min = 3 -> three [] min = 4 -> four [] min = 5 -> Taken(four, 4)

Create ==
  /\ phase = "none" /\ phase' = "live"
  /\ LET c == Peeked([NoCells EXCEPT !.scalars = DefaultsClaimed, !.maxs = DefaultsClaimed.max,
                        !.attr = [i \in Vars |-> IF i \in DefaultSlots
                                                  THEN Attribute(Default, {}) ELSE NULL]])
     IN  \E stop \in Stops(c) : cells' = Expanded(c, stop)

\* hmesh_cells_destroy (): passes over what is missing and frees the rest
Destroy == phase = "live" /\ phase' = "none" /\ cells' = NoCells

(***************************************************************************)
(* Scalars.  Both functions compare names along in_use, from position min  *)
(* on, and follow the pointer of whatever attribute they meet.             *)
(***************************************************************************)
\* mutant: the first scalar is not looked at
HaltsPastFirst(name) ==
  {p \in min + 1 .. cells.scalars.n - 1 :
     LET a == cells.attr[At(cells, p)] IN a = NULL \/ a.name = name}

\* where a search for name would end: at the name, or at a null pointer
Halts(name) == {p \in min .. cells.scalars.n - 1 :
                  LET a == cells.attr[At(cells, p)] IN IF a = NULL THEN TRUE ELSE a.name = name}

Missing(p)  == cells.attr[At(cells, p)] = NULL
FirstOf(S)  == CHOOSE p \in S : \A q \in S : p <= q
LastOf(S)   == CHOOSE p \in S : \A q \in S : q <= p

Stocked == IF cells.scalars.nfree = 0 THEN Expand(cells.scalars) ELSE cells.scalars

OutOfScalars == cells.scalars.nfree = 0 /\ Full(cells.scalars)

WithScalar == [cells EXCEPT !.scalars = Pop(Stocked),
                            !.maxs = IF Stocked.max > @ THEN Stocked.max ELSE @]

ScalarNew(name) ==
  /\ phase = "live" /\ Halts(name) = {} /\ ~OutOfScalars
  /\ cells' = [WithScalar EXCEPT !.attr[Head(Stocked)] = Attribute(name, UsedSet(cells.map))]
  /\ UNCHANGED phase

\* a block cannot be added: the array goes, the index stays in use
ScalarNewFails(name) ==
  /\ phase = "live" /\ Halts(name) = {} /\ ~OutOfScalars
  /\ cells.map.n > 0
  /\ cells' = WithScalar
  /\ UNCHANGED phase

ScalarNewRefused(name) ==
  /\ phase = "live"
  /\ IF Halts(name) = {} THEN OutOfScalars ELSE ~Missing(FirstOf(Halts(name)))
  /\ UNCHANGED vars

ScalarRemove(name) ==
  /\ phase = "live" /\ Halts(name) # {} /\ ~Missing(LastOf(Halts(name)))
  /\ LET iscalar == At(cells, LastOf(Halts(name)))
     IN  cells' = [cells EXCEPT !.attr[iscalar] = NULL, !.scalars = Release(@, iscalar)]
  /\ UNCHANGED phase

ScalarNotFound(name) == phase = "live" /\ Halts(name) = {} /\ UNCHANGED vars

\* hmesh_array_destroy () frees the array and yet reports that a block was refused:
\* attr[iscalar] is left dangling and in use, to be followed by the next search.
\* Whether a block is refused is up to HmeshArray, which this module leaves open.
ScalarRemoveFails(name) ==
  /\ phase = "live" /\ Halts(name) # {} /\ ~Missing(LastOf(Halts(name)))
  /\ cells.attr[At(cells, LastOf(Halts(name)))].blocks # {}
  /\ phase' = "faulted"
  /\ UNCHANGED cells

\* strcmp (NULL->name, name), in either function
ScalarFaults(name) ==
  /\ phase = "live" /\ Halts(name) # {}
  /\ Missing(FirstOf(Halts(name))) \/ Missing(LastOf(Halts(name)))
  /\ phase' = "faulted"
  /\ UNCHANGED cells

(***************************************************************************)
(* hmesh_node_new ()                                                       *)
(***************************************************************************)
TailPastFull == cells.info[cells.tail] = BlockSize + 1         \* mutant
TailFull == cells.info[cells.tail] = BlockSize

InsertAtTail(c) == [c EXCEPT !.info[c.tail] = @ + 1]

NodeNew ==
  /\ phase = "live" /\ cells.max > 0
  /\ IF ~TailFull THEN cells' = InsertAtTail(cells)
     ELSE /\ ~PeekWraps(cells)
          /\ \E stop \in Stops(Peeked(cells)) :
               LET c == Expanded(Peeked(cells), stop)
               IN  cells' = IF stop >= 0 THEN c ELSE InsertAtTail(c)
  /\ UNCHANGED phase

\* The first expansion failed: info is null and tail was never set.  Or the stack of
\* blocks shrinks to fewer elements than it has in use.
NodeNewFaults ==
  /\ phase = "live"
  /\ \/ cells.max = 0
     \/ cells.max > 0 /\ TailFull /\ PeekWraps(cells)
  /\ phase' = "faulted"
  /\ UNCHANGED cells

Next ==
  \/ Create \/ Destroy \/ NodeNew \/ NodeNewFaults
  \/ \E name \in Names :
       \/ ScalarNew(name) \/ ScalarNewFails(name) \/ ScalarNewRefused(name)
       \/ ScalarRemove(name) \/ ScalarRemoveFails(name)
       \/ ScalarNotFound(name) \/ ScalarFaults(name)

Spec == Init /\ [][Next]_vars
-----------------------------------------------------------------------------
(***************************************************************************)
(* Properties                                                              *)
(***************************************************************************)
CellsType == [scalars : StackType, attr : [Vars -> AttributeType \cup {NULL}], maxs : Word,
              map : StackType, info : [BlockIDs -> 0 .. BlockSize \cup {Garbage}],
              max : Word, tail : Word]

TypeOK == phase \in {"none", "live", "faulted"} /\ cells \in CellsType

Present == {i \in Vars : InUse(cells.scalars, i) /\ cells.attr[i] # NULL}

\* hmesh_cells_expand () adds to the map last: however it fails, a block nodes
\* may live in has its memory in every attribute there is, and a scalar made
\* later has it for all of them.
AttributesCoverMap == \A i \in Present : UsedSet(cells.map) \subseteq Has(cells, i)

\* hmesh_node_new () never gives a node twice: every block but the tail is full,
\* the counts are of blocks the map has and info has room for, and no failed
\* expansion moves the tail.
NodesNeverShared ==
  /\ \A b \in UsedSet(cells.map) :
       /\ b < cells.max
       /\ IF b = cells.tail THEN cells.info[b] \in 0 .. BlockSize ELSE cells.info[b] = BlockSize
  /\ UsedSet(cells.map) # {} => cells.tail \in UsedSet(cells.map)

\* The count of a block only grows while the cells live, and a block of the map stays
\* there: hmesh_node_new (), which returns the count it raises, returns no node again.
NodesAdvance ==
  [][phase = "live" /\ phase' = "live" =>
       \A b \in UsedSet(cells.map) : /\ b \in UsedSet(cells'.map)
                                     /\ cells'.info[b] >= cells.info[b]]_vars

\* "assert (attr)" of tests/cells.c for every i < min: the defaults are there and
\* keep the first min places of in_use, which the searches skip, so that a search
\* never misses a scalar that the removal of another moved along in_use, and no two
\* scalars share a name.
NamesDistinct ==
  /\ phase = "live" => \A i \in 0 .. min - 1 : At(cells, i) = i /\ cells.attr[i] # NULL
  /\ \A i, j \in Present :
       cells.attr[i].name \in Names /\ cells.attr[i].name = cells.attr[j].name => i = j

(***************************************************************************)
(* The inductive invariant, of a value c of the struct: a call goes        *)
(* through several.                                                        *)
(***************************************************************************)
PresentIn(c, i) == InUse(c.scalars, i) /\ c.attr[i] # NULL
IsNamed(c, i)   == PresentIn(c, i) /\ c.attr[i].name \in Names

StacksSound(c) ==
  /\ WellFormed(c.scalars) /\ c.scalars.limit = HMESH_MAX_NVARS /\ c.scalars.increment = Increment
  /\ WellFormed(c.map) /\ c.map.limit = HMESH_MAX_NBLOCKS /\ c.map.increment = Increment

Covered(c) == \A i \in Vars : PresentIn(c, i) => UsedSet(c.map) \subseteq Has(c, i)

NamesApart(c) ==
  /\ \A i \in 0 .. min - 1 : c.attr[i] # NULL => c.attr[i].name = Default
  /\ \A i, j \in Vars : IsNamed(c, i) /\ IsNamed(c, j) /\ c.attr[i].name = c.attr[j].name => i = j

\* index_stack_deallocate () finds the attribute freed: what is not in use is NULL.  (Not
\* the "next" and "twin" that lie past min when k > 0.)
FreeAreNull(c) == k = 0 => \A i \in Vars : InUse(c.scalars, i) \/ c.attr[i] = NULL

\* The defaults stay where hmesh_cells () put them; for k > 0 the third is missing.
DefaultsFirst(c) ==
  /\ c.scalars.n >= min
  /\ \A i \in 0 .. min - 1 : At(c, i) = i /\ (k = 0 => c.attr[i] # NULL)
  /\ k > 0 => c.attr[2] = NULL

\* info is there once a block is, and there is none without all the defaults
BlocksCounted(c) ==
  /\ c.max > 0 => UsedSet(c.map) # {}
  /\ k > 0 => UsedSet(c.map) = {}

IInv ==
  /\ TypeOK /\ NodesNeverShared
  /\ phase = "none" => cells = NoCells
  /\ phase # "none" => DefaultsFirst(cells)
  /\ StacksSound(cells) /\ Covered(cells) /\ NamesApart(cells)
  /\ FreeAreNull(cells) /\ BlocksCounted(cells)
=============================================================================
