-------------------------- MODULE HmeshCellsProofs --------------------------
(***************************************************************************)
(* What the cells of HmeshCells keep, for every k, K, D, every limit and   *)
(* every size of a block.                                                  *)
(*                                                                         *)
(* hmesh_node_new () and hmesh_cells () go through values of the struct    *)
(* that are no states (the stack of blocks peeked at, the attributes       *)
(* grown, the block opened).  The invariant is therefore proved of values: *)
(* each operator that makes one keeps it Good.                             *)
(***************************************************************************)
EXTENDS HmeshCells, IndexStackOpsProofs, WellFoundedInduction

\* NodesNeverShared, of a value.
NodesSound(c) ==
  /\ \A b \in UsedSet(c.map) :
       /\ b < c.max
       /\ IF b = c.tail THEN c.info[b] \in 0 .. BlockSize ELSE c.info[b] = BlockSize
  /\ UsedSet(c.map) # {} => c.tail \in UsedSet(c.map)

\* What IInv says of the cells, and once they have been created.
Sound(c) == c \in CellsType /\ StacksSound(c) /\ Covered(c) /\ NamesApart(c)
            /\ FreeAreNull(c) /\ BlocksCounted(c) /\ NodesSound(c)
Good(c)  == Sound(c) /\ DefaultsFirst(c)

AllFull(c) == \A b \in UsedSet(c.map) : c.info[b] = BlockSize

\* The constants as the provers use them.
LEMMA Sizes ==
  /\ HMESH_MAX_NVARS \in 2 .. IndexMax /\ HMESH_MAX_NBLOCKS \in 2 .. IndexMax
  /\ Increment \in 1 .. IndexMax /\ Increment \in Word
  /\ BlockSize \in Nat /\ BlockSize > 0
  /\ HMESH_MAX_NVARS - 1 + Increment <= IndexMax
  /\ HMESH_MAX_NVARS \in Int /\ HMESH_MAX_NBLOCKS \in Int
  /\ HMESH_MAX_NVARS <= IndexMax /\ HMESH_MAX_NBLOCKS <= IndexMax
  /\ Default \notin Names /\ NULL \notin AttributeType
BY HmeshCellsAssumption, Words DEF HmeshCellsAssumption

LEMMA Defaults ==
  /\ min \in Int /\ 2 <= min /\ min <= 5 /\ min <= HMESH_MAX_NVARS
  /\ k \in Int /\ 0 <= k /\ (k > 0 => min >= 4)
  /\ D \in Int /\ (k = 0 => min = 2 + D)
<1>1. k \in 0 .. 3 /\ K \in 0 .. 3 /\ D \in 0 .. 3
      /\ HMESH_MAX_NVARS >= IF k = 0 THEN 2 + D ELSE k + 6
  BY HmeshCellsAssumption DEF HmeshCellsAssumption
<1>2. QED
  BY <1>1, Sizes, Words DEF min

LEMMA Slots ==
  /\ HMESH_MAX_NVARS \in Int /\ HMESH_MAX_NBLOCKS \in Int
  /\ \A i \in Vars : i \in Index /\ i \in Int /\ 0 <= i /\ i < HMESH_MAX_NVARS
  /\ \A i \in Int : 0 <= i /\ i < HMESH_MAX_NVARS => i \in Vars
  /\ \A b \in BlockIDs : b \in Index /\ b \in Int /\ 0 <= b /\ b < HMESH_MAX_NBLOCKS
  /\ \A b \in Int : 0 <= b /\ b < HMESH_MAX_NBLOCKS => b \in BlockIDs
  /\ \A i \in 0 .. min - 1 : i \in Vars /\ i \in Index /\ i \in Int /\ 0 <= i /\ i < min
BY Sizes, Defaults, Words DEF Vars, BlockIDs

LEMMA CellsFields ==
  ASSUME NEW c \in CellsType
  PROVE  /\ c.scalars \in StackType /\ c.map \in StackType
         /\ c.attr \in [Vars -> AttributeType \cup {NULL}]
         /\ c.info \in [BlockIDs -> 0 .. BlockSize \cup {Garbage}]
         /\ c.max \in Word /\ c.maxs \in Word /\ c.tail \in Word
BY DEF CellsType

\* What StacksSound says in terms of loc.
LEMMA StackFacts ==
  ASSUME NEW c \in CellsType, StacksSound(c)
  PROVE  /\ \A i \in Index : InUse(c.scalars, i) <=> c.scalars.loc[i] # NIL
         /\ \A i \in Index : InUse(c.scalars, i) =>
              /\ i \in Vars /\ c.scalars.loc[i] \in Index
              /\ c.scalars.loc[i] < c.scalars.n /\ At(c, c.scalars.loc[i]) = i
         /\ \A p \in Index : p < c.scalars.n =>
              At(c, p) \in Vars /\ InUse(c.scalars, At(c, p)) /\ c.scalars.loc[At(c, p)] = p
         /\ c.scalars.n \in Int /\ 0 <= c.scalars.n /\ c.scalars.n <= HMESH_MAX_NVARS
         /\ UsedSet(c.map) \subseteq BlockIDs
         /\ c.map.max \in Int /\ 0 <= c.map.max /\ c.map.max <= HMESH_MAX_NBLOCKS
<1> DEFINE s == c.scalars
           m == c.map
<1>1. /\ s \in StackType /\ m \in StackType /\ WellFormed(s) /\ WellFormed(m)
      /\ s.limit = HMESH_MAX_NVARS /\ m.limit = HMESH_MAX_NBLOCKS
  BY CellsFields DEF StacksSound
<1> HIDE DEF s, m
<1>2. /\ s.max \in Int /\ 0 <= s.max /\ s.max <= HMESH_MAX_NVARS
      /\ m.max \in Int /\ 0 <= m.max /\ m.max <= HMESH_MAX_NBLOCKS
      /\ UsedSet(m) \subseteq 0 .. m.max - 1
      /\ UsedSet(s) \subseteq 0 .. s.max - 1
      /\ UsedSet(s) = {i \in Index : s.loc[i] # NIL}
  BY <1>1, UsedAndFree
<1>3. \A i \in Index : InUse(s, i) <=> s.loc[i] # NIL
  BY <1>2 DEF UsedSet
<1>4. /\ s.inUse \in [Index -> Word] /\ s.loc \in [Index -> Word] /\ s.n \in Word
      /\ Mutual(s.inUse, s.loc, s.n, s.max) /\ s.n + s.nfree = s.max /\ s.nfree \in Word
  BY <1>1, StackFields DEF WellFormed, Partitioned
<1>5. s.n \in Int /\ 0 <= s.n /\ s.n <= HMESH_MAX_NVARS
  <2>1. s.n \in Int /\ 0 <= s.n /\ s.nfree \in Int /\ 0 <= s.nfree /\ s.n + s.nfree = s.max
    BY <1>4, Words
  <2>2. s.max \in Int /\ s.max <= HMESH_MAX_NVARS /\ HMESH_MAX_NVARS \in Int
    BY <1>2, Sizes
  <2>3. QED
    BY <2>1, <2>2
<1>6. \A i \in Index : s.loc[i] # NIL =>
        /\ i \in Vars /\ s.loc[i] \in Index /\ s.loc[i] < s.n /\ s.inUse[s.loc[i]] = i
  BY <1>2, <1>4, <1>5, Words, Slots DEF Mutual
<1>7. \A p \in Index : p < s.n =>
        s.inUse[p] \in Vars /\ s.loc[s.inUse[p]] # NIL /\ s.loc[s.inUse[p]] = p
  BY <1>2, <1>4, Words, Slots DEF Mutual
<1>8. UsedSet(m) \subseteq BlockIDs
  BY <1>2, Slots
<1>9. QED
  BY <1>2, <1>3, <1>5, <1>6, <1>7, <1>8, Slots DEF At, s, m

(***************************************************************************)
(* hmesh_cells_expand ().                                                  *)
(***************************************************************************)

\* Expand, when the sum does not wrap, keeps what is in use and the limits.
LEMMA ExpandWellFormed ==
  ASSUME NEW s \in StackType, WellFormed(s), ~Full(s), s.max + s.increment <= IndexMax
  PROVE  /\ Expand(s) \in StackType /\ WellFormed(Expand(s))
         /\ s.max < Expand(s).max /\ Expand(s).max \in Int
         /\ Expand(s).n = s.n /\ Expand(s).inUse = s.inUse /\ Expand(s).loc = s.loc
         /\ Expand(s).nfree # 0
         /\ Expand(s).limit = s.limit /\ Expand(s).increment = s.increment
<1>1. PICK m \in Int : s.max < m /\ m <= s.limit /\ Expand(s) = Extend(s, m)
  BY ExpandGrows
<1>2. s.max \in Int /\ 0 <= s.max /\ s.nfree \in Int /\ 0 <= s.nfree
  BY StackFields, Words
<1>3. s.max <= m
  BY <1>1, <1>2
<1>4. /\ Extend(s, m) \in StackType /\ WellFormed(Extend(s, m))
      /\ Extend(s, m).max = m /\ Extend(s, m).nfree = s.nfree + (m - s.max)
      /\ Extend(s, m).n = s.n /\ Extend(s, m).inUse = s.inUse /\ Extend(s, m).loc = s.loc
      /\ Extend(s, m).limit = s.limit /\ Extend(s, m).increment = s.increment
  BY <1>1, <1>3, ExtendWellFormed
<1>5. QED
  BY <1>1, <1>2, <1>4

LEMMA PeekedSound ==
  ASSUME NEW c \in CellsType, StacksSound(c), ~PeekWraps(c)
  PROVE  /\ Peeked(c) \in CellsType /\ StacksSound(Peeked(c))
         /\ Peeked(c).scalars = c.scalars /\ Peeked(c).attr = c.attr
         /\ Peeked(c).info = c.info /\ Peeked(c).max = c.max /\ Peeked(c).tail = c.tail
         /\ UsedSet(Peeked(c).map) = UsedSet(c.map)
<1> DEFINE m == IF c.map.nfree = 0 /\ ~Full(c.map) THEN Expand(c.map) ELSE c.map
           d == Peeked(c)
<1>1. c.map \in StackType /\ WellFormed(c.map)
  BY CellsFields DEF StacksSound
<1>2. /\ m \in StackType /\ WellFormed(m) /\ m.loc = c.map.loc
      /\ m.limit = c.map.limit /\ m.increment = c.map.increment
  <2>1. CASE c.map.nfree = 0 /\ ~Full(c.map)
    <3>1. c.map.max + c.map.increment <= IndexMax
      BY <1>1, <2>1, StackFields, Words DEF PeekWraps
    <3>2. QED
      BY <1>1, <2>1, <3>1, ExpandWellFormed
  <2>2. CASE ~(c.map.nfree = 0 /\ ~Full(c.map))
    BY <1>1, <2>2
  <2>3. QED
    BY <2>1, <2>2
<1>3. d = [c EXCEPT !.map = m]
  BY DEF Peeked
<1> HIDE DEF m, d
<1>4. /\ d \in CellsType /\ d.map = m /\ d.scalars = c.scalars /\ d.attr = c.attr
      /\ d.info = c.info /\ d.max = c.max /\ d.tail = c.tail
  BY <1>2, <1>3 DEF CellsType
<1>5. UsedSet(m) = UsedSet(c.map)
  BY <1>1, <1>2, UsedAndFree
<1>6. QED
  BY <1>2, <1>4, <1>5 DEF d, StacksSound

\* The block the attributes are to grow by is free, and is a block.
LEMMA NextBlock ==
  ASSUME NEW c \in CellsType, StacksSound(c), IBlock(c) # NIL
  PROVE  /\ IBlock(c) \in Index /\ IBlock(c) \in BlockIDs
         /\ c.map.locFree[IBlock(c)] # NIL /\ IBlock(c) < c.map.max
<1> DEFINE s == c.map
<1>1. s \in StackType /\ WellFormed(s) /\ s.limit = HMESH_MAX_NBLOCKS
  BY CellsFields DEF StacksSound
<1>2. s.nfree # 0 /\ IBlock(c) = Head(s)
  BY DEF IBlock
<1>3. Head(s) \in Index /\ s.locFree[Head(s)] # NIL
  BY <1>1, <1>2, PopIsClaim
<1> DEFINE h == Head(s)
<1> HIDE DEF h
<1>4. h < s.max
  BY <1>1, <1>3, ClaimWellFormed DEF h
<1>5. s.max \in Int /\ s.max <= HMESH_MAX_NBLOCKS
  BY StackFacts
<1>6. h \in BlockIDs
  BY <1>3, <1>4, <1>5, Slots, Words DEF h
<1>7. QED
  BY <1>2, <1>3, <1>4, <1>6 DEF h

\* Growing the attributes neither names nor removes one, and takes no block away.
LEMMA GrownKeeps ==
  ASSUME NEW c \in CellsType, StacksSound(c), NEW stop \in Stops(c)
  PROVE  /\ Grown(c, stop) \in [Vars -> AttributeType \cup {NULL}]
         /\ \A i \in Vars : (Grown(c, stop)[i] = NULL) <=> (c.attr[i] = NULL)
         /\ \A i \in Vars : c.attr[i] # NULL =>
              /\ Grown(c, stop)[i].name = c.attr[i].name
              /\ c.attr[i].blocks \subseteq Grown(c, stop)[i].blocks
         /\ stop = -1 => \A i \in Vars : InUse(c.scalars, i) /\ i # 0 =>
              IBlock(c) \in Grown(c, stop)[i].blocks
<1> DEFINE added == {At(c, q) : q \in stop + 1 .. c.scalars.n - 1} \ {0}
           g == Grown(c, stop)
<1>1. /\ stop \in Int /\ -1 <= stop /\ c.scalars.n \in Int
      /\ \A q \in stop + 1 .. c.scalars.n - 1 : Addable(c, q)
  BY StackFacts DEF Stops
<1>2. c.attr \in [Vars -> AttributeType \cup {NULL}] /\ NULL \notin AttributeType
  BY CellsFields, Sizes
<1>3. ASSUME NEW i \in Vars, i \in added
      PROVE  /\ c.attr[i] \in AttributeType /\ IBlock(c) \in BlockIDs
             /\ g[i] = Attribute(c.attr[i].name, c.attr[i].blocks \cup {IBlock(c)})
  <2>1. PICK q \in stop + 1 .. c.scalars.n - 1 : i = At(c, q)
    BY <1>3
  <2>2. c.attr[i] # NULL /\ IBlock(c) # NIL
    BY <1>1, <2>1 DEF Addable
  <2>3. IBlock(c) \in BlockIDs
    BY <2>2, NextBlock
  <2>4. QED
    BY <1>2, <1>3, <2>2, <2>3 DEF Grown
<1>4. \A i \in Vars : i \notin added => g[i] = c.attr[i]
  BY DEF Grown
<1>5. g = [i \in Vars |-> g[i]]
  BY DEF Grown
<1>6. stop = -1 => \A i \in Vars : InUse(c.scalars, i) /\ i # 0 => i \in added
  <2> SUFFICES ASSUME stop = -1, NEW i \in Vars, InUse(c.scalars, i), i # 0
               PROVE  i \in added
    OBVIOUS
  <2>1. c.scalars.loc[i] \in Index /\ c.scalars.loc[i] < c.scalars.n
        /\ At(c, c.scalars.loc[i]) = i
    BY StackFacts, Slots
  <2>2. c.scalars.loc[i] \in stop + 1 .. c.scalars.n - 1
    BY <1>1, <2>1, Words
  <2>3. QED
    BY <2>1, <2>2
<1> HIDE DEF added, g
<1>7. ASSUME NEW i \in Vars, i \in added
      PROVE  /\ g[i] \in AttributeType /\ g[i].name = c.attr[i].name
             /\ g[i].blocks = c.attr[i].blocks \cup {IBlock(c)}
  <2> DEFINE a == c.attr[i]
             b == IBlock(c)
  <2>1. a \in AttributeType /\ b \in BlockIDs /\ g[i] = [name |-> a.name, blocks |-> a.blocks \cup {b}]
    BY <1>3, <1>7 DEF Attribute
  <2> HIDE DEF a, b
  <2>2. g[i] \in AttributeType /\ g[i].name = a.name /\ g[i].blocks = a.blocks \cup {b}
    BY <2>1 DEF AttributeType
  <2>3. QED
    BY <2>2 DEF a, b
<1>8. \A i \in Vars : g[i] \in AttributeType \cup {NULL}
  BY <1>2, <1>4, <1>7
<1>9. g \in [Vars -> AttributeType \cup {NULL}]
  BY <1>5, <1>8
<1>10. \A i \in Vars : (g[i] = NULL) <=> (c.attr[i] = NULL)
  BY <1>2, <1>3, <1>4, <1>7
<1>11. \A i \in Vars : c.attr[i] # NULL =>
         g[i].name = c.attr[i].name /\ c.attr[i].blocks \subseteq g[i].blocks
  BY <1>4, <1>7
<1>12. stop = -1 => \A i \in Vars : InUse(c.scalars, i) /\ i # 0 => IBlock(c) \in g[i].blocks
  BY <1>6, <1>7
<1>13. QED
  BY <1>9, <1>10, <1>11, <1>12 DEF g

\* A failure leaves blocks in some attributes, and the map as it was.
LEMMA StoppedGood ==
  ASSUME NEW c, Good(c), NEW stop \in Stops(c), stop >= 0
  PROVE  Good(AddedDownTo(c, stop)) /\ AddedDownTo(c, stop).max = c.max
<1> DEFINE g == Grown(c, stop)
           d == AddedDownTo(c, stop)
<1>1. c \in CellsType /\ StacksSound(c) /\ stop \in Int
  BY DEF Good, Sound, Stops
<1>2. /\ g \in [Vars -> AttributeType \cup {NULL}]
      /\ \A i \in Vars : (g[i] = NULL) <=> (c.attr[i] = NULL)
      /\ \A i \in Vars : c.attr[i] # NULL =>
           g[i].name = c.attr[i].name /\ c.attr[i].blocks \subseteq g[i].blocks
  BY <1>1, GrownKeeps
<1>3. d = [c EXCEPT !.attr = g, !.map = c.map]
  <2>1. ~(stop < 0)
    BY <1>1
  <2> HIDE DEF g
  <2>2. QED
    BY <2>1 DEF AddedDownTo, g
<1> HIDE DEF g, d
<1>4. /\ d \in CellsType /\ d.attr = g /\ d.scalars = c.scalars /\ d.map = c.map
      /\ d.info = c.info /\ d.max = c.max /\ d.tail = c.tail
  BY <1>1, <1>2, <1>3 DEF CellsType
<1>5. Covered(d)
  BY <1>2, <1>4 DEF Good, Sound, Covered, PresentIn, Has
<1>6. NamesApart(d)
  BY <1>2, <1>4, Slots DEF Good, Sound, NamesApart, IsNamed, PresentIn
<1>7. DefaultsFirst(d)
  <2>1. k > 0 => 2 \in Vars
    BY Defaults, Slots
  <2>2. QED
    BY <1>2, <1>4, <2>1, Slots DEF Good, DefaultsFirst, At
<1>8. StacksSound(d) /\ FreeAreNull(d) /\ BlocksCounted(d) /\ NodesSound(d)
  BY <1>2, <1>4 DEF FreeAreNull, Good, Sound, StacksSound, BlocksCounted, NodesSound
<1>9. QED
  BY <1>4, <1>5, <1>6, <1>7, <1>8 DEF Good, Sound, d

\* Every attribute took the block: it is opened as the tail.  For k > 0 this never
\* happens, since a default is missing.
LEMMA OpenedGood ==
  ASSUME NEW c, Good(c), AllFull(c), -1 \in Stops(c)
  PROVE  LET d == Expanded(c, -1)
         IN  Good(d) /\ d.max > 0 /\ d.info[d.tail] = 0
<1> DEFINE b == IBlock(c)
           g == Grown(c, -1)
           m == Claim(c.map, b)
           d == Expanded(c, -1)
<1>1. /\ c \in CellsType /\ StacksSound(c) /\ DefaultsFirst(c) /\ Covered(c)
      /\ NamesApart(c) /\ NodesSound(c) /\ c.scalars.n \in Int
  BY StackFacts DEF Good, Sound
<1>2. \A q \in 0 .. c.scalars.n - 1 : Addable(c, q)
  BY DEF Stops
<1>3. k = 0 /\ b # NIL
  <2>1. Addable(c, 0) /\ (k > 0 => Addable(c, 2) /\ At(c, 2) = 2)
    <3>1. 0 \in 0 .. c.scalars.n - 1 /\ (k > 0 => 2 \in 0 .. c.scalars.n - 1 /\ 2 \in 0 .. min - 1)
      BY <1>1, Defaults DEF DefaultsFirst
    <3>2. QED
      BY <1>1, <1>2, <3>1 DEF DefaultsFirst
  <2>2. QED
    BY <1>1, <2>1, Defaults DEF Addable, DefaultsFirst
<1>4. b \in Index /\ b \in BlockIDs /\ c.map.locFree[b] # NIL /\ b < c.map.max
  BY <1>1, <1>3, NextBlock
<1>5. /\ g \in [Vars -> AttributeType \cup {NULL}]
      /\ \A i \in Vars : (g[i] = NULL) <=> (c.attr[i] = NULL)
      /\ \A i \in Vars : c.attr[i] # NULL =>
           g[i].name = c.attr[i].name /\ c.attr[i].blocks \subseteq g[i].blocks
      /\ \A i \in Vars : InUse(c.scalars, i) /\ i # 0 => b \in g[i].blocks
  BY <1>1, GrownKeeps
<1>6. /\ m \in StackType /\ WellFormed(m) /\ m.max = c.map.max
      /\ m.limit = c.map.limit /\ m.increment = c.map.increment
      /\ UsedSet(m) = UsedSet(c.map) \cup {b} /\ b \notin UsedSet(c.map)
  <2>1. c.map \in StackType /\ WellFormed(c.map)
    BY <1>1, CellsFields DEF StacksSound
  <2>2. /\ m \in StackType /\ WellFormed(m) /\ m.max = c.map.max
        /\ m.limit = c.map.limit /\ m.increment = c.map.increment
    BY <1>4, <2>1, ClaimWellFormed
  <2>3. UsedSet(m) = UsedSet(c.map) \cup {b} /\ b \notin UsedSet(c.map)
    BY <1>4, <2>1, ClaimSets
  <2> HIDE DEF m
  <2>4. QED
    BY <2>2, <2>3
<1> DEFINE max  == IF c.max < m.max THEN m.max ELSE c.max
           info == [c.info EXCEPT ![b] = 0]
           e    == AddedDownTo(c, -1)
<1>7. e = [c EXCEPT !.attr = g, !.map = m]
  BY DEF AddedDownTo
<1>8. d = [e EXCEPT !.info = [e.info EXCEPT ![b] = 0], !.tail = b,
                    !.max = IF e.max < e.map.max THEN e.map.max ELSE e.max]
  BY DEF Expanded, Opened
<1> HIDE DEF b, g, m, d, e
<1>9. /\ e \in CellsType /\ e.attr = g /\ e.map = m /\ e.scalars = c.scalars
      /\ e.info = c.info /\ e.max = c.max /\ e.tail = c.tail
  BY <1>1, <1>5, <1>6, <1>7 DEF CellsType
<1>10. d = [e EXCEPT !.info = info, !.tail = b, !.max = max]
  BY <1>8, <1>9
<1>11. /\ info \in [BlockIDs -> 0 .. BlockSize \cup {Garbage}] /\ info[b] = 0
       /\ \A x \in BlockIDs : x # b => info[x] = c.info[x]
  <2>1. c.info \in [BlockIDs -> 0 .. BlockSize \cup {Garbage}] /\ 0 \in 0 .. BlockSize
    BY <1>1, CellsFields, Sizes
  <2>2. QED
    BY <1>4, <2>1
<1>12. max \in Word /\ c.max <= max /\ m.max <= max /\ m.max \in Int /\ c.max \in Int /\ max \in Int
  BY <1>1, <1>6, CellsFields, StackFields, Words
<1> HIDE DEF max, info
<1>13. /\ d \in CellsType /\ d.attr = g /\ d.map = m /\ d.scalars = c.scalars
       /\ d.info = info /\ d.max = max /\ d.tail = b
  <2>1. b \in Word
    BY <1>4, Words
  <2>2. QED
    BY <1>9, <1>10, <1>11, <1>12, <2>1 DEF CellsType
<1>14. StacksSound(d)
  BY <1>1, <1>6, <1>13 DEF StacksSound
<1>15. Covered(d)
  <2> SUFFICES ASSUME NEW i \in Vars, PresentIn(d, i)
               PROVE  UsedSet(m) \subseteq Has(d, i)
    BY <1>13 DEF Covered
  <2>1. CASE i = 0
    BY <1>13, <2>1 DEF Has
  <2>2. CASE i # 0
    <3>1. InUse(c.scalars, i) /\ c.attr[i] # NULL
      BY <1>5, <1>13 DEF PresentIn
    <3>2. UsedSet(c.map) \subseteq c.attr[i].blocks
      BY <1>1, <2>2, <3>1 DEF Covered, PresentIn, Has
    <3>3. QED
      BY <1>5, <1>6, <1>13, <2>2, <3>1, <3>2 DEF Has
  <2>3. QED
    BY <2>1, <2>2
<1>16. NamesApart(d)
  BY <1>1, <1>5, <1>13, Slots DEF NamesApart, IsNamed, PresentIn
<1>17. DefaultsFirst(d)
  BY <1>1, <1>3, <1>5, <1>13, Slots DEF DefaultsFirst, At
<1>18. FreeAreNull(d) /\ BlocksCounted(d)
  BY <1>3, <1>5, <1>6, <1>13 DEF FreeAreNull, BlocksCounted, Good, Sound
<1>19. NodesSound(d)
  <2>1. \A x \in UsedSet(m) : x < max
    BY <1>1, <1>4, <1>6, <1>12, Words DEF NodesSound, UsedSet
  <2>2. \A x \in UsedSet(m) : IF x = b THEN info[x] \in 0 .. BlockSize ELSE info[x] = BlockSize
    BY <1>1, <1>6, <1>11, StackFacts, Sizes DEF AllFull
  <2>3. QED
    BY <1>6, <1>13, <2>1, <2>2 DEF NodesSound
<1>20. max > 0
  BY <1>4, <1>6, <1>12, Words
<1>21. QED
  BY <1>11, <1>13, <1>14, <1>15, <1>16, <1>17, <1>18, <1>19, <1>20 DEF Good, Sound, d

\* hmesh_cells_expand (), wherever it stops.
LEMMA ExpandedGood ==
  ASSUME NEW c, Good(c), AllFull(c), NEW stop \in Stops(c)
  PROVE  LET d == Expanded(c, stop)
         IN  Good(d) /\ (stop < 0 => d.max > 0 /\ d.info[d.tail] = 0)
<1>1. stop \in Int /\ -1 <= stop
  BY StackFacts DEF Good, Sound, Stops
<1>2. CASE stop >= 0
  BY <1>1, <1>2, StoppedGood DEF Expanded
<1>3. CASE stop = -1
  BY <1>3, OpenedGood
<1>4. QED
  BY <1>1, <1>2, <1>3

\* Peeking keeps all of it, and which blocks are full.
LEMMA PeekedGood ==
  ASSUME NEW c, Good(c), ~PeekWraps(c)
  PROVE  Good(Peeked(c)) /\ (AllFull(c) => AllFull(Peeked(c)))
<1> DEFINE d == Peeked(c)
<1>1. /\ d \in CellsType /\ StacksSound(d) /\ d.scalars = c.scalars /\ d.attr = c.attr
      /\ d.info = c.info /\ d.max = c.max /\ d.tail = c.tail
      /\ UsedSet(d.map) = UsedSet(c.map)
  BY PeekedSound DEF Good, Sound
<1> HIDE DEF d
<1>2. /\ Covered(d) /\ NamesApart(d) /\ FreeAreNull(d) /\ BlocksCounted(d) /\ NodesSound(d)
      /\ DefaultsFirst(d)
  BY <1>1 DEF Good, Sound, Covered, NamesApart, FreeAreNull, BlocksCounted, NodesSound,
              DefaultsFirst, IsNamed, PresentIn, Has, At
<1>3. AllFull(c) => AllFull(d)
  BY <1>1 DEF AllFull
<1>4. QED
  BY <1>1, <1>2, <1>3 DEF Good, Sound, d

LEMMA InsertedGood ==
  ASSUME NEW c, Good(c), c.max > 0, c.info[c.tail] # BlockSize
  PROVE  Good(InsertAtTail(c))
<1> DEFINE d == InsertAtTail(c)
           info == [c.info EXCEPT ![c.tail] = c.info[c.tail] + 1]
<1>1. /\ c \in CellsType /\ c.tail \in UsedSet(c.map) /\ c.tail \in BlockIDs
      /\ c.info[c.tail] \in 0 .. BlockSize
      /\ c.info \in [BlockIDs -> 0 .. BlockSize \cup {Garbage}]
  BY StackFacts, CellsFields DEF Good, Sound, BlocksCounted, NodesSound
<1>2. /\ info \in [BlockIDs -> 0 .. BlockSize \cup {Garbage}]
      /\ info[c.tail] \in 0 .. BlockSize
      /\ \A b \in BlockIDs : b # c.tail => info[b] = c.info[b]
  BY <1>1, Sizes
<1>3. d = [c EXCEPT !.info = info]
  BY DEF InsertAtTail
<1> HIDE DEF info, d
<1>4. /\ d \in CellsType /\ d.scalars = c.scalars /\ d.attr = c.attr /\ d.map = c.map
      /\ d.info = info /\ d.max = c.max /\ d.tail = c.tail
  BY <1>1, <1>2, <1>3 DEF CellsType
<1>5. /\ StacksSound(d) /\ Covered(d) /\ NamesApart(d) /\ FreeAreNull(d) /\ BlocksCounted(d)
      /\ DefaultsFirst(d)
  BY <1>4 DEF Good, Sound, StacksSound, Covered, NamesApart, FreeAreNull, BlocksCounted,
              DefaultsFirst, IsNamed, PresentIn, Has, At
<1>6. NodesSound(d)
  BY <1>1, <1>2, <1>4, StackFacts DEF Good, Sound, NodesSound
<1>7. QED
  BY <1>4, <1>5, <1>6 DEF Good, Sound, d

(***************************************************************************)
(* hmesh_cells ().                                                         *)
(***************************************************************************)

\* The first i indices are taken, in order.
FirstTaken(s, i) ==
  /\ s \in StackType /\ WellFormed(s) /\ s.limit = HMESH_MAX_NVARS /\ s.increment = Increment
  /\ s.n = i /\ \A j \in Index : s.loc[j] = IF j < i THEN j ELSE NIL

LEMMA TakenFirst ==
  ASSUME NEW s, NEW i \in Vars, FirstTaken(s, i)
  PROVE  FirstTaken(Taken(s, i), i + 1)
<1> DEFINE r == ExpandUntil(s, i)
           t == Claim(r, i)
<1>1. /\ s \in StackType /\ WellFormed(s) /\ s.limit = HMESH_MAX_NVARS
      /\ s.increment = Increment /\ s.n = i /\ i \in Index /\ i \in Word
      /\ i < HMESH_MAX_NVARS /\ i \in Int
  BY Slots, Words DEF FirstTaken
<1>2. /\ r \in StackType /\ WellFormed(r) /\ r.limit = HMESH_MAX_NVARS
      /\ r.increment = Increment /\ r.loc = s.loc /\ r.n = i /\ i < r.max
  BY <1>1, ExpandUntilWellFormed
<1> HIDE DEF r
<1>3. r.loc[i] = NIL /\ r.locFree[i] # NIL
  BY <1>1, <1>2, Words DEF FirstTaken, WellFormed, Partitioned
<1>4. /\ t \in StackType /\ WellFormed(t) /\ t.n = r.n + 1 /\ t.limit = r.limit
      /\ t.increment = r.increment /\ t.loc = [r.loc EXCEPT ![i] = r.n]
  BY <1>1, <1>2, <1>3, ClaimWellFormed
<1> HIDE DEF t
<1>5. \A j \in Index : t.loc[j] = IF j < i + 1 THEN j ELSE NIL
  <2>1. r.loc \in [Index -> Word]
    BY <1>2, StackFields
  <2>2. \A j \in Index : t.loc[j] = IF j = i THEN i ELSE r.loc[j]
    BY <1>2, <1>4, <2>1
  <2>3. QED
    BY <1>1, <1>2, <2>2, Words DEF FirstTaken
<1>6. Taken(s, i) = t
  BY DEF Taken, t, r
<1>7. QED
  BY <1>2, <1>4, <1>5, <1>6 DEF FirstTaken

LEMMA DefaultsTaken == FirstTaken(DefaultsClaimed, min)
<1> DEFINE none  == NoCells.scalars
           two   == Taken(Taken(none, 0), 1)
           three == Taken(two, 2)
           four  == Taken(three, 3)
           five  == Taken(four, 4)
<1>1. FirstTaken(none, 0)
  <2>1. none = NewStack(HMESH_MAX_NVARS, Increment)
    BY DEF NoCells
  <2> HIDE DEF none
  <2>2. /\ none \in StackType /\ WellFormed(none) /\ none.n = 0
        /\ none.loc = [i \in Index |-> NIL] /\ none.limit = HMESH_MAX_NVARS
        /\ none.increment = IF Increment = 0 THEN 1 ELSE Increment
    BY <2>1, Sizes, NewStackWellFormed
  <2>3. QED
    BY <2>2, Sizes, Words DEF FirstTaken
<1>2. 0 \in Vars /\ 1 \in Vars /\ \A i \in 2 .. min - 1 : i \in Vars
  BY Defaults, Slots
<1> HIDE DEF none
<1>3. FirstTaken(two, 2)
  <2>1. FirstTaken(Taken(none, 0), 0 + 1)
    BY <1>1, <1>2, TakenFirst
  <2>2. FirstTaken(two, 1 + 1)
    BY <1>2, <2>1, TakenFirst
  <2>3. QED
    BY <2>2
<1> HIDE DEF two
<1>4. min >= 3 => FirstTaken(three, 3)
  <2>1. min >= 3 => FirstTaken(three, 2 + 1)
    BY <1>2, <1>3, TakenFirst, Defaults
  <2>2. QED
    BY <2>1
<1> HIDE DEF three
<1>5. min >= 4 => FirstTaken(four, 4)
  <2>1. min >= 4 => FirstTaken(four, 3 + 1)
    BY <1>2, <1>4, TakenFirst, Defaults
  <2>2. QED
    BY <2>1
<1> HIDE DEF four
<1>6. min = 5 => FirstTaken(five, 5)
  <2>1. min = 5 => FirstTaken(five, 4 + 1)
    BY <1>2, <1>5, TakenFirst, Defaults
  <2>2. QED
    BY <2>1
<1> HIDE DEF five
<1>7. DefaultsClaimed = CASE min = 2 -> two [] min = 3 -> three [] min = 4 -> four [] min = 5 -> five
  BY DEF DefaultsClaimed, none, two, three, four, five
<1>8. min = 2 \/ min = 3 \/ min = 4 \/ min = 5
  BY Defaults
<1>9. QED
  BY <1>3, <1>4, <1>5, <1>6, <1>7, <1>8

\* The cells before the first expansion.
Bare == [NoCells EXCEPT !.scalars = DefaultsClaimed, !.maxs = DefaultsClaimed.max,
           !.attr = [i \in Vars |-> IF i \in DefaultSlots
                                     THEN Attribute(Default, {}) ELSE NULL]]

LEMMA BareGood == Good(Bare) /\ AllFull(Bare) /\ ~PeekWraps(Bare)
<1> DEFINE c == Bare
           s == DefaultsClaimed
           m == NewStack(HMESH_MAX_NBLOCKS, Increment)
           a == Attribute(Default, {})
           attr == [i \in Vars |-> IF i \in DefaultSlots THEN a ELSE NULL]
           info == [b \in BlockIDs |-> Garbage]
<1>1. FirstTaken(s, min)
  BY DefaultsTaken
<1>2. /\ m \in StackType /\ WellFormed(m) /\ m.n = 0 /\ m.max \in 1 .. HMESH_MAX_NBLOCKS
      /\ m.loc = [i \in Index |-> NIL] /\ m.limit = HMESH_MAX_NBLOCKS
      /\ m.increment = Increment
  BY NewStackWellFormed, Sizes, Words
<1>3. a \in AttributeType /\ a.name = Default /\ a # NULL
  BY Sizes DEF Attribute, AttributeType
<1> HIDE DEF s, a
<1>4. attr \in [Vars -> AttributeType \cup {NULL}] /\ info \in [BlockIDs -> 0 .. BlockSize \cup {Garbage}]
  BY <1>3
<1>5. c = [NoCells EXCEPT !.scalars = s, !.maxs = s.max, !.attr = attr]
  BY DEF s, a, Bare
<1> HIDE DEF c
<1>6. PICK x, y : NoCells = [scalars |-> x, attr |-> y, maxs |-> 0, map |-> m,
                             info |-> info, max |-> 0, tail |-> NIL]
  BY DEF NoCells
<1>20. \A i \in Vars : attr[i] = IF i \in DefaultSlots THEN a ELSE NULL
  OBVIOUS
<1> HIDE DEF m, info, attr
<1>7. c = [scalars |-> s, attr |-> attr, maxs |-> s.max, map |-> m, info |-> info,
           max |-> 0, tail |-> NIL]
  BY <1>5, <1>6
<1>8. /\ c \in CellsType /\ c.scalars = s /\ c.attr = attr /\ c.map = m /\ c.max = 0
  <2>1. s \in StackType /\ s.max \in Word /\ 0 \in Word /\ NIL \in Word
    BY <1>1, StackFields, Words DEF FirstTaken
  <2>2. /\ c.scalars = s /\ c.attr = attr /\ c.maxs = s.max /\ c.map = m
        /\ c.info = info /\ c.max = 0 /\ c.tail = NIL
    BY <1>7
  <2>3. c \in CellsType
    BY <1>2, <1>4, <1>7, <2>1 DEF CellsType
  <2>4. QED
    BY <2>2, <2>3
<1>9. StacksSound(c)
  BY <1>1, <1>2, <1>8 DEF StacksSound, FirstTaken
<1>10. UsedSet(c.map) = {}
  BY <1>2, <1>8, UsedAndFree
<1>11. Covered(c) /\ BlocksCounted(c) /\ NodesSound(c) /\ AllFull(c)
  <2>1. Covered(c) /\ NodesSound(c) /\ AllFull(c)
    BY <1>10 DEF Covered, NodesSound, AllFull
  <2>2. BlocksCounted(c)
    BY <1>8, <1>10 DEF BlocksCounted
  <2>3. QED
    BY <2>1, <2>2
<1>12. \A i \in Vars : c.attr[i] = IF i \in DefaultSlots THEN a ELSE NULL
  BY <1>20, <1>8
<1>13. NamesApart(c)
  BY <1>3, <1>12, Sizes, Slots DEF NamesApart, IsNamed, PresentIn
<1>14. \A i \in Vars : InUse(s, i) <=> i < min
  <2>1. \A i \in Index : InUse(s, i) <=> s.loc[i] # NIL
    BY <1>8, <1>9, StackFacts
  <2>2. QED
    BY <1>1, <2>1, Slots, Defaults, Words DEF FirstTaken
<1>15. k = 0 => DefaultSlots = 0 .. min - 1
  BY DEF DefaultSlots
<1>16. FreeAreNull(c)
  BY <1>8, <1>12, <1>14, <1>15, Slots, Defaults DEF FreeAreNull
<1>17. DefaultsFirst(c)
  <2>1. c.scalars.n = min
    BY <1>1, <1>8 DEF FirstTaken
  <2>2. ASSUME NEW i \in 0 .. min - 1
        PROVE  At(c, i) = i /\ (k = 0 => c.attr[i] # NULL)
    <3>1. i \in Index /\ i \in Vars /\ i < min /\ c.scalars.loc[i] = i /\ i # NIL
      BY <1>1, <1>8, Slots, Words DEF FirstTaken
    <3>2. At(c, i) = i
      <4>1. InUse(c.scalars, i)
        BY <1>8, <1>14, <3>1
      <4>2. At(c, c.scalars.loc[i]) = i
        BY <1>8, <1>9, <3>1, <4>1, StackFacts
      <4>3. QED
        BY <3>1, <4>2
    <3>3. QED
      BY <1>3, <1>12, <1>15, <3>1, <3>2
  <2>3. k > 0 => c.attr[2] = NULL
    <3>1. k > 0 => 2 \in Vars /\ 2 \notin DefaultSlots
      BY Defaults, Slots DEF DefaultSlots
    <3>2. QED
      BY <1>12, <3>1
  <2>4. QED
    <3>1. c.scalars.n >= min
      BY <2>1, Defaults
    <3>2. QED
      BY <2>2, <2>3, <3>1 DEF DefaultsFirst
<1>18. ~PeekWraps(c)
  BY <1>2, <1>8, StackFields, Words DEF PeekWraps, WellFormed, Partitioned
<1>19. QED
  BY <1>8, <1>9, <1>11, <1>13, <1>16, <1>17, <1>18 DEF Good, Sound, c

LEMMA CreateGood ==
  ASSUME Create
  PROVE  Good(cells') /\ phase' = "live"
<1> DEFINE c == Peeked(Bare)
<1>1. Good(Bare) /\ AllFull(Bare) /\ ~PeekWraps(Bare)
  BY BareGood
<1>2. \E stop \in Stops(c) : cells' = Expanded(c, stop)
  BY DEF Create, Bare
<1>3. Good(c) /\ AllFull(c)
  BY <1>1, PeekedGood
<1> HIDE DEF c
<1>4. Good(cells')
  BY <1>2, <1>3, ExpandedGood
<1>5. QED
  BY <1>4 DEF Create

(***************************************************************************)
(* hmesh_node_new ().                                                      *)
(***************************************************************************)
LEMMA NodeNewGood ==
  ASSUME Good(cells), NodeNew
  PROVE  Good(cells')
<1>1. CASE ~TailFull
  BY <1>1, InsertedGood DEF NodeNew, TailFull
<1>2. CASE TailFull
  <2>1. AllFull(cells)
    BY <1>2 DEF Good, Sound, NodesSound, AllFull, TailFull
  <2>2. Good(Peeked(cells)) /\ AllFull(Peeked(cells))
    BY <1>2, <2>1, PeekedGood DEF NodeNew
  <2> DEFINE p == Peeked(cells)
  <2>3. PICK stop \in Stops(p) :
          cells' = IF stop >= 0 THEN Expanded(p, stop) ELSE InsertAtTail(Expanded(p, stop))
    BY <1>2 DEF NodeNew
  <2> HIDE DEF p
  <2>4. Good(p) /\ AllFull(p)
    BY <2>2 DEF p
  <2> DEFINE d == Expanded(p, stop)
  <2>5. Good(d) /\ (stop < 0 => d.max > 0 /\ d.info[d.tail] = 0)
    BY <2>4, ExpandedGood
  <2> HIDE DEF d
  <2>6. stop \in Int
    BY <2>4, StackFacts DEF Stops, Good, Sound
  <2>7. QED
    BY <2>3, <2>5, <2>6, InsertedGood, Sizes DEF d
<1>3. QED
  BY <1>1, <1>2

(***************************************************************************)
(* hmesh_scalar_new () and hmesh_scalar_remove ().                         *)
(***************************************************************************)

\* A search backwards has an end: a set of positions has a last one.
LEMMA LastFound ==
  ASSUME NEW n \in Int, NEW S, S # {}, \A p \in S : p \in Int /\ p <= n
  PROVE  LastOf(S) \in S
<1> DEFINE R == {ss \in Nat \X Nat : ss[1] < ss[2]}
           T == {n - p : p \in S}
<1>1. IsWellFoundedOn(R, Nat)
  BY NatLessThanWellFounded DEF OpToRel
<1>2. T \subseteq Nat /\ T # {}
  OBVIOUS
<1>3. PICK x \in T : \A y \in T : ~(<<y, x>> \in R)
  <2> HIDE DEF R, T
  <2>1. QED
    BY <1>1, <1>2, WFMin
<1>4. PICK p \in S : x = n - p
  OBVIOUS
<1>5. \A q \in S : q <= p
  <2> SUFFICES ASSUME NEW q \in S
               PROVE  q <= p
    OBVIOUS
  <2>1. n - q \in T /\ n - q \in Nat /\ x \in Nat
    BY <1>2
  <2>2. ~(n - q < x)
    BY <1>3, <2>1
  <2>3. QED
    BY <1>4, <2>2
<1>6. QED
  BY <1>5 DEF LastOf

\* The stack of attributes with a free head, and what popping it does.
LEMMA PoppedSound ==
  ASSUME Good(cells), ~OutOfScalars
  PROVE  LET h == Head(Stocked)
             s == cells.scalars
             t == Pop(Stocked)
         IN  /\ t \in StackType /\ WellFormed(t) /\ t.limit = HMESH_MAX_NVARS
             /\ t.increment = Increment /\ Stocked.max \in Word
             /\ h \in Vars /\ ~InUse(s, h) /\ t.n = s.n + 1 /\ t.loc[h] = s.n
             /\ \A i \in Vars : InUse(t, i) <=> InUse(s, i) \/ i = h
             /\ \A i \in Index : i # h => t.loc[i] = s.loc[i]
<1> DEFINE s == cells.scalars
           r == Stocked
           h == Head(r)
           t == Claim(r, h)
<1>1. /\ s \in StackType /\ WellFormed(s) /\ s.limit = HMESH_MAX_NVARS
      /\ s.increment = Increment
  BY CellsFields DEF Good, Sound, StacksSound
<1>2. /\ r \in StackType /\ WellFormed(r) /\ r.limit = HMESH_MAX_NVARS
      /\ r.increment = Increment /\ r.loc = s.loc /\ r.n = s.n /\ r.nfree # 0
  <2>1. CASE s.nfree = 0
    <3>1. ~Full(s) /\ s.max \in Int /\ s.max <= HMESH_MAX_NVARS
      BY <1>1, <2>1, UsedAndFree DEF OutOfScalars
    <3>2. s.max + s.increment <= IndexMax
      BY <1>1, <3>1, Sizes, Words DEF Full
    <3>3. QED
      BY <1>1, <2>1, <3>1, <3>2, ExpandWellFormed DEF Stocked
  <2>2. CASE s.nfree # 0
    BY <1>1, <2>2 DEF Stocked
  <2>3. QED
    BY <2>1, <2>2
<1> HIDE DEF r
<1>3. h \in Index /\ r.locFree[h] # NIL /\ Pop(r) = t
  BY <1>2, PopIsClaim
<1> HIDE DEF h
<1>4. /\ t \in StackType /\ WellFormed(t) /\ t.n = r.n + 1 /\ t.limit = r.limit
      /\ t.increment = r.increment /\ t.loc = [r.loc EXCEPT ![h] = r.n] /\ r.loc[h] = NIL
  BY <1>2, <1>3, ClaimWellFormed
<1>5. UsedSet(t) = UsedSet(r) \cup {h} /\ h \in FreeSet(r) /\ h \notin UsedSet(r)
  BY <1>2, <1>3, ClaimSets
<1> HIDE DEF t
<1>6. /\ UsedSet(r) = {i \in Index : r.loc[i] # NIL} /\ UsedSet(s) = {i \in Index : s.loc[i] # NIL}
      /\ FreeSet(r) = (0 .. r.max - 1) \ UsedSet(r)
      /\ r.max \in Int /\ r.max <= HMESH_MAX_NVARS
  BY <1>1, <1>2, UsedAndFree
<1>7. h \in Vars /\ h \notin UsedSet(s) /\ UsedSet(t) = UsedSet(s) \cup {h}
  BY <1>2, <1>5, <1>6, Slots
<1>8. /\ ~InUse(s, h)
      /\ \A i \in Vars : InUse(t, i) <=> InUse(s, i) \/ i = h
  BY <1>7, Slots DEF UsedSet
<1>9. t.loc[h] = s.n /\ \A i \in Index : i # h => t.loc[i] = s.loc[i]
  <2>1. r.loc \in [Index -> Word]
    BY <1>2, StackFields
  <2>2. QED
    BY <1>2, <1>3, <1>4, <2>1
<1>10. r.max \in Word
  BY <1>2, StackFields
<1>11. QED
  BY <1>2, <1>3, <1>4, <1>7, <1>8, <1>9, <1>10 DEF r, h

\* That the defaults come first can be told from loc, which pop and allocate () keep.
LEMMA DefaultsByLoc ==
  ASSUME NEW c \in CellsType, StacksSound(c), c.scalars.n >= min
  PROVE  (\A i \in 0 .. min - 1 : At(c, i) = i) <=> (\A i \in 0 .. min - 1 : c.scalars.loc[i] = i)
<1>1. \A i \in 0 .. min - 1 : i \in Index /\ i < c.scalars.n /\ i # NIL
  BY StackFacts, Slots, Defaults, Words
<1>2. ASSUME \A i \in 0 .. min - 1 : At(c, i) = i, NEW i \in 0 .. min - 1
      PROVE  c.scalars.loc[i] = i
  <2>1. c.scalars.loc[At(c, i)] = i
    BY <1>1, StackFacts
  <2>2. QED
    BY <1>2, <2>1
<1>3. ASSUME \A i \in 0 .. min - 1 : c.scalars.loc[i] = i, NEW i \in 0 .. min - 1
      PROVE  At(c, i) = i
  <2>1. i \in Index /\ c.scalars.loc[i] = i /\ InUse(c.scalars, i)
    BY <1>1, <1>3, StackFacts
  <2>2. At(c, c.scalars.loc[i]) = i
    BY <2>1, StackFacts
  <2>3. QED
    BY <2>1, <2>2
<1>4. QED
  BY <1>2, <1>3

\* A scalar made of the popped index, whether its attribute is there or missing.
LEMMA ScalarAddedGood ==
  ASSUME Good(cells), ~OutOfScalars, NEW name \in Names, NEW d, NEW attr, NEW maxs \in Word,
         d = [cells EXCEPT !.scalars = Pop(Stocked), !.maxs = maxs, !.attr = attr],
         \/ /\ attr = [cells.attr EXCEPT ![Head(Stocked)] = Attribute(name, UsedSet(cells.map))]
            /\ Halts(name) = {}
         \/ attr = cells.attr /\ k = 0
  PROVE  Good(d)
<1> DEFINE s == cells.scalars
           h == Head(Stocked)
           t == Pop(Stocked)
           a == Attribute(name, UsedSet(cells.map))
<1>1. /\ t \in StackType /\ WellFormed(t) /\ t.limit = HMESH_MAX_NVARS /\ t.increment = Increment
      /\ h \in Vars /\ ~InUse(s, h) /\ t.n = s.n + 1 /\ t.loc[h] = s.n
      /\ \A i \in Vars : InUse(t, i) <=> InUse(s, i) \/ i = h
      /\ \A i \in Index : i # h => t.loc[i] = s.loc[i]
  BY PoppedSound
<1>2. /\ cells \in CellsType /\ StacksSound(cells) /\ Covered(cells) /\ NamesApart(cells)
      /\ FreeAreNull(cells) /\ BlocksCounted(cells) /\ NodesSound(cells) /\ DefaultsFirst(cells)
      /\ cells.attr \in [Vars -> AttributeType \cup {NULL}]
      /\ s.n \in Int
  BY CellsFields, StackFacts DEF Good, Sound
<1>3. a \in AttributeType /\ a.name = name /\ a.blocks = UsedSet(cells.map) /\ a # NULL
  BY <1>2, StackFacts, Sizes DEF Attribute, AttributeType
<1>4. d = [cells EXCEPT !.scalars = t, !.maxs = maxs, !.attr = attr]
  OBVIOUS
<1>5. \/ attr = [cells.attr EXCEPT ![h] = a] /\ Halts(name) = {}
      \/ attr = cells.attr /\ k = 0
  OBVIOUS
<1> HIDE DEF h, t, a
<1>6. /\ attr \in [Vars -> AttributeType \cup {NULL}]
      /\ \A i \in Vars : i # h => attr[i] = cells.attr[i]
      /\ \/ attr[h] = a /\ Halts(name) = {}
         \/ attr[h] = NULL /\ k = 0
  BY <1>1, <1>2, <1>3, <1>5 DEF FreeAreNull
<1>7. /\ d \in CellsType /\ d.scalars = t /\ d.attr = attr /\ d.map = cells.map
      /\ d.info = cells.info /\ d.max = cells.max /\ d.tail = cells.tail
  BY <1>1, <1>2, <1>4, <1>6 DEF CellsType
<1>8. StacksSound(d) /\ BlocksCounted(d) /\ NodesSound(d)
  BY <1>1, <1>2, <1>7 DEF StacksSound, BlocksCounted, NodesSound
<1>9. Covered(d)
  BY <1>1, <1>2, <1>3, <1>6, <1>7 DEF Covered, PresentIn, Has
<1>10. \A i \in 0 .. min - 1 : /\ i \in Vars /\ i \in Index /\ i \in Int /\ i < min
                              /\ i # h /\ InUse(s, i) /\ s.loc[i] = i
  <2>1. \A i \in 0 .. min - 1 : s.loc[i] = i
    BY <1>2, DefaultsByLoc DEF DefaultsFirst
  <2>2. \A i \in 0 .. min - 1 : InUse(s, i)
    BY <1>2, <2>1, StackFacts, Slots, Words
  <2>3. QED
    BY <1>1, <2>1, <2>2, Slots
<1>11. DefaultsFirst(d)
  <2>1. d.scalars.n >= min
    BY <1>1, <1>2, <1>7, Defaults DEF DefaultsFirst
  <2>2. \A i \in 0 .. min - 1 : At(d, i) = i
    <3>1. \A i \in 0 .. min - 1 : d.scalars.loc[i] = i
      BY <1>1, <1>7, <1>10
    <3>2. QED
      BY <1>7, <1>8, <2>1, <3>1, DefaultsByLoc
  <2>3. \A i \in 0 .. min - 1 : d.attr[i] = cells.attr[i]
    BY <1>6, <1>7, <1>10
  <2>4. k > 0 => 2 \in 0 .. min - 1
    BY Defaults
  <2>5. QED
    BY <1>2, <2>1, <2>2, <2>3, <2>4 DEF DefaultsFirst
<1>12. NamesApart(d)
  <2>1. \A i \in 0 .. min - 1 : d.attr[i] # NULL => d.attr[i].name = Default
    BY <1>2, <1>6, <1>7, <1>10 DEF NamesApart
  <2>2. \A i \in Vars : IsNamed(d, i) /\ i # h => IsNamed(cells, i) /\ d.attr[i] = cells.attr[i]
    BY <1>1, <1>6, <1>7 DEF IsNamed, PresentIn
  <2>3. ASSUME NEW i \in Vars, IsNamed(d, h), IsNamed(d, i), i # h, d.attr[i].name = d.attr[h].name
        PROVE  FALSE
    <3>1. attr[h] = a /\ Halts(name) = {} /\ cells.attr[i].name = name /\ IsNamed(cells, i)
      BY <1>3, <1>6, <1>7, <2>2, <2>3 DEF IsNamed, PresentIn
    <3>2. /\ s.loc[i] \in Index /\ s.loc[i] < s.n /\ At(cells, s.loc[i]) = i /\ i \in Int
          /\ s.loc[i] \in Int
      BY <1>2, <3>1, StackFacts, Slots, Words DEF IsNamed, PresentIn
    <3>3. ~(s.loc[i] < min)
      <4>1. SUFFICES ASSUME s.loc[i] < min PROVE FALSE
        OBVIOUS
      <4>2. s.loc[i] \in 0 .. min - 1
        BY <3>2, <4>1, Words, Defaults
      <4>3. At(cells, s.loc[i]) = s.loc[i] /\ i \in 0 .. min - 1
        BY <1>2, <3>2, <4>2 DEF DefaultsFirst
      <4>4. cells.attr[i].name = Default
        BY <1>2, <3>1, <4>3 DEF NamesApart, IsNamed, PresentIn
      <4>5. QED
        BY <3>1, <4>4, Sizes
    <3>4. s.loc[i] \in Halts(name)
      <4>1. s.loc[i] \in min .. s.n - 1
        BY <1>2, <3>2, <3>3, Defaults
      <4>2. QED
        BY <3>1, <3>2, <4>1 DEF Halts
    <3>5. QED
      BY <3>1, <3>4
  <2>4. QED
    BY <1>2, <2>1, <2>2, <2>3 DEF NamesApart
<1>13. FreeAreNull(d)
  BY <1>1, <1>2, <1>6, <1>7 DEF FreeAreNull
<1>14. QED
  BY <1>7, <1>8, <1>9, <1>11, <1>12, <1>13 DEF Good, Sound

LEMMA ScalarNewGood ==
  ASSUME Good(cells), NEW name \in Names, ScalarNew(name) \/ ScalarNewFails(name)
  PROVE  Good(cells')
<1> DEFINE maxs == IF Stocked.max > cells.maxs THEN Stocked.max ELSE cells.maxs
           h == Head(Stocked)
           t == Pop(Stocked)
           a == Attribute(name, UsedSet(cells.map))
<1>1. ~OutOfScalars /\ Halts(name) = {}
  BY DEF ScalarNew, ScalarNewFails
<1>2. cells \in CellsType /\ StacksSound(cells) /\ maxs \in Word
  BY <1>1, PoppedSound, CellsFields DEF Good, Sound
<1>3. WithScalar = [cells EXCEPT !.scalars = t, !.maxs = maxs]
  BY DEF WithScalar
<1> HIDE DEF maxs, t, h, a
<1>4. WithScalar = [cells EXCEPT !.scalars = t, !.maxs = maxs, !.attr = cells.attr]
  BY <1>2, <1>3 DEF CellsType
<1>5. CASE ScalarNew(name)
  <2> DEFINE attr == [cells.attr EXCEPT ![h] = a]
  <2>1. cells' = [WithScalar EXCEPT !.attr[h] = a]
    BY <1>5 DEF ScalarNew, h, a
  <2>2. cells' = [cells EXCEPT !.scalars = t, !.maxs = maxs, !.attr = attr]
    BY <1>2, <1>3, <2>1 DEF CellsType
  <2>3. QED
    BY <1>1, <1>2, <2>2, ScalarAddedGood DEF t, h, a
<1>6. CASE ScalarNewFails(name)
  <2>1. cells' = [cells EXCEPT !.scalars = t, !.maxs = maxs, !.attr = cells.attr]
    BY <1>4, <1>6 DEF ScalarNewFails
  <2>2. k = 0
    <3> DEFINE m == cells.map
    <3>1. m \in StackType /\ WellFormed(m) /\ m.n > 0
      BY <1>2, <1>6, CellsFields DEF ScalarNewFails, StacksSound
    <3> HIDE DEF m
    <3>2. 0 \in Index /\ m.inUse[0] \in Word /\ m.inUse[0] < m.max /\ m.loc[m.inUse[0]] = 0
          /\ m.max \in Word
      BY <3>1, StackFields, Words DEF WellFormed, Mutual
    <3>3. m.inUse[0] \in UsedSet(m)
      BY <3>2, Words DEF UsedSet, InUse
    <3>4. ~(k > 0)
      BY <3>3 DEF Good, Sound, BlocksCounted, m
    <3>5. QED
      BY <3>4, Defaults
  <2>3. QED
    BY <1>1, <1>2, <2>1, <2>2, ScalarAddedGood DEF t
<1>7. QED
  BY <1>5, <1>6

LEMMA ScalarRemoveGood ==
  ASSUME Good(cells), NEW name \in Names, ScalarRemove(name)
  PROVE  Good(cells')
<1> DEFINE s == cells.scalars
           p == LastOf(Halts(name))
           i == At(cells, p)
           t == Release(s, i)
           attr == [cells.attr EXCEPT ![i] = NULL]
<1>1. /\ cells \in CellsType /\ StacksSound(cells) /\ Covered(cells) /\ NamesApart(cells)
      /\ FreeAreNull(cells) /\ BlocksCounted(cells) /\ NodesSound(cells) /\ DefaultsFirst(cells)
      /\ cells.attr \in [Vars -> AttributeType \cup {NULL}]
      /\ s.n \in Int /\ s.n <= HMESH_MAX_NVARS
  BY CellsFields, StackFacts DEF Good, Sound
<1>2. p \in min .. s.n - 1
  <2>1. Halts(name) # {} /\ \A q \in Halts(name) : q \in min .. s.n - 1
    BY DEF ScalarRemove, Halts
  <2>2. p \in Halts(name)
    BY <1>1, <2>1, LastFound, Defaults
  <2>3. QED
    BY <2>1, <2>2
<1> HIDE DEF p
<1>3. /\ p \in Index /\ p < s.n /\ min <= p /\ p \in Int
      /\ i \in Vars /\ i \in Index /\ InUse(s, i) /\ s.loc[i] = p /\ s.loc[i] # NIL
  <2>1. p \in Index /\ p < s.n /\ min <= p /\ p \in Int
    BY <1>1, <1>2, Defaults, Sizes, Words
  <2>2. i \in Vars /\ InUse(s, i) /\ s.loc[i] = p
    BY <1>1, <2>1, StackFacts
  <2>3. QED
    BY <2>1, <2>2, Slots, Words
<1>4. cells' = [cells EXCEPT !.scalars = t, !.attr = attr]
  <2>1. cells' = [cells EXCEPT !.attr[i] = NULL, !.scalars = Release(s, i)]
    BY DEF ScalarRemove, p
  <2> HIDE DEF i, t
  <2>2. QED
    BY <1>1, <2>1 DEF CellsType, t
<1> HIDE DEF i
<1>5. /\ t \in StackType /\ WellFormed(t) /\ t.limit = HMESH_MAX_NVARS
      /\ t.increment = Increment /\ t.n = s.n - 1
      /\ t.inUse = [s.inUse EXCEPT ![s.loc[i]] = s.inUse[s.n - 1], ![s.n - 1] = NIL]
      /\ UsedSet(t) = UsedSet(s) \ {i}
  <2>1. s \in StackType /\ WellFormed(s)
    BY <1>1, CellsFields DEF StacksSound
  <2>2. UsedSet(t) = UsedSet(s) \ {i}
    BY <1>3, <2>1, ReleaseSets
  <2>3. /\ t \in StackType /\ WellFormed(t) /\ t.limit = s.limit
        /\ t.increment = s.increment /\ t.n = s.n - 1
        /\ t.inUse = [s.inUse EXCEPT ![s.loc[i]] = s.inUse[s.n - 1], ![s.n - 1] = NIL]
    BY <1>3, <2>1, ReleaseWellFormed
  <2> HIDE DEF t
  <2>4. QED
    BY <1>1, <2>2, <2>3 DEF StacksSound
<1> HIDE DEF t
<1>6. /\ attr \in [Vars -> AttributeType \cup {NULL}] /\ attr[i] = NULL
      /\ \A j \in Vars : j # i => attr[j] = cells.attr[j]
  BY <1>1, <1>3
<1> HIDE DEF attr
<1> DEFINE d == cells'
<1>7. d = [cells EXCEPT !.scalars = t, !.attr = attr]
  BY <1>4
<1> HIDE DEF d
<1>8. /\ d \in CellsType /\ d.scalars = t /\ d.attr = attr /\ d.map = cells.map
      /\ d.info = cells.info /\ d.max = cells.max /\ d.tail = cells.tail
  BY <1>1, <1>5, <1>6, <1>7 DEF CellsType
<1>9. \A j \in Vars : InUse(t, j) <=> InUse(s, j) /\ j # i
  BY <1>5, Slots DEF UsedSet
<1>10. StacksSound(d) /\ BlocksCounted(d) /\ NodesSound(d)
  BY <1>1, <1>5, <1>8 DEF StacksSound, BlocksCounted, NodesSound
<1>11. Covered(d)
  BY <1>1, <1>6, <1>8, <1>9 DEF Covered, PresentIn, Has
<1>12. FreeAreNull(d)
  BY <1>1, <1>6, <1>8, <1>9 DEF FreeAreNull
<1>13. NamesApart(d)
  <2>1. \A j \in Vars : d.attr[j] # NULL => d.attr[j] = cells.attr[j]
    BY <1>6, <1>8
  <2>2. \A j \in Vars : IsNamed(d, j) => IsNamed(cells, j)
    BY <1>8, <1>9, <2>1 DEF IsNamed, PresentIn
  <2>3. QED
    BY <1>1, <2>1, <2>2, Slots DEF NamesApart, IsNamed, PresentIn
<1>14. DefaultsFirst(d)
  <2>1. d.scalars.n >= min
    BY <1>1, <1>3, <1>5, <1>8, Defaults
  <2>2. \A q \in 0 .. min - 1 : At(d, q) = q
    <3>1. s.inUse \in [Index -> Word]
      BY <1>1, CellsFields, StackFields
    <3>2. \A q \in 0 .. min - 1 : q \in Index /\ q # p /\ q # s.n - 1
      BY <1>1, <1>3, Slots, Defaults
    <3>3. \A q \in 0 .. min - 1 : t.inUse[q] = s.inUse[q]
      BY <1>3, <1>5, <3>1, <3>2
    <3>4. QED
      BY <1>1, <1>8, <3>3 DEF At, DefaultsFirst
  <2>3. \A q \in 0 .. min - 1 : q # i
    BY <1>1, <1>3, <1>8, Slots, Defaults, DefaultsByLoc DEF DefaultsFirst
  <2>4. k > 0 => 2 \in 0 .. min - 1
    BY Defaults
  <2>5. \A q \in 0 .. min - 1 : d.attr[q] = cells.attr[q]
    BY <1>6, <1>8, <2>3, Slots
  <2>6. QED
    BY <1>1, <2>1, <2>2, <2>4, <2>5 DEF DefaultsFirst
<1>15. QED
  BY <1>8, <1>10, <1>11, <1>12, <1>13, <1>14 DEF Good, Sound, d

(***************************************************************************)
(* The invariant.                                                          *)
(***************************************************************************)
LEMMA NoCellsSound == Sound(NoCells)
<1> DEFINE c == NoCells
           s == NewStack(HMESH_MAX_NVARS, Increment)
           m == NewStack(HMESH_MAX_NBLOCKS, Increment)
           attr == [i \in Vars |-> NULL]
           info == [b \in BlockIDs |-> Garbage]
<1>1. /\ s \in StackType /\ WellFormed(s) /\ s.limit = HMESH_MAX_NVARS /\ s.increment = Increment
      /\ s.loc = [i \in Index |-> NIL]
  BY NewStackWellFormed, Sizes, Words
<1>2. /\ m \in StackType /\ WellFormed(m) /\ m.limit = HMESH_MAX_NBLOCKS
      /\ m.increment = Increment /\ m.loc = [i \in Index |-> NIL]
  BY NewStackWellFormed, Sizes, Words
<1>3. c = [scalars |-> s, attr |-> attr, maxs |-> 0, map |-> m, info |-> info, max |-> 0,
           tail |-> NIL]
  BY DEF NoCells
<1>4. /\ attr \in [Vars -> AttributeType \cup {NULL}] /\ \A i \in Vars : attr[i] = NULL
      /\ info \in [BlockIDs -> 0 .. BlockSize \cup {Garbage}]
  OBVIOUS
<1> HIDE DEF c, s, m, attr, info
<1>5. /\ c \in CellsType /\ c.scalars = s /\ c.attr = attr /\ c.map = m /\ c.max = 0
  BY <1>1, <1>2, <1>3, <1>4, Words DEF CellsType
<1>6. UsedSet(m) = {} /\ UsedSet(s) = {}
  BY <1>1, <1>2, UsedAndFree
<1>7. StacksSound(c)
  BY <1>1, <1>2, <1>5 DEF StacksSound
<1>8. BlocksCounted(c) /\ NodesSound(c)
  BY <1>5, <1>6 DEF BlocksCounted, NodesSound
<1>9. Covered(c) /\ NamesApart(c) /\ FreeAreNull(c)
  BY <1>4, <1>5, Slots DEF Covered, NamesApart, FreeAreNull, IsNamed, PresentIn
<1>10. QED
  BY <1>5, <1>7, <1>8, <1>9 DEF Sound, c

LEMMA Unfold ==
  ASSUME IInv
  PROVE  /\ phase \in {"none", "live", "faulted"} /\ Sound(cells)
         /\ phase = "none" => cells = NoCells
         /\ phase # "none" => Good(cells)
BY DEF IInv, TypeOK, NodesNeverShared, Sound, Good, NodesSound

\* The converse, of the next state.
LEMMA Fold ==
  ASSUME phase' \in {"none", "live", "faulted"},
         phase' = "none" => cells' = NoCells,
         phase' # "none" => Good(cells')
  PROVE  IInv'
<1>1. Sound(cells')
  BY NoCellsSound DEF Good
<1>2. TypeOK' /\ NodesNeverShared'
  BY <1>1 DEF TypeOK, NodesNeverShared, Sound, NodesSound
<1>3. phase' # "none" => DefaultsFirst(cells')
  BY DEF Good
<1>4. /\ StacksSound(cells') /\ Covered(cells') /\ NamesApart(cells')
      /\ FreeAreNull(cells') /\ BlocksCounted(cells')
  BY <1>1 DEF Sound
<1>5. QED
  BY <1>2, <1>3, <1>4
     DEF IInv, DefaultsFirst, StacksSound, Covered, NamesApart, FreeAreNull, BlocksCounted,
         IsNamed, PresentIn, Has, At

LEMMA InitIInv == Init => IInv
<1> SUFFICES ASSUME Init PROVE IInv
  OBVIOUS
<1>1. phase = "none" /\ cells = NoCells /\ Sound(cells)
  BY NoCellsSound DEF Init
<1>2. QED
  BY <1>1 DEF IInv, TypeOK, NodesNeverShared, Sound, NodesSound

LEMMA NextIInv == IInv /\ [Next]_vars => IInv'
<1> SUFFICES ASSUME IInv, [Next]_vars PROVE IInv'
  OBVIOUS
<1>1. CASE cells' = cells /\ (phase' = phase \/ (phase = "live" /\ phase' = "faulted"))
  BY <1>1, Unfold, Fold
<1>2. CASE Create
  BY <1>2, CreateGood, Fold
<1>3. CASE Destroy
  BY <1>3, Fold DEF Destroy
<1>4. CASE NodeNew
  <2>1. phase = "live" /\ phase' = phase
    BY <1>4 DEF NodeNew
  <2>2. QED
    BY <1>4, <2>1, NodeNewGood, Unfold, Fold
<1>5. ASSUME NEW name \in Names, ScalarNew(name) \/ ScalarNewFails(name) \/ ScalarRemove(name)
      PROVE  IInv'
  <2>1. phase = "live" /\ phase' = phase
    BY <1>5 DEF ScalarNew, ScalarNewFails, ScalarRemove
  <2>2. QED
    BY <1>5, <2>1, ScalarNewGood, ScalarRemoveGood, Unfold, Fold
<1>6. QED
  BY <1>1, <1>2, <1>3, <1>4, <1>5
     DEF Next, vars, NodeNewFaults, ScalarNewRefused, ScalarNotFound, ScalarFaults,
         ScalarRemoveFails

(***************************************************************************)
(* Blocks of the map stay and their counts never go back.                  *)
(***************************************************************************)
Onward(c, d) ==
  \A b \in UsedSet(c.map) : b \in UsedSet(d.map) /\ d.info[b] >= c.info[b]

LEMMA CountsAreNumbers ==
  ASSUME NEW c, Good(c), NEW b \in UsedSet(c.map)
  PROVE  b \in BlockIDs /\ c.info[b] \in Int
<1>1. c \in CellsType /\ StacksSound(c) /\ NodesSound(c)
  BY DEF Good, Sound
<1>2. b \in BlockIDs
  BY <1>1, StackFacts
<1>3. QED
  BY <1>1, <1>2, Sizes DEF NodesSound

LEMMA InsertedOnward ==
  ASSUME NEW c, Good(c), c.max > 0
  PROVE  Onward(c, InsertAtTail(c))
<1> SUFFICES ASSUME NEW b \in UsedSet(c.map)
             PROVE  /\ b \in UsedSet(InsertAtTail(c).map)
                    /\ InsertAtTail(c).info[b] >= c.info[b]
  BY DEF Onward
<1>1. /\ c \in CellsType /\ c.tail \in UsedSet(c.map)
      /\ c.info \in [BlockIDs -> 0 .. BlockSize \cup {Garbage}]
  BY CellsFields DEF Good, Sound, BlocksCounted, NodesSound
<1>2. b \in BlockIDs /\ c.info[b] \in Int
  BY CountsAreNumbers
<1> DEFINE info == [c.info EXCEPT ![c.tail] = c.info[c.tail] + 1]
<1>3. InsertAtTail(c) = [c EXCEPT !.info = info]
  BY DEF InsertAtTail
<1>4. info[b] >= c.info[b]
  BY <1>1, <1>2
<1> HIDE DEF info
<1>5. InsertAtTail(c).map = c.map /\ InsertAtTail(c).info = info
  BY <1>1, <1>3 DEF CellsType
<1>6. QED
  BY <1>4, <1>5

LEMMA ExpandedOnward ==
  ASSUME NEW c, Good(c), NEW stop \in Stops(c)
  PROVE  Onward(c, Expanded(c, stop))
<1> SUFFICES ASSUME NEW b \in UsedSet(c.map)
             PROVE  /\ b \in UsedSet(Expanded(c, stop).map)
                    /\ Expanded(c, stop).info[b] >= c.info[b]
  BY DEF Onward
<1> DEFINE g == Grown(c, stop)
           i == IBlock(c)
           m == Claim(c.map, i)
<1>1. /\ c \in CellsType /\ StacksSound(c) /\ DefaultsFirst(c)
      /\ c.info \in [BlockIDs -> 0 .. BlockSize \cup {Garbage}]
      /\ stop \in Int /\ -1 <= stop
  BY StackFacts, CellsFields DEF Good, Sound, Stops
<1>2. b \in BlockIDs /\ c.info[b] \in Int
  BY CountsAreNumbers
<1>3. CASE stop >= 0
  <2>1. Expanded(c, stop) = [c EXCEPT !.attr = g, !.map = c.map]
    <3>1. ~(stop < 0) /\ Expanded(c, stop) = AddedDownTo(c, stop)
      BY <1>1, <1>3 DEF Expanded
    <3> HIDE DEF g
    <3>2. QED
      BY <3>1 DEF AddedDownTo, g
  <2> HIDE DEF g
  <2>2. Expanded(c, stop).map = c.map /\ Expanded(c, stop).info = c.info
    BY <1>1, <2>1 DEF CellsType
  <2>3. QED
    BY <1>2, <2>2
<1>4. CASE stop < 0
  <2>1. i # NIL
    BY <1>1, <1>4, Defaults, StackFacts DEF Stops, Addable, DefaultsFirst
  <2>2. i \in Index /\ i \in BlockIDs /\ c.map.locFree[i] # NIL
        /\ c.map \in StackType /\ WellFormed(c.map)
    BY <1>1, <2>1, NextBlock, CellsFields DEF StacksSound
  <2>3. UsedSet(m) = UsedSet(c.map) \cup {i} /\ i \notin UsedSet(c.map)
    BY <2>2, ClaimSets
  <2> DEFINE info == [c.info EXCEPT ![i] = 0]
             max == IF c.max < m.max THEN m.max ELSE c.max
  <2>4. Expanded(c, stop)
          = [c EXCEPT !.attr = g, !.map = m, !.info = info, !.tail = i, !.max = max]
    <3> DEFINE a == AddedDownTo(c, -1)
    <3>0. stop = -1
      BY <1>1, <1>4
    <3>1. a = [c EXCEPT !.attr = g, !.map = m]
      BY <3>0 DEF AddedDownTo
    <3>2. Expanded(c, stop) = Opened(a, i)
      BY <3>0 DEF Expanded
    <3> HIDE DEF a, g, m, i
    <3>3. a.info = c.info /\ a.max = c.max /\ a.map = m
      BY <1>1, <3>1 DEF CellsType
    <3>4. Opened(a, i) = [a EXCEPT !.info = [a.info EXCEPT ![i] = 0], !.tail = i,
                                   !.max = IF a.max < a.map.max THEN a.map.max ELSE a.max]
      BY DEF Opened
    <3>5. Opened(a, i) = [a EXCEPT !.info = info, !.tail = i, !.max = max]
      BY <3>3, <3>4
    <3> HIDE DEF info, max
    <3>6. QED
      BY <1>1, <3>1, <3>2, <3>5 DEF CellsType
  <2>5. info[b] = c.info[b]
    BY <1>1, <1>2, <2>3
  <2> HIDE DEF g, m, i, info, max
  <2>6. Expanded(c, stop).map = m /\ Expanded(c, stop).info = info
    BY <1>1, <2>4 DEF CellsType
  <2>7. QED
    BY <1>2, <2>3, <2>5, <2>6
<1>5. QED
  BY <1>1, <1>3, <1>4

LEMMA NodeNewOnward ==
  ASSUME Good(cells), NodeNew
  PROVE  Onward(cells, cells')
<1>1. CASE ~TailFull
  BY <1>1, InsertedOnward DEF NodeNew
<1>2. CASE TailFull
  <2> DEFINE p == Peeked(cells)
  <2>1. /\ ~PeekWraps(cells) /\ AllFull(cells)
        /\ \E stop \in Stops(p) :
             cells' = IF stop >= 0 THEN Expanded(p, stop) ELSE InsertAtTail(Expanded(p, stop))
    BY <1>2 DEF NodeNew, Good, Sound, NodesSound, AllFull, TailFull
  <2>2. Good(p) /\ AllFull(p)
    BY <2>1, PeekedGood
  <2>3. UsedSet(p.map) = UsedSet(cells.map) /\ p.info = cells.info
    BY <2>1, PeekedSound DEF Good, Sound
  <2> HIDE DEF p
  <2>4. PICK stop \in Stops(p) :
          cells' = IF stop >= 0 THEN Expanded(p, stop) ELSE InsertAtTail(Expanded(p, stop))
    BY <2>1
  <2> DEFINE d == Expanded(p, stop)
  <2>5. Good(d) /\ (stop < 0 => d.max > 0) /\ Onward(p, d)
    BY <2>2, ExpandedGood, ExpandedOnward
  <2>6. cells' = IF stop >= 0 THEN d ELSE InsertAtTail(d)
    BY <2>4
  <2>7. stop \in Int
    BY <2>2, StackFacts DEF Stops, Good, Sound
  <2> HIDE DEF d
  <2>8. CASE stop >= 0
    BY <2>3, <2>5, <2>6, <2>8 DEF Onward
  <2>9. CASE stop < 0
    <3>1. Onward(d, cells')
      BY <2>5, <2>6, <2>7, <2>9, InsertedOnward
    <3>2. Good(cells')
      BY NodeNewGood
    <3> SUFFICES ASSUME NEW b \in UsedSet(cells.map)
                 PROVE  b \in UsedSet(cells'.map) /\ cells'.info[b] >= cells.info[b]
      BY DEF Onward
    <3>3. b \in UsedSet(d.map) /\ d.info[b] >= p.info[b] /\ b \in UsedSet(p.map)
      BY <2>3, <2>5 DEF Onward
    <3>4. b \in UsedSet(cells'.map) /\ cells'.info[b] >= d.info[b]
      BY <3>1, <3>3 DEF Onward
    <3>5. p.info[b] \in Int /\ d.info[b] \in Int /\ cells'.info[b] \in Int
      BY <2>2, <2>5, <3>2, <3>3, <3>4, CountsAreNumbers
    <3>6. QED
      BY <2>3, <3>3, <3>4, <3>5
  <2>10. QED
    BY <2>7, <2>8, <2>9
<1>3. QED
  BY <1>1, <1>2

\* Calls that leave map and info alone.
LEMMA UntouchedOnward ==
  ASSUME Good(cells), cells'.map = cells.map, cells'.info = cells.info
  PROVE  Onward(cells, cells')
BY CountsAreNumbers DEF Onward

(***************************************************************************)
(* The theorems.                                                           *)
(***************************************************************************)

\* The invariant of cells of any dimension, whatever additions and expansions fail.
THEOREM Invariance == Spec => []IInv
<1>1. Init => IInv
  BY InitIInv
<1>2. IInv /\ [Next]_vars => IInv'
  BY NextIInv
<1>3. QED
  BY <1>1, <1>2, PTL DEF Spec

\* The struct keeps its types.
THEOREM TypeCorrect == Spec => []TypeOK
<1>1. IInv => TypeOK
  BY DEF IInv
<1>2. QED
  BY <1>1, Invariance, PTL

\* However hmesh_cells_expand () fails, the blocks of the map are in every attribute
\* there is, for cells of any dimension.
THEOREM MapCovered == Spec => []AttributesCoverMap
<1>1. IInv => AttributesCoverMap
  BY DEF IInv, Covered, PresentIn, AttributesCoverMap, Present
<1>2. QED
  BY <1>1, Invariance, PTL

\* hmesh_node_new () gives each node once, for every size of a block.
THEOREM NodesOnce == Spec => []NodesNeverShared
<1>1. IInv => NodesNeverShared
  BY DEF IInv
<1>2. QED
  BY <1>1, Invariance, PTL

\* hmesh_node_new () never takes a count back, so that it gives no node twice, for every
\* size of a block, however expansions fail.
THEOREM CountsOnlyGrow == Spec => NodesAdvance
<1>1. IInv /\ [Next]_vars =>
        [phase = "live" /\ phase' = "live" =>
           \A b \in UsedSet(cells.map) : /\ b \in UsedSet(cells'.map)
                                         /\ cells'.info[b] >= cells.info[b]]_vars
  <2> SUFFICES ASSUME IInv, Next, phase = "live", phase' = "live"
               PROVE  Onward(cells, cells')
    BY DEF vars, Onward
  <2>1. Good(cells) /\ cells \in CellsType
    BY Unfold DEF Good, Sound
  <2>2. CASE NodeNew
    BY <2>1, <2>2, NodeNewOnward
  <2>3. ASSUME NEW name \in Names, ScalarNew(name) \/ ScalarNewFails(name) \/ ScalarRemove(name)
        PROVE  cells'.map = cells.map /\ cells'.info = cells.info
    <3>1. WithScalar.map = cells.map /\ WithScalar.info = cells.info
          /\ WithScalar = [WithScalar EXCEPT !.attr = @]
      BY <2>1 DEF WithScalar, CellsType
    <3>2. QED
      BY <2>1, <2>3, <3>1 DEF ScalarNew, ScalarNewFails, ScalarRemove, WithScalar, CellsType
  <2>4. CASE cells' = cells
    BY <2>1, <2>4, UntouchedOnward
  <2>5. QED
    BY <2>1, <2>2, <2>3, <2>4, UntouchedOnward
       DEF Next, Create, Destroy, NodeNewFaults, ScalarNewRefused, ScalarNotFound, ScalarFaults,
           ScalarRemoveFails, vars
<1>2. QED
  BY <1>1, Invariance, PTL DEF Spec, NodesAdvance

\* For points the defaults are there, in the first places of in_use, and no two
\* scalars share a name, whatever is added, removed and half added.  (For k > 0 the
\* defaults are not there: hmesh_cells () stores them at other indices.)
THEOREM NamesOfPointsDistinct ==
  ASSUME k = 0
  PROVE  Spec => []NamesDistinct
<1>1. IInv => NamesDistinct
  <2> SUFFICES ASSUME IInv PROVE NamesDistinct
    OBVIOUS
  <2>1. phase = "live" => \A i \in 0 .. min - 1 : At(cells, i) = i /\ cells.attr[i] # NULL
    BY DEF IInv, DefaultsFirst
  <2>2. \A i, j \in Present :
          cells.attr[i].name \in Names /\ cells.attr[i].name = cells.attr[j].name => i = j
    BY DEF IInv, NamesApart, IsNamed, PresentIn, Present
  <2>3. QED
    BY <2>1, <2>2 DEF NamesDistinct
<1>2. QED
  BY <1>1, Invariance, PTL
=============================================================================
